------------------------- MODULE CallbackGuardProofs -------------------------
(***************************************************************************)
(* CallbackGuard keeps its types, never hands a payload to a blocked       *)
(* address, sends at most one request late and loses at most one request   *)
(* to each rotation, for every set of jobs, retries and rotations.         *)
(***************************************************************************)
EXTENDS CallbackGuard, TLAPS

\* What is pinned was checked: the domain was allowed, no address was blocked.
PinWasChecked ==
    \A j \in Jobs :
        /\ pin[j] \cap Blocked = {}
        /\ reached[j] \cap Blocked = {}
        /\ pc[j] = "pinned" => grant[j].allowed

\* Only an attempt that read the tenant before the removal can still be late, and
\* then no other one was.
LateOnce ==
    \A j \in Jobs :
        /\ late[j] <= 1
        /\ allowed => late[j] = 0
        /\ InFlight(j) /\ grant[j].allowed => late[j] = 0

\* The endpoint verifies with one of the secrets that are stored, and the two are
\* neighbours.
SecretsInStep ==
    /\ verifier \in {secret, previous}
    /\ previous # NoSecret => secret = previous + 1

\* Only an attempt that read the tenant before the last rotation can be refused, and
\* then fewer were refused than there were rotations.
RefusedInTurn ==
    \A j \in Jobs :
        /\ refusals[j] <= secret
        /\ InFlight(j) =>
             /\ grant[j].secret <= secret
             /\ grant[j].secret < secret => refusals[j] < secret
             /\ grant[j].secret = secret /\ previous # NoSecret =>
                  grant[j].previous = previous

GuardInv == TypeOK /\ PinWasChecked /\ LateOnce /\ SecretsInStep /\ RefusedInTurn

-----------------------------------------------------------------------------

\* The guard starts in the invariant.
LEMMA GuardInvInit == Init => GuardInv
BY NetsAssumption, BoundsAssumption
DEF Init, GuardInv, TypeOK, PinWasChecked, LateOnce, SecretsInStep, RefusedInTurn,
    InFlight, JobState, Secret, Grant, Addresses, NoAddress, NoSecret

\* Every step keeps the types.
LEMMA TypeStep == TypeOK /\ [Next]_vars => TypeOK'
<1> SUFFICES ASSUME TypeOK, [Next]_vars PROVE TypeOK'
  OBVIOUS
<1> USE NetsAssumption, BoundsAssumption DEF TypeOK, JobState, Secret, Grant, Addresses,
    NoAddress, NoSecret, rowVars, worldVars, runVars, outputVars
<1>1. CASE StoreTenant \/ PrintCredentials
  BY <1>1 DEF StoreTenant, PrintCredentials
<1>2. ASSUME NEW j \in Jobs, JobStep(j) PROVE TypeOK'
  <2>1. CASE Submit(j)
    BY <2>1 DEF Submit, Resolves
  <2>2. CASE LoadTenant(j)
    BY <2>2 DEF LoadTenant
  <2>3. CASE Resolve(j)
    BY <2>3 DEF Resolve
  <2>4. CASE AttemptFails(j)
    BY <2>4 DEF AttemptFails, Retry
  <2>5. CASE Send(j)
    <3>1. reached' \in [Jobs -> SUBSET Addresses]
      BY <2>5 DEF Send, Target
    <3>2. late' \in [Jobs -> Nat] /\ refusals' \in [Jobs -> Nat]
      BY <2>5 DEF Send
    <3>3. CASE Retry(j)
      BY <2>5, <3>1, <3>2, <3>3 DEF Send, Retry
    <3>4. CASE pc' = [pc EXCEPT ![j] = "delivered"] /\ UNCHANGED <<left, pin>>
      BY <2>5, <3>1, <3>2, <3>4 DEF Send
    <3> QED
      BY <2>5, <3>3, <3>4 DEF Send
  <2> QED
    BY <1>2, <2>1, <2>2, <2>3, <2>4, <2>5 DEF JobStep
<1>3. CASE RemoveDomain \/ Deactivate
  BY <1>3 DEF RemoveDomain, Deactivate
<1>4. CASE Rotate
  BY <1>4 DEF Rotate
<1>5. CASE EndTransition
  BY <1>5 DEF EndTransition
<1>6. CASE TakeNewSecret \/ WorldMoves
  BY <1>6 DEF TakeNewSecret, WorldMoves
<1>7. CASE UNCHANGED vars
  BY <1>7 DEF vars
<1> QED
  BY <1>1, <1>2, <1>3, <1>4, <1>5, <1>6, <1>7 DEF Next

\* A step of the job j disturbs only what the other conjuncts say of j.
LEMMA JobKeepsGuard ==
    ASSUME GuardInv, TypeOK', NEW j \in Jobs, JobStep(j)
    PROVE  GuardInv'
<1> USE NetsAssumption, BoundsAssumption DEF GuardInv, TypeOK, Secret, Grant, NoAddress, NoSecret,
    rowVars, worldVars, runVars, outputVars, InFlight
<1>1. CASE Submit(j)
  BY <1>1 DEF Submit, PinWasChecked, LateOnce, SecretsInStep, RefusedInTurn
<1>2. CASE LoadTenant(j)
  <2>1. PinWasChecked' /\ SecretsInStep'
    BY <1>2 DEF LoadTenant, PinWasChecked, SecretsInStep
  <2>2. LateOnce'
    BY <1>2 DEF LoadTenant, LateOnce
  <2>3. RefusedInTurn'
    BY <1>2 DEF LoadTenant, RefusedInTurn
  <2> QED
    BY <2>1, <2>2, <2>3
<1>3. CASE Resolve(j)
  <2>1. PinWasChecked'
    BY <1>3 DEF Resolve, Resolves, PinWasChecked
  <2>2. LateOnce' /\ SecretsInStep' /\ RefusedInTurn'
    BY <1>3 DEF Resolve, LateOnce, SecretsInStep, RefusedInTurn
  <2> QED
    BY <2>1, <2>2
<1>4. CASE AttemptFails(j)
  BY <1>4 DEF AttemptFails, Retry, PinWasChecked, LateOnce, SecretsInStep, RefusedInTurn
<1>5. CASE Send(j)
  <2>1. PinWasChecked'
    BY <1>5 DEF Send, Target, Retry, PinWasChecked
  <2>2. LateOnce'
    BY <1>5 DEF Send, Retry, LateOnce, PinWasChecked
  <2>3. SecretsInStep'
    BY <1>5 DEF Send, SecretsInStep
  <2>4. ~Verified(j) => grant[j].secret < secret
    <3>1. /\ grant[j].secret \in Nat /\ secret \in Nat /\ grant[j].secret <= secret
          /\ grant[j].secret = secret /\ previous # NoSecret => grant[j].previous = previous
      BY <1>5 DEF Send, RefusedInTurn
    <3>2. verifier = secret \/ (previous # NoSecret /\ verifier = previous)
      BY DEF SecretsInStep
    <3>3. grant[j].secret = secret => verifier \in {grant[j].secret, grant[j].previous}
      BY <3>1, <3>2
    <3> HIDE DEF GuardInv, TypeOK, Grant, Secret
    <3> SUFFICES ASSUME grant[j].secret # secret PROVE grant[j].secret < secret
      BY <3>3 DEF Verified, Signatures
    <3> QED
      BY <3>1
  <2>5. RefusedInTurn'
    BY <1>5, <2>4 DEF Send, Retry, RefusedInTurn
  <2> QED
    BY <2>1, <2>2, <2>3, <2>5
<1> QED
  BY <1>1, <1>2, <1>3, <1>4, <1>5 DEF JobStep

\* The invariant is inductive.
LEMMA GuardInvStep == GuardInv /\ [Next]_vars => GuardInv'
<1> SUFFICES ASSUME GuardInv, [Next]_vars PROVE GuardInv'
  OBVIOUS
<1>0. TypeOK'
  BY TypeStep DEF GuardInv
<1> USE BoundsAssumption DEF GuardInv, PinWasChecked, LateOnce, SecretsInStep, RefusedInTurn, InFlight,
    TypeOK, Secret, Grant, NoSecret, rowVars, worldVars, runVars, outputVars
<1>1. CASE StoreTenant \/ PrintCredentials
  <2>1. UNCHANGED <<allowed, secret, previous, verifier>> /\ UNCHANGED runVars
        /\ UNCHANGED outputVars
    BY <1>1 DEF StoreTenant, PrintCredentials
  <2> QED
    BY <1>0, <2>1
<1>2. ASSUME NEW j \in Jobs, JobStep(j) PROVE GuardInv'
  BY <1>0, <1>2, JobKeepsGuard
<1>3. CASE RemoveDomain
  BY <1>0, <1>3 DEF RemoveDomain
<1>4. CASE Deactivate
  BY <1>0, <1>4 DEF Deactivate
<1>5. CASE Rotate
  BY <1>0, <1>5 DEF Rotate
<1>6. CASE EndTransition
  BY <1>0, <1>6 DEF EndTransition
<1>7. CASE TakeNewSecret \/ WorldMoves
  <2>1. UNCHANGED <<allowed, secret, previous>> /\ UNCHANGED runVars /\ UNCHANGED outputVars
        /\ verifier' \in {verifier, secret}
    BY <1>7 DEF TakeNewSecret, WorldMoves
  <2> QED
    BY <1>0, <2>1
<1>8. CASE UNCHANGED vars
  BY <1>0, <1>8 DEF vars
<1> QED
  BY <1>1, <1>2, <1>3, <1>4, <1>5, <1>6, <1>7, <1>8 DEF Next

\* The inductive invariant of the callback guard.
THEOREM GuardInvariance == Spec => []GuardInv
<1>1. Init => GuardInv
  BY GuardInvInit
<1>2. GuardInv /\ [Next]_vars => GuardInv'
  BY GuardInvStep
<1> QED
  BY <1>1, <1>2, PTL DEF Spec

\* The variables of CallbackGuard keep their types.
THEOREM GuardTypeCorrect == Spec => []TypeOK
<1>1. GuardInv => TypeOK
  BY DEF GuardInv
<1> QED
  BY <1>1, GuardInvariance, PTL

\* _send never hands a payload to an address in a blocked net.
THEOREM PayloadNeverInside == Spec => []PayloadStaysOutside
<1>1. GuardInv => PayloadStaysOutside
  BY DEF GuardInv, PinWasChecked, PayloadStaysOutside
<1> QED
  BY <1>1, GuardInvariance, PTL

\* A job sends at most one request after its domain was removed.
THEOREM AtMostOneLateRequest == Spec => []RemovedDomainGoesQuiet
<1>1. GuardInv => RemovedDomainGoesQuiet
  BY DEF GuardInv, LateOnce, RemovedDomainGoesQuiet
<1> QED
  BY <1>1, GuardInvariance, PTL

\* A job loses at most one attempt to each rotation of the secret.
THEOREM OneRefusalPerRotation == Spec => []RotationCostsOneAttempt
<1>1. GuardInv => RotationCostsOneAttempt
  BY DEF GuardInv, RefusedInTurn, RotationCostsOneAttempt
<1> QED
  BY <1>1, GuardInvariance, PTL
=============================================================================

-------------------------- MODULE RequestPoolProofs -------------------------
(***************************************************************************)
(* The safety of RequestPool for every number of requests, threads and     *)
(* connections: what a request holds is determined by where it is.         *)
(***************************************************************************)
EXTENDS RequestPool, TLAPS

\* Where a request runs in a thread.
Inside == {"tenant", "serving", "inserted", "saving", "recorded", "reloaded",
           "enqueue", "probe", "ping"}

\* What the session of a request has of the pool, by where the request is.
ShareInv ==
    \A r \in Requests :
        /\ pc[r] \in {"arrived", "enqueue", "ping", "over"} => conn[r] = "none"
        /\ pc[r] \in {"known", "serving", "saving", "reloaded"} => conn[r] = "held"
        /\ pc[r] \in {"tenant", "probe", "inserted", "recorded"} => conn[r] # "held"
        /\ pc[r] = "teardown" => conn[r] \in {"none", "held"}
        /\ pc[r] # "enqueue" => job[r] = "none"

ThreadInv == \A r \in Requests : r \in threads <=> pc[r] \in Inside

\* A probe stays in its own part of the code.
ProbeInv ==
    \A r \in Requests :
        /\ pc[r] \in {"probe", "ping"} => r \in Probes
        /\ r \in Probes =>
             /\ pc[r] \in {"arrived", "probe", "ping", "over"}
             /\ answer[r] \in {"none", "unhealthy", "ok"}
             /\ pc[r] = "over" => answer[r] \in {"ok", "unhealthy"}

PoolInv == TypeOK /\ ShareInv /\ ThreadInv /\ ProbeInv

-----------------------------------------------------------------------------

\* The API process starts in the invariant.
LEMMA PoolInit == Init => PoolInv
  BY DEF Init, PoolInv, TypeOK, ShareInv, ThreadInv, ProbeInv, Inside, State, Share,
         Answer, Tries

\* A step keeps the types.
LEMMA PoolTypes ==
    ASSUME TypeOK, [Next]_vars
    PROVE  TypeOK'
  <1> USE DEF TypeOK, State, Share, Answer, Tries
  <1>1. CASE UNCHANGED vars
    BY <1>1 DEF vars
  <1>2. ASSUME NEW r \in Requests, Proceed(r)
        PROVE  TypeOK'
    <2>1. CASE StartFunction(r) \/ Checkout(r) \/ StopWaiting(r)
      BY <2>1 DEF StartFunction, Checkout, StopWaiting
    <2>2. CASE FindTenant(r) \/ Teardown(r)
      BY <2>2 DEF FindTenant, Teardown, Move, Leave, Return, Give
    <2>3. CASE ReadJob(r) \/ InsertJob(r) \/ Reload(r) \/ SaveUpload(r) \/ CloseSession(r)
      BY <2>3 DEF ReadJob, InsertJob, Reload, SaveUpload, CloseSession, Move, Leave, Return, Give
    <2>4. CASE CheckoutJob(r) \/ RunJob(r) \/ Enqueue(r)
      BY <2>4 DEF CheckoutJob, RunJob, Enqueue, Leave, Return
    <2>5. CASE ProbeDatabase(r) \/ Ping(r)
      BY <2>5 DEF ProbeDatabase, Ping, Move, Return, Give
    <2>6. CASE CheckoutTimesOut(r) \/ OpenFails(r)
      BY <2>6 DEF CheckoutTimesOut, OpenFails, Raise, ProbeFails, Move, Leave, Return
    <2> QED
      BY <1>2, <2>1, <2>2, <2>3, <2>4, <2>5, <2>6 DEF Proceed
  <1>3. ASSUME NEW r \in Requests, Fail(r)
        PROVE  TypeOK'
    <2>1. CASE MissingKey(r) \/ RefuseUpload(r) \/ OpenAgain(r)
      BY <2>1 DEF MissingKey, RefuseUpload, OpenAgain, Leave, Return
    <2>2. CASE FirstStatementRaises(r) \/ StatementRaises(r)
      BY <2>2 DEF FirstStatementRaises, StatementRaises, Raise, ProbeFails, Move, Leave, Return
    <2> QED
      BY <1>3, <2>1, <2>2 DEF Fail
  <1> QED
    BY <1>1, <1>2, <1>3 DEF Next, AllOver

-----------------------------------------------------------------------------
(* What the steps share                                                    *)

\* What the invariant says of one request.
Sound(r) ==
    /\ pc[r] \in {"arrived", "enqueue", "ping", "over"} => conn[r] = "none"
    /\ pc[r] \in {"known", "serving", "saving", "reloaded"} => conn[r] = "held"
    /\ pc[r] \in {"tenant", "probe", "inserted", "recorded"} => conn[r] # "held"
    /\ pc[r] = "teardown" => conn[r] \in {"none", "held"}
    /\ pc[r] # "enqueue" => job[r] = "none"
    /\ r \in threads <=> pc[r] \in Inside
    /\ pc[r] \in {"probe", "ping"} => r \in Probes
    /\ r \in Probes =>
         /\ pc[r] \in {"arrived", "probe", "ping", "over"}
         /\ answer[r] \in {"none", "unhealthy", "ok"}
         /\ pc[r] = "over" => answer[r] \in {"ok", "unhealthy"}

\* The invariant is one condition for each request.
LEMMA PoolInvIsSound ==
    PoolInv <=> TypeOK /\ \A r \in Requests : Sound(r)
  BY DEF PoolInv, ShareInv, ThreadInv, ProbeInv, Sound

\* A step of one request leaves what the others are and hold alone.
Others(r) ==
    \A q \in Requests \ {r} :
        /\ pc'[q] = pc[q] /\ conn'[q] = conn[q] /\ job'[q] = job[q] /\ answer'[q] = answer[q]
        /\ q \in threads' <=> q \in threads

\* A request changes nothing of the others.
LEMMA OneRequestSteps ==
    ASSUME TypeOK, NEW r \in Requests, Proceed(r) \/ Fail(r)
    PROVE  Others(r)
  <1> USE DEF TypeOK, Others
  <1>1. CASE StartFunction(r) \/ Checkout(r) \/ StopWaiting(r) \/ OpenAgain(r)
    BY <1>1 DEF StartFunction, Checkout, StopWaiting, OpenAgain
  <1>2. CASE FindTenant(r) \/ Teardown(r) \/ MissingKey(r) \/ RefuseUpload(r)
    BY <1>2 DEF FindTenant, Teardown, MissingKey, RefuseUpload, Move, Leave, Return, Give
  <1>3. CASE ReadJob(r) \/ InsertJob(r) \/ Reload(r) \/ SaveUpload(r) \/ CloseSession(r)
    BY <1>3 DEF ReadJob, InsertJob, Reload, SaveUpload, CloseSession, Move, Leave, Return, Give
  <1>4. CASE CheckoutJob(r) \/ RunJob(r) \/ Enqueue(r) \/ StatementRaises(r)
    BY <1>4 DEF CheckoutJob, RunJob, Enqueue, StatementRaises, Leave, Return
  <1>5. CASE ProbeDatabase(r)
    BY <1>5 DEF ProbeDatabase, Move, Give
  <1>6. CASE Ping(r)
    <2>1. PICK a \in Answer : answer' = [answer EXCEPT ![r] = a]
      BY <1>6 DEF Ping, Answer
    <2> QED
      BY <1>6, <2>1 DEF Ping, Move, Return
  <1>7. CASE CheckoutTimesOut(r) \/ OpenFails(r) \/ FirstStatementRaises(r)
    BY <1>7 DEF CheckoutTimesOut, OpenFails, FirstStatementRaises, Raise, ProbeFails, Move, Leave,
                Return
  <1> QED
    BY <1>1, <1>2, <1>3, <1>4, <1>5, <1>6, <1>7 DEF Proceed, Fail

-----------------------------------------------------------------------------
(* The step of a request keeps what the invariant says of it               *)

\* A step of a request keeps what the invariant says of that request.
LEMMA SoundStep ==
    ASSUME TypeOK, KindsAssumption, NEW r \in Requests, Sound(r), Proceed(r) \/ Fail(r)
    PROVE  Sound(r)'
  <1> USE DEF TypeOK, Sound, Inside
  <1>1. CASE StartFunction(r)
    BY <1>1 DEF StartFunction
  <1>2. CASE Checkout(r) \/ StopWaiting(r) \/ OpenAgain(r)
    BY <1>2 DEF Checkout, StopWaiting, OpenAgain, NeedsConnection
  <1>3. CASE FindTenant(r)
    BY <1>3 DEF FindTenant, Move, Leave, Return
  <1>4. CASE Teardown(r) \/ MissingKey(r)
    BY <1>4 DEF Teardown, MissingKey, Move, Leave, Return, Give
  <1>5. CASE ReadJob(r) \/ RefuseUpload(r)
    BY <1>5, KindsAssumption DEF ReadJob, RefuseUpload, Leave, Return, KindsAssumption
  <1>6. CASE InsertJob(r) \/ SaveUpload(r) \/ CloseSession(r)
    BY <1>6 DEF InsertJob, SaveUpload, CloseSession, Move, Give
  <1>7. CASE Reload(r)
    BY <1>7 DEF Reload, Move
  <1>8. CASE CheckoutJob(r) \/ RunJob(r)
    BY <1>8 DEF CheckoutJob, RunJob
  <1>9. CASE Enqueue(r)
    BY <1>9 DEF Enqueue, Leave, Return
  <1>10. CASE ProbeDatabase(r)
    BY <1>10 DEF ProbeDatabase, Move, Give
  <1>11. CASE Ping(r)
    <2>1. PICK a \in {"ok", "unhealthy"} : answer' = [answer EXCEPT ![r] = a]
      BY <1>11 DEF Ping
    <2> QED
      BY <1>11, <2>1 DEF Ping, Move, Return
  <1>12. CASE CheckoutTimesOut(r) \/ OpenFails(r)
    <2>1. pc[r] \in {"tenant", "probe", "inserted", "recorded", "enqueue"}
      BY <1>12 DEF CheckoutTimesOut, OpenFails, State, Share
    <2>2. CASE pc[r] = "probe"
      BY <1>12, <2>2 DEF CheckoutTimesOut, OpenFails, Raise, ProbeFails, Move, Share
    <2>3. CASE pc[r] # "probe"
      BY <1>12, <2>1, <2>3 DEF CheckoutTimesOut, OpenFails, Raise, Leave, Return, Share
    <2> QED
      BY <2>2, <2>3
  <1>13. CASE StatementRaises(r)
    BY <1>13 DEF StatementRaises, Leave, Return
  <1>14. CASE FirstStatementRaises(r)
    <2>1. pc[r] \in {"tenant", "probe", "inserted", "recorded"}
      BY <1>14 DEF FirstStatementRaises, State
    <2>2. CASE pc[r] = "probe"
      BY <1>14, <2>2 DEF FirstStatementRaises, Raise, ProbeFails, Move
    <2>3. CASE pc[r] # "probe"
      <3>1. r \notin Probes
        BY <2>1, <2>3
      <3> QED
        BY <1>14, <2>1, <2>3, <3>1 DEF FirstStatementRaises, Raise, Leave, Return
    <2> QED
      BY <2>2, <2>3
  <1> QED
    BY <1>1, <1>2, <1>3, <1>4, <1>5, <1>6, <1>7, <1>8, <1>9, <1>10, <1>11, <1>12, <1>13, <1>14
       DEF Proceed, Fail

\* The invariant is inductive.
LEMMA PoolStep ==
    ASSUME PoolInv, KindsAssumption, [Next]_vars
    PROVE  PoolInv'
  <1>1. TypeOK /\ \A q \in Requests : Sound(q)
    BY PoolInvIsSound
  <1>2. TypeOK'
    BY <1>1, PoolTypes
  <1>3. CASE UNCHANGED vars
    BY <1>3 DEF vars, PoolInv, TypeOK, ShareInv, ThreadInv, ProbeInv
  <1>4. ASSUME NEW r \in Requests, Proceed(r) \/ Fail(r)
        PROVE  PoolInv'
    <2>1. Others(r)
      BY <1>1, <1>4, OneRequestSteps
    <2>2. Sound(r)'
      BY <1>1, <1>4, SoundStep
    <2>3. ASSUME NEW q \in Requests \ {r}
          PROVE  Sound(q)'
      BY <1>1, <2>1, <2>3 DEF Others, Sound
    <2> QED
      BY <1>2, <2>2, <2>3 DEF PoolInv, ShareInv, ThreadInv, ProbeInv, Sound
  <1> QED
    BY <1>3, <1>4 DEF Next, AllOver

-----------------------------------------------------------------------------
(* The theorems                                                            *)

\* The inductive invariant: where a request is determines what it holds.
THEOREM PoolInvariance == Spec => []PoolInv
  <1>1. PoolInv /\ [Next]_vars => PoolInv'
    BY PoolStep, KindsAssumption
  <1> QED
    BY PoolInit, <1>1, PTL DEF Spec

\* Every state of the API process is well typed: a connection that is opened has failed
\* less often than _connect_with_retry tries.
THEOREM PoolTypeCorrect == Spec => []TypeOK
  <1>1. PoolInv => TypeOK
    BY DEF PoolInv
  <1> QED
    BY PoolInvariance, <1>1, PTL

\* A request that waits for a connection holds none (create_job closes its session
\* before it enqueues), for every number of requests, threads and connections.
THEOREM WaitersHoldNothing == Spec => []OneConnectionEach
  <1>1. PoolInv => OneConnectionEach
    BY DEF PoolInv, TypeOK, ShareInv, OneConnectionEach, State, Share
  <1> QED
    BY PoolInvariance, <1>1, PTL

\* A request gives back its thread and its connections on every path (get_db).
THEOREM NothingLeaks == Spec => []NothingHeldAfterwards
  <1>1. PoolInv => NothingHeldAfterwards
    BY DEF PoolInv, ShareInv, ThreadInv, NothingHeldAfterwards, Inside
  <1> QED
    BY PoolInvariance, <1>1, PTL

\* The health check always answers with a report (health).
THEOREM ProbesReport == Spec => []HealthReports
  <1>1. PoolInv => HealthReports
    BY DEF PoolInv, ProbeInv, HealthReports, Requests
  <1> QED
    BY PoolInvariance, <1>1, PTL
=============================================================================

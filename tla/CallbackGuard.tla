---------------------------- MODULE CallbackGuard ---------------------------
(***************************************************************************)
(* A tenant, its callback and its secret, while all three change under the *)
(* deliveries of its jobs: scripts/create_tenant.py, get_current_tenant    *)
(* (api/deps.py), resolve_safe_callback (api/security.py) and the part of  *)
(* deliver_webhook that loads the tenant, resolves, signs and sends.       *)
(*                                                                         *)
(* Outside src/, and modelled from how the code uses them: the name server *)
(* of the callback, the machines behind the addresses, the operator, who   *)
(* edits the row of the tenant, and the tenant, who verifies signatures    *)
(* with one secret and takes a new one over some time after a rotation.    *)
(* Secrets are numbered in the order of their rotation.                    *)
(***************************************************************************)
EXTENDS Naturals

CONSTANTS
    Jobs,
    Public, Blocked,   \* addresses outside and inside BLOCKED_NETS
    MaxRetries,        \* retries of Retry(...) in the enqueue of deliver_webhook
    MaxRotations       \* bound: rotations of the secret

Addresses == Public \cup Blocked
NoSecret  == MaxRotations + 1    \* tenant_secret_previous_encrypted is NULL
NoAddress == {}                  \* nothing pinned

ASSUME NetsAssumption   == Public \cap Blocked = {}
ASSUME BoundsAssumption == MaxRetries \in Nat /\ MaxRotations \in Nat

VARIABLES
    tenant,     \* "none", "stored" (the row is committed), "known" (printed too)
    active,     \* tenant.is_active
    allowed,    \* the callback domain is in allowed_callback_domains
    secret,     \* tenant_secret_encrypted
    previous,   \* tenant_secret_previous_encrypted
    verifier,   \* the secret the endpoint verifies with
    dns,        \* addresses the callback domain resolves to
    homes,      \* addresses whose machine has the certificate of the domain
    pc,         \* where the job or its execution of deliver_webhook is
    left,       \* RQ's retries_left
    grant,      \* what the execution loaded: allowed, secret, previous
    pin,        \* {the pinned address}, or NoAddress
    reached,    \* addresses whose machine received the payload of the job
    late,       \* requests received after the domain was removed
    refusals    \* requests refused for their signatures

rowVars    == <<tenant, active, allowed, secret, previous>>
worldVars  == <<verifier, dns, homes>>
runVars    == <<pc, left, grant, pin>>
outputVars == <<reached, late, refusals>>
vars       == <<rowVars, worldVars, runVars, outputVars>>

JobState == {"new", "refused", "queued", "loaded", "pinned", "delivered", "dead"}
Secret   == 0 .. MaxRotations
Grant    == [allowed : BOOLEAN, secret : Secret, previous : Secret \cup {NoSecret}]

TypeOK ==
    /\ tenant \in {"none", "stored", "known"}
    /\ active \in BOOLEAN /\ allowed \in BOOLEAN
    /\ secret \in Secret /\ previous \in Secret \cup {NoSecret} /\ verifier \in Secret
    /\ dns \in SUBSET Addresses /\ homes \in SUBSET Addresses
    /\ pc    \in [Jobs -> JobState]
    /\ left  \in [Jobs -> 0 .. MaxRetries]
    /\ grant \in [Jobs -> Grant]
    /\ pin   \in [Jobs -> SUBSET Addresses]
    /\ reached  \in [Jobs -> SUBSET Addresses]
    /\ late     \in [Jobs -> Nat]
    /\ refusals \in [Jobs -> Nat]

Init ==
    /\ tenant = "none" /\ active = TRUE /\ allowed = TRUE
    /\ secret = 0 /\ previous = NoSecret /\ verifier = 0
    /\ dns \in SUBSET Addresses /\ homes \in SUBSET Addresses
    /\ pc    = [j \in Jobs |-> "new"]
    /\ left  = [j \in Jobs |-> MaxRetries]
    /\ grant = [j \in Jobs |-> [allowed |-> FALSE, secret |-> 0, previous |-> NoSecret]]
    /\ pin   = [j \in Jobs |-> NoAddress]
    /\ reached  = [j \in Jobs |-> {}]
    /\ late     = [j \in Jobs |-> 0]
    /\ refusals = [j \in Jobs |-> 0]

-----------------------------------------------------------------------------
(* scripts/create_tenant.py                                                *)

\* db.add(tenant); db.commit()
StoreTenant ==
    /\ tenant = "none"
    /\ tenant' = "stored"
    /\ UNCHANGED <<active, allowed, secret, previous, worldVars, runVars, outputVars>>

\* db.refresh(tenant), then the key and the secret are printed, once.  When the
\* refresh raises nobody ever learns them: the tenant stays "stored".
PrintCredentials ==
    /\ tenant = "stored"
    /\ tenant' = "known"
    /\ UNCHANGED <<active, allowed, secret, previous, worldVars, runVars, outputVars>>

-----------------------------------------------------------------------------
(* resolve_safe_callback                                                   *)

\* It raises for a domain that is not registered, that has no address, or of
\* which any address is in a blocked net.
Resolves(registered) == registered /\ dns # {} /\ dns \cap Blocked = {}

\* get_current_tenant and create_job: 401 for a key that is unknown or inactive,
\* 400 for a callback that does not resolve.  (OCR, and the queueing of the
\* delivery after it, is the subject of OcrEngine.)
Submit(j) ==
    /\ pc[j] = "new" /\ tenant = "known"
    /\ pc' = [pc EXCEPT ![j] = IF active /\ Resolves(allowed) THEN "queued" ELSE "refused"]
    /\ UNCHANGED <<rowVars, worldVars, left, grant, pin, outputVars>>

-----------------------------------------------------------------------------
(* deliver_webhook                                                         *)

InFlight(j) == pc[j] \in {"loaded", "pinned"}

\* Mutant: a retry goes by the tenant that the first attempt read.
LoadTenantOnce(j) ==
    /\ pc[j] = "queued"
    /\ pc' = [pc EXCEPT ![j] = "loaded"]
    /\ grant' = IF left[j] < MaxRetries THEN grant
                ELSE [grant EXCEPT ![j] = [allowed |-> allowed, secret |-> secret,
                                           previous |-> previous]]
    /\ UNCHANGED <<rowVars, worldVars, left, pin, outputVars>>

\* One statement reads the row of the tenant; nothing in the attempt reads it again.
LoadTenant(j) ==
    /\ pc[j] = "queued"
    /\ pc' = [pc EXCEPT ![j] = "loaded"]
    /\ grant' = [grant EXCEPT ![j] = [allowed |-> allowed, secret |-> secret,
                                      previous |-> previous]]
    /\ UNCHANGED <<rowVars, worldVars, left, pin, outputVars>>

\* The first of the addresses found is pinned; the order is the name server's.
Resolve(j) ==
    /\ pc[j] = "loaded" /\ Resolves(grant[j].allowed)
    /\ pc' = [pc EXCEPT ![j] = "pinned"]
    /\ \E ip \in dns : pin' = [pin EXCEPT ![j] = {ip}]
    /\ UNCHANGED <<rowVars, worldVars, left, grant, outputVars>>

\* Mutant: there is always another retry.
RetryPastTheLast(j) ==
    /\ pc' = [pc EXCEPT ![j] = "queued"]
    /\ left' = [left EXCEPT ![j] = @ - 1]
    /\ pin' = [pin EXCEPT ![j] = NoAddress]

\* An exception leaves deliver_webhook: RQ queues it again, or it has failed.
Retry(j) ==
    /\ pc' = [pc EXCEPT ![j] = IF left[j] > 0 THEN "queued" ELSE "dead"]
    /\ left' = [left EXCEPT ![j] = IF @ > 0 THEN @ - 1 ELSE 0]
    /\ pin' = [pin EXCEPT ![j] = NoAddress]

\* The resolution, the decryption, the count of the attempt or the connection raises.
\* A machine that cannot prove the domain (assert_hostname) gets no request.
AttemptFails(j) ==
    /\ InFlight(j)
    /\ Retry(j)
    /\ UNCHANGED <<rowVars, worldVars, grant, outputVars>>

\* Mutant: the connection is opened by name, which resolves it once more.
TargetByName(j) == dns

\* _send connects to the address that was checked.
Target(j) == pin[j]

\* Mutant: only the current secret signs.
SignaturesOfToday(g) == {g.secret}

\* X-Signature, and X-Signature-Previous while a previous secret is stored.
Signatures(g) == {g.secret, g.previous}

Verified(j) == verifier \in Signatures(grant[j])

\* _send: a machine with the certificate of the domain receives the request.  It
\* refuses the signatures, or takes the payload; its answer may still be an
\* error or get lost, and so may the commit of webhook_delivered_at.
Send(j) ==
    /\ pc[j] = "pinned"
    /\ \E ip \in Target(j) \cap homes : reached' = [reached EXCEPT ![j] = @ \cup {ip}]
    /\ late' = IF allowed THEN late ELSE [late EXCEPT ![j] = @ + 1]
    /\ refusals' = IF Verified(j) THEN refusals ELSE [refusals EXCEPT ![j] = @ + 1]
    /\ \/ Retry(j)
       \/ /\ Verified(j)
          /\ pc' = [pc EXCEPT ![j] = "delivered"]
          /\ UNCHANGED <<left, pin>>
    /\ UNCHANGED <<rowVars, worldVars, grant>>

-----------------------------------------------------------------------------
(* The operator, the tenant and the world                                  *)

\* A domain is removed from allowed_callback_domains (and not added again).
RemoveDomain ==
    /\ allowed /\ allowed' = FALSE
    /\ UNCHANGED <<tenant, active, secret, previous, worldVars, runVars, outputVars>>

Deactivate ==
    /\ active /\ active' = FALSE
    /\ UNCHANGED <<tenant, allowed, secret, previous, worldVars, runVars, outputVars>>

\* Two secrets at a time: the next rotation waits until the last one is over.
Rotate ==
    /\ previous = NoSecret /\ secret < MaxRotations
    /\ previous' = secret /\ secret' = secret + 1
    /\ UNCHANGED <<tenant, active, allowed, worldVars, runVars, outputVars>>

\* The transition ends when the endpoint has the new secret.
EndTransition ==
    /\ previous # NoSecret /\ verifier = secret
    /\ previous' = NoSecret
    /\ UNCHANGED <<tenant, active, allowed, secret, worldVars, runVars, outputVars>>

TakeNewSecret ==
    /\ verifier' = secret
    /\ UNCHANGED <<rowVars, dns, homes, runVars, outputVars>>

\* The domain moves, its machines do, or the name server fails.
WorldMoves ==
    /\ dns' \in SUBSET Addresses /\ homes' \in SUBSET Addresses
    /\ UNCHANGED <<rowVars, verifier, runVars, outputVars>>

-----------------------------------------------------------------------------

JobStep(j) ==
    Submit(j) \/ LoadTenant(j) \/ Resolve(j) \/ AttemptFails(j) \/ Send(j)

Next ==
    \/ StoreTenant \/ PrintCredentials
    \/ \E j \in Jobs : JobStep(j)
    \/ RemoveDomain \/ Deactivate \/ Rotate \/ EndTransition
    \/ TakeNewSecret \/ WorldMoves

Spec == Init /\ [][Next]_vars

-----------------------------------------------------------------------------
(* Properties                                                              *)

\* However the domain moves between the submission, the check and the connection,
\* the payload is never handed to an address in a blocked net, not even to one
\* that could prove the domain: what is connected to is what was checked.
PayloadStaysOutside == \A j \in Jobs : reached[j] \cap Blocked = {}

\* Taking a domain off the list stops the deliveries to it, of jobs accepted before
\* as well: at most the attempt that had read the tenant already still arrives.
RemovedDomainGoesQuiet == \A j \in Jobs : late[j] <= 1

\* A rotation costs a job at most the attempt that overlaps it: while the endpoint
\* verifies with the old secret the second signature is good for it, and
\* afterwards the first one is.
RotationCostsOneAttempt == \A j \in Jobs : refusals[j] <= secret
=============================================================================

----------------------------- MODULE RequestPool ----------------------------
(***************************************************************************)
(* The API process under load: requests, the threads that run them and the *)
(* connections their sessions check out (api/deps.py, routers/jobs.py,     *)
(* routers/health.py, db/base.py).                                         *)
(*                                                                         *)
(* Three libraries outside src/ are modelled from how the code uses them:  *)
(*   - FastAPI runs every `def` dependency and every `def` endpoint in a   *)
(*     thread of a bounded pool, and closes the session of get_db after    *)
(*     the endpoint on a thread of another pool;                           *)
(*   - a session checks a connection out at its first statement and gives  *)
(*     it back at commit, rollback or close;                               *)
(*   - the pool of create_engine lets a checkout wait while Capacity       *)
(*     connections are out, and makes it raise after a time-out.           *)
(***************************************************************************)
EXTENDS Naturals, FiniteSets

CONSTANTS
    Creates, Polls, Probes,  \* requests for create_job, get_job and health
    Threads,                 \* threads for dependencies and endpoints
    Capacity,                \* pool_size + max_overflow
    Inline                   \* creates whose queue runs the job in the enqueue
                             \* (is_async=False, as the tests configure it)

Requests == Creates \cup Polls \cup Probes

ASSUME KindsAssumption ==
    Creates \cap Polls = {} /\ Creates \cap Probes = {} /\ Polls \cap Probes = {}
ASSUME SizesAssumption == Threads \in Nat \ {0} /\ Capacity \in Nat \ {0}
ASSUME InlineAssumption == Inline \subseteq Creates

VARIABLES
    pc,       \* where the request is
    threads,  \* requests that run in a thread
    conn,     \* what the session of the request has of the pool
    job,      \* the same for the session that an inline job opens
    tries,    \* connection attempts of the checkout in progress
    answer    \* what the request answers

vars == <<pc, threads, conn, job, tries, answer>>

State == {"arrived", "tenant", "known", "serving", "inserted", "saving", "recorded",
          "reloaded", "enqueue", "teardown", "probe", "ping", "over"}
Share  == {"none", "waiting", "opening", "held"}
Answer == {"none", "ok", "refused", "error", "unhealthy"}
Tries  == 3     \* range(3) in _connect_with_retry

TypeOK ==
    /\ pc      \in [Requests -> State]
    /\ threads \in SUBSET Requests
    /\ conn    \in [Requests -> Share]
    /\ job     \in [Requests -> Share]
    /\ tries   \in [Requests -> 0 .. Tries - 1]
    /\ answer  \in [Requests -> Answer]

Init ==
    /\ pc      = [r \in Requests |-> "arrived"]
    /\ threads = {}
    /\ conn    = [r \in Requests |-> "none"]
    /\ job     = [r \in Requests |-> "none"]
    /\ tries   = [r \in Requests |-> 0]
    /\ answer  = [r \in Requests |-> "none"]

-----------------------------------------------------------------------------
(* Threads and the pool                                                    *)

Move(r, from, to) == pc[r] = from /\ pc' = [pc EXCEPT ![r] = to]
Return(r) == threads' = threads \ {r}
Give(r)   == conn' = [conn EXCEPT ![r] = "none"]

\* A connection is taken from the moment the pool lets it be opened.
TakenBy(share) == {r \in Requests : share[r] \in {"opening", "held"}}
Room == Cardinality(TakenBy(conn)) + Cardinality(TakenBy(job)) < Capacity

\* The statements that need a connection the session does not have: the query
\* of the tenant or of the probe, db.refresh(job), the reload of job.id.
NeedsConnection(r) ==
    pc[r] \in {"tenant", "probe", "inserted", "recorded"} /\ conn[r] = "none"

Checkout(r) ==
    /\ NeedsConnection(r)
    /\ conn' = [conn EXCEPT ![r] = IF Room THEN "opening" ELSE "waiting"]
    /\ UNCHANGED <<pc, threads, job, tries, answer>>

StopWaiting(r) ==
    /\ conn[r] = "waiting" /\ Room
    /\ conn' = [conn EXCEPT ![r] = "opening"]
    /\ UNCHANGED <<pc, threads, job, tries, answer>>

\* Mutant: one attempt too many is counted.
OpenOnceMore(r) ==
    /\ "opening" \in {conn[r], job[r]} /\ tries[r] < Tries
    /\ tries' = [tries EXCEPT ![r] = @ + 1]
    /\ UNCHANGED <<pc, threads, conn, job, answer>>

\* An attempt of _connect_with_retry (or the pre-ping of a pooled connection)
\* fails and another one is left.
OpenAgain(r) ==
    /\ "opening" \in {conn[r], job[r]} /\ tries[r] < Tries - 1
    /\ tries' = [tries EXCEPT ![r] = @ + 1]
    /\ UNCHANGED <<pc, threads, conn, job, answer>>

-----------------------------------------------------------------------------
(* get_db, get_current_tenant                                              *)

StartFunction(r) ==
    /\ pc[r] \in {"arrived", "known"}
    /\ Cardinality(threads) < Threads
    /\ threads' = threads \cup {r}
    /\ pc' = [pc EXCEPT ![r] = IF @ = "known" THEN "serving"
                               ELSE IF r \in Probes THEN "probe" ELSE "tenant"]
    /\ UNCHANGED <<conn, job, tries, answer>>

\* An exception leaves the dependency or the endpoint: FastAPI goes on to the
\* exit of get_db, which alone gives a connection back.
Leave(r, a) ==
    /\ pc' = [pc EXCEPT ![r] = "teardown"]
    /\ answer' = [answer EXCEPT ![r] = a]
    /\ Return(r)

\* 401 without X-API-Key: no statement was run.
MissingKey(r) ==
    /\ pc[r] = "tenant" /\ conn[r] = "none"
    /\ Leave(r, "refused")
    /\ UNCHANGED <<conn, job, tries>>

\* The query of the tenant finds it, or does not.  Its transaction stays open, and
\* with it the connection, while the request waits for a thread for its endpoint.
FindTenant(r) ==
    /\ pc[r] = "tenant" /\ conn[r] = "opening"
    /\ conn' = [conn EXCEPT ![r] = "held"]
    /\ tries' = [tries EXCEPT ![r] = 0]
    /\ \/ Move(r, "tenant", "known") /\ Return(r) /\ UNCHANGED answer
       \/ Leave(r, "refused")
    /\ UNCHANGED job

\* Mutant: the generator closes the session after the yield only when no exception came.
TeardownOnSuccess(r) ==
    /\ Move(r, "teardown", "over")
    /\ IF answer[r] = "error" THEN UNCHANGED conn ELSE Give(r)
    /\ UNCHANGED <<threads, job, tries, answer>>

\* get_db: finally: db.close()
Teardown(r) ==
    /\ Move(r, "teardown", "over")
    /\ Give(r)
    /\ UNCHANGED <<threads, job, tries, answer>>

-----------------------------------------------------------------------------
(* create_job and get_job                                                  *)

\* get_job: the row of this tenant, or 404.
ReadJob(r) ==
    /\ r \in Polls /\ pc[r] = "serving"
    /\ \E a \in {"ok", "refused"} : Leave(r, a)
    /\ UNCHANGED <<conn, job, tries>>

\* The callback or the size is refused, while the connection of the tenant's
\* query is held.
RefuseUpload(r) ==
    /\ r \in Creates /\ pc[r] = "serving"
    /\ Leave(r, "refused")
    /\ UNCHANGED <<conn, job, tries>>

\* db.add(job); db.commit()
InsertJob(r) ==
    /\ r \in Creates
    /\ Move(r, "serving", "inserted")
    /\ Give(r)
    /\ UNCHANGED <<threads, job, tries, answer>>

\* db.refresh(job), and after the second commit the reload of job.id: both keep
\* the connection they check out.
Reload(r) ==
    /\ conn[r] = "opening"
    /\ Move(r, "inserted", "saving") \/ Move(r, "recorded", "reloaded")
    /\ conn' = [conn EXCEPT ![r] = "held"]
    /\ tries' = [tries EXCEPT ![r] = 0]
    /\ UNCHANGED <<threads, job, answer>>

\* save_upload; db.commit()
SaveUpload(r) ==
    /\ Move(r, "saving", "recorded")
    /\ Give(r)
    /\ UNCHANGED <<threads, job, tries, answer>>

\* Mutant: no db.close() before the enqueue.
CloseLater(r) ==
    /\ Move(r, "reloaded", "enqueue")
    /\ UNCHANGED <<threads, conn, job, tries, answer>>

\* db.close()
CloseSession(r) ==
    /\ Move(r, "reloaded", "enqueue")
    /\ Give(r)
    /\ UNCHANGED <<threads, job, tries, answer>>

\* An inline job opens a session of its own in the thread of the request.
CheckoutJob(r) ==
    /\ r \in Inline /\ pc[r] = "enqueue" /\ job[r] \in {"none", "waiting"}
    /\ job[r] = "waiting" => Room
    /\ job' = [job EXCEPT ![r] = IF Room THEN "opening" ELSE "waiting"]
    /\ UNCHANGED <<pc, threads, conn, tries, answer>>

RunJob(r) ==
    /\ job[r] = "opening"
    /\ job' = [job EXCEPT ![r] = "held"]
    /\ tries' = [tries EXCEPT ![r] = 0]
    /\ UNCHANGED <<pc, threads, conn, answer>>

\* enqueue returns: the job is in the queue, or has run and closed its session.
Enqueue(r) ==
    /\ pc[r] = "enqueue" /\ job[r] = (IF r \in Inline THEN "held" ELSE "none")
    /\ Leave(r, "ok")
    /\ job' = [job EXCEPT ![r] = "none"]
    /\ UNCHANGED <<conn, tries>>

-----------------------------------------------------------------------------
(* health                                                                  *)

\* SELECT 1, and db.close() in the finally clause.
ProbeDatabase(r) ==
    /\ conn[r] = "opening"
    /\ Move(r, "probe", "ping")
    /\ Give(r)
    /\ tries' = [tries EXCEPT ![r] = 0]
    /\ UNCHANGED <<threads, job, answer>>

\* `except Exception: pass` around the probe.
ProbeFails(r) ==
    /\ Move(r, "probe", "ping")
    /\ answer' = [answer EXCEPT ![r] = "unhealthy"]
    /\ UNCHANGED threads

\* redis.ping() answers or raises; 200 only if both probes did.
Ping(r) ==
    /\ Move(r, "ping", "over")
    /\ Return(r)
    /\ answer' \in {[answer EXCEPT ![r] = a] : a \in IF answer[r] = "none" THEN {"ok", "unhealthy"}
                                                      ELSE {"unhealthy"}}
    /\ UNCHANGED <<conn, job, tries>>

-----------------------------------------------------------------------------
(* Exceptions                                                              *)

\* Mutant: health expects an error of the database, not one of the pool.
ProbeRaises(r) == Leave(r, "error")

\* What an exception at a statement does to the request.
Raise(r) == IF pc[r] = "probe" THEN ProbeFails(r) ELSE Leave(r, "error")

\* Mutant: a checkout waits for ever.
NeverTimesOut(r) == FALSE /\ r \in Requests /\ UNCHANGED vars

\* The wait for a connection ends with the time-out of the pool.
CheckoutTimesOut(r) ==
    /\ "waiting" \in {conn[r], job[r]}
    /\ Raise(r)
    /\ conn' = [conn EXCEPT ![r] = IF @ = "waiting" THEN "none" ELSE @]
    /\ job' = [job EXCEPT ![r] = "none"]
    /\ UNCHANGED tries

\* The last attempt fails: the pool takes the place back, the checkout raises.
OpenFails(r) ==
    /\ "opening" \in {conn[r], job[r]} /\ tries[r] = Tries - 1
    /\ Raise(r)
    /\ conn' = [conn EXCEPT ![r] = IF @ = "opening" THEN "none" ELSE @]
    /\ job' = [job EXCEPT ![r] = "none"]
    /\ tries' = [tries EXCEPT ![r] = 0]

\* The statement that checked a connection out raises: the session keeps it until it
\* is closed, which health does at once (finally: db.close()) and get_db in its exit.
FirstStatementRaises(r) ==
    /\ conn[r] = "opening"
    /\ Raise(r)
    /\ conn' = [conn EXCEPT ![r] = IF pc[r] = "probe" THEN "none" ELSE "held"]
    /\ tries' = [tries EXCEPT ![r] = 0]
    /\ UNCHANGED job

\* A later statement, save_upload or the enqueue raises; an inline job closes its
\* session in its own finally clause.
StatementRaises(r) ==
    /\ pc[r] \in {"serving", "saving", "reloaded", "enqueue"}
    /\ job[r] \in {"none", "held"}
    /\ Leave(r, "error")
    /\ job' = [job EXCEPT ![r] = "none"]
    /\ UNCHANGED <<conn, tries>>

-----------------------------------------------------------------------------

\* A step that the request can take by itself.
Proceed(r) ==
    \/ StartFunction(r) \/ Checkout(r) \/ StopWaiting(r)
    \/ FindTenant(r) \/ Teardown(r)
    \/ ReadJob(r) \/ InsertJob(r) \/ Reload(r) \/ SaveUpload(r) \/ CloseSession(r)
    \/ CheckoutJob(r) \/ RunJob(r) \/ Enqueue(r)
    \/ ProbeDatabase(r) \/ Ping(r)
    \/ CheckoutTimesOut(r) \/ OpenFails(r)

Fail(r) ==
    \/ MissingKey(r) \/ RefuseUpload(r) \/ OpenAgain(r)
    \/ FirstStatementRaises(r) \/ StatementRaises(r)

AllOver == (\A r \in Requests : pc[r] = "over") /\ UNCHANGED vars

Next == (\E r \in Requests : Proceed(r) \/ Fail(r)) \/ AllOver

Spec == Init /\ [][Next]_vars

\* The threads are scheduled, connect_timeout ends an attempt to connect, the time-out
\* of the pool ends a wait, and Redis answers.  No failure is fair.
FairSpec == Spec /\ \A r \in Requests : WF_vars(Proceed(r))

-----------------------------------------------------------------------------
(* Properties                                                              *)

\* A request that waits for a connection holds none: the others hold them all,
\* and it cannot be waiting for itself (the reason create_job gives for closing
\* its session before the enqueue: an inline job opens a second one in the
\* same thread).
OneConnectionEach ==
    \A r \in Requests :
        "waiting" \in {conn[r], job[r]} =>
            {conn[r], job[r]} \cap {"opening", "held"} = {}

\* Whatever a request met, refusals, time-outs and failed attempts to connect
\* included, it gives back what it took: its thread when its function ends, its
\* connections when it is over (get_db and the finally clauses).
NothingHeldAfterwards ==
    \A r \in Requests :
        /\ pc[r] \in {"arrived", "known", "teardown", "over"} => r \notin threads
        /\ pc[r] = "over" => conn[r] = "none" /\ job[r] = "none"

\* The health check answers, and never with an error of its own, when the pool
\* is exhausted, the database is away or Redis is (health, the two excepts).
HealthReports ==
    \A r \in Probes : pc[r] = "over" => answer[r] \in {"ok", "unhealthy"}

\* Every request ends.  Requests that have their tenant hold a connection while
\* they wait for a thread, and threads wait for a connection: with more requests
\* than threads and connections together they can all wait for one another, and
\* only the time-out of the pool dissolves that.
RequestsEnd == \A r \in Requests : <>(pc[r] = "over")
=============================================================================

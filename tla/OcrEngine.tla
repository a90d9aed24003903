------------------------------ MODULE OcrEngine -----------------------------
(***************************************************************************)
(* The running system: the API process, the workers on ocr-jobs and on     *)
(* webhook-delivery, Postgres, the document volume and Redis, composed as  *)
(* docker-compose.yml does.  Every step is a step of one process.  Faults  *)
(* selects which failures may happen, so that a run states exactly what    *)
(* its properties tolerate:                                                *)
(*   "api"       a call of create_job raises or the API process dies       *)
(*   "db"        a query of a worker raises, or a commit, applied or not   *)
(*   "kill"      a work horse is killed                                    *)
(*   "endpoint"  the callback is refused, unreachable, slow or answers an  *)
(*               error                                                     *)
(*   "redis"     Redis loses keys: a restart or an eviction                *)
(*   "storage"   the tmpfs is unmounted while no container uses it         *)
(***************************************************************************)
EXTENDS ApiServer, OcrWorker, WebhookWorker, FiniteSets

CONSTANT Faults

FaultKinds == {"api", "db", "kill", "endpoint", "redis", "storage"}

ASSUME FaultsAssumption == Faults \subseteq FaultKinds

vars == <<storeVars, queueVars, req, ocrVars, hookVars, endpointVars>>

TypeOK == StoreTypeOK /\ QueueTypeOK /\ ApiTypeOK /\ OcrTypeOK /\ HookTypeOK

Init == StoreInit /\ QueueInit /\ ApiInit /\ OcrInit /\ HookInit

-----------------------------------------------------------------------------
(* The processes                                                           *)

\* What a step of one process leaves alone in the others.
apiFrame  == UNCHANGED <<ocrVars, hookVars, endpointVars>>
ocrFrame  == UNCHANGED <<req, hookVars, endpointVars>>
hookFrame == UNCHANGED <<req, ocrVars>>
envFrame  == UNCHANGED <<req, ocrVars, hookVars, endpointVars>>

HandleRequest(j) == create_job(j) /\ apiFrame
RefuseRequest(j) == Reject(j) /\ apiFrame
WorkOcr(w)       == process_document(w) /\ ocrFrame
WorkHook(h)      == deliver_webhook(h) /\ hookFrame
Schedule(d)      == Promote(d) /\ UNCHANGED storeVars /\ envFrame

-----------------------------------------------------------------------------
(* The failures                                                            *)

FailRequest(j) == "api" \in Faults /\ AbortRequest(j) /\ apiFrame

FailOcr(w) ==
    /\ \/ "db"   \in Faults /\ DatabaseRaises(w)
       \/ "kill" \in Faults /\ KillOcr(w)
    /\ ocrFrame

FailEndpoint(h) ==
    /\ "endpoint" \in Faults
    /\ PrepareRaises(h) \/ SendFails(h)
    /\ hookFrame

FailHook(h) ==
    /\ \/ "db"   \in Faults /\ HookDatabaseRaises(h)
       \/ "kill" \in Faults /\ KillHook(h)
    /\ hookFrame

FailRedis ==
    /\ "redis" \in Faults
    /\ LoseKeys \/ LoseHead
    /\ UNCHANGED storeVars
    /\ envFrame

FailStorage ==
    /\ "storage" \in Faults
    /\ \A j \in Jobs : req[j] \notin Running
    /\ \A w \in OcrWorkers : ocrPc[w] = "idle"
    /\ LoseDocuments
    /\ UNCHANGED <<rowVars, queueVars>>
    /\ envFrame

\* Every job is answered and nothing is left to run: the system waits.
Rest ==
    /\ \A j \in Jobs : req[j] \in {"accepted", "rejected", "error"}
    /\ \A w \in OcrWorkers : ocrPc[w] = "idle"
    /\ \A h \in HookWorkers : hookPc[h] = "idle"
    /\ ocrQ = <<>> /\ hookQ = <<>> /\ sched = {}
    /\ UNCHANGED vars

Next ==
    \/ \E j \in Jobs : HandleRequest(j) \/ RefuseRequest(j) \/ FailRequest(j)
    \/ \E w \in OcrWorkers : WorkOcr(w) \/ FailOcr(w)
    \/ \E h \in HookWorkers : WorkHook(h) \/ FailEndpoint(h) \/ FailHook(h)
    \/ \E d \in sched : Schedule(d)
    \/ FailRedis
    \/ FailStorage
    \/ Rest

Spec == Init /\ [][Next]_vars

\* A process that can run does: the containers restart, the API thread and the
\* work horses are scheduled, and urllib3's time-outs end every call of _send.
\* No failure is fair, and no tenant has to submit a job.
Fairness ==
    /\ \A j \in Jobs : WF_vars(req[j] # "idle" /\ HandleRequest(j))
    /\ \A w \in OcrWorkers : WF_vars(WorkOcr(w))
    /\ \A h \in HookWorkers : WF_vars(WorkHook(h) \/ FailEndpoint(h))
    /\ \A d \in Delivery : WF_vars(d \in sched /\ Schedule(d))

FairSpec == Spec /\ Fairness

-----------------------------------------------------------------------------
(* Where a job can be waiting or running                                   *)

QueuedIn(j)     == {i \in DOMAIN ocrQ : ocrQ[i] = j}
ProcessedBy(j)  == {w \in OcrWorkers : ocrPc[w] # "idle" /\ ocrJob[w] = j}
DeliverableIn(j) == {i \in DOMAIN hookQ : hookQ[i].job = j}
ScheduledIn(j)  == {d \in sched : d.job = j}
DeliveredBy(j)  == {h \in HookWorkers : hookPc[h] # "idle" /\ hookJob[h] = j}

HasDocumentWork(j) == QueuedIn(j) # {} \/ ProcessedBy(j) # {}
HasDeliveryWork(j) ==
    DeliverableIn(j) # {} \/ ScheduledIn(j) # {} \/ DeliveredBy(j) # {}

-----------------------------------------------------------------------------
(* Properties                                                              *)

\* Cleaning up precedes the result: as soon as the final status of a job is
\* committed, by whichever worker and after whatever failures, its document is
\* off the volume and file_path is NULL (tasks.py, the finally clause).
FinalMeansCleaned ==
    \A j \in Jobs : status[j] \in Final => file[j] = "absent" /\ ~filePath[j]

\* While the volume lasts, a pipeline that starts finds the complete document
\* and its path: nothing else can have deleted it, and the request wrote both
\* before it enqueued the job (create_job, process_document).
PipelineFindsDocument ==
    \A w \in OcrWorkers :
        ocrPc[w] = "running" => file[ocrJob[w]] = "whole" /\ filePath[ocrJob[w]]

\* No job is processed or delivered by two executions at a time, over both
\* queues, the scheduled registry and all workers; the read-modify-write of
\* webhook_delivery_attempts and the shared job directory rely on it.
OneExecution ==
    \A j \in Jobs :
        Cardinality(QueuedIn(j)) + Cardinality(ProcessedBy(j))
          + Cardinality(DeliverableIn(j)) + Cardinality(ScheduledIn(j))
          + Cardinality(DeliveredBy(j)) <= 1

\* A tenant that listens and a tenant that polls learn the same: whatever the
\* endpoint received, in any attempt, is the final status the row still has
\* (JobStatusResponse is the payload of both).
WebhookAgreesWithPolling ==
    \A j \in Jobs : told[j] \subseteq Final \cap {status[j]}

\* The attempt is committed before the request is sent, so the counter is never
\* behind what the tenant saw, never above the first try and its retries, and a
\* delivery date implies a received request (deliver_webhook).
AttemptsAccountForSends ==
    \A j \in Jobs :
        /\ sends[j] <= attempts[j]
        /\ attempts[j] <= MaxRetries + 1
        /\ delivered[j] => sends[j] > 0

\* No job is lost in silence (design/api.md, section 9.4.2): an accepted job
\* has its result, or work is left for it, or the failed registry of ocr-jobs
\* shows it; and a job with a result is delivered, on its way, or shown by one
\* of the failed registries.
NoSilentLoss ==
    \A j \in Jobs :
        /\ req[j] = "accepted" =>
              status[j] \in Final \/ HasDocumentWork(j) \/ j \in ocrDead
        /\ status[j] \in Final =>
              \/ delivered[j] \/ HasDocumentWork(j) \/ HasDeliveryWork(j)
              \/ j \in ocrDead \cup hookDead

\* The engine implements the contract with the tenant.
Contract == INSTANCE JobContract WITH
    view     <- status,
    held     <- [j \in Jobs |-> file[j] # "absent"],
    notified <- told

ImplementsContract == Contract!Spec

\* file_path is "Null once the file is deleted - doubles as the audit signal
\* whether it was cleaned up" (db/models.py), and the operator's means to
\* reconcile: a job whose request is over and whose file_path is NULL has no
\* document on the volume.
NullPathMeansCleaned ==
    \A j \in Jobs :
        req[j] \notin Running /\ ~filePath[j] => file[j] = "absent"

\* Every accepted job gets its result, whatever the endpoints of the tenants
\* do: a slow or dead endpoint holds no worker of ocr-jobs (workers/queue.py).
AcceptedIsAnswered ==
    \A j \in Jobs : req[j] = "accepted" ~> status[j] \in Final

\* A result is delivered, or every retry was used and RQ shows the failure.
ResultIsSettled ==
    \A j \in Jobs : status[j] \in Final ~> delivered[j] \/ j \in hookDead

\* No uploaded document stays on the volume.
DocumentIsDiscarded ==
    \A j \in Jobs : file[j] # "absent" ~> file[j] = "absent"

\* The failure of one execution stays with its job: every accepted job gets its
\* result or is shown by the failed registry, although workers keep being
\* killed and commits keep failing on other jobs.
AcceptedIsAnsweredOrShown ==
    \A j \in Jobs : req[j] = "accepted" ~> status[j] \in Final \/ j \in ocrDead
=============================================================================

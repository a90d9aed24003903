------------------------------ MODULE OcrWorker -----------------------------
(***************************************************************************)
(* The worker on ocr-jobs (workers/tasks.py, process_document).  Each step *)
(* ends at a commit, at a file operation or at a call to Redis; the        *)
(* pipeline itself is one step with a nondeterministic outcome.            *)
(***************************************************************************)
EXTENDS RqQueues

CONSTANT OcrWorkers

VARIABLES
    ocrPc,       \* where the execution of the worker is
    ocrJob,      \* its job (meaningless when idle)
    ocrOutcome   \* job.status in the session, not committed yet

ocrVars == <<ocrPc, ocrJob, ocrOutcome>>

OcrState == {"idle", "taken", "running", "cleaning", "saving", "enqueue"}

OcrTypeOK ==
    /\ ocrPc      \in [OcrWorkers -> OcrState]
    /\ ocrJob     \in [OcrWorkers -> Jobs]
    /\ ocrOutcome \in [OcrWorkers -> Final]

OcrInit ==
    /\ ocrPc      = [w \in OcrWorkers |-> "idle"]
    /\ ocrJob     \in [OcrWorkers -> Jobs]
    /\ ocrOutcome = [w \in OcrWorkers |-> "failed"]

MoveOcr(w, from, to) ==
    /\ ocrPc[w] = from
    /\ ocrPc' = [ocrPc EXCEPT ![w] = to]

\* RQ takes the next document and starts process_document.
TakeDocument(w) ==
    /\ MoveOcr(w, "idle", "taken")
    /\ take_document
    /\ ocrJob' = [ocrJob EXCEPT ![w] = Head(ocrQ)]
    /\ UNCHANGED <<ocrOutcome, storeVars, hookQVars>>

\* job = db.get(...); job.status = processing; db.commit().  A document without
\* a row is dropped; no test of the status the row had.
StartDocument(w) ==
    LET j == ocrJob[w] IN
    /\ IF status[j] = NoRow
         THEN MoveOcr(w, "taken", "idle") /\ UNCHANGED rowVars
         ELSE MoveOcr(w, "taken", "running") /\ set_processing(j)
    /\ UNCHANGED <<ocrJob, ocrOutcome, file, queueVars>>

\* Mutant: an exception of the pipeline is not caught.
RunPipelineUncaught(w) ==
    LET j == ocrJob[w] IN
    /\ \/ MoveOcr(w, "running", "cleaning") /\ filePath[j] /\ file[j] # "absent"
       \/ MoveOcr(w, "running", "idle")
    /\ ocrOutcome' = [ocrOutcome EXCEPT ![w] = "completed"]
    /\ UNCHANGED <<ocrJob, storeVars, queueVars>>

\* Mutant: the exception handler does not set the status.
RunPipelineForgetsStatus(w) ==
    /\ MoveOcr(w, "running", "cleaning")
    /\ \E outcome \in {"completed", "processing"} :
         /\ outcome = "completed" => filePath[ocrJob[w]] /\ file[ocrJob[w]] # "absent"
         /\ ocrOutcome' = [ocrOutcome EXCEPT ![w] = outcome]
    /\ UNCHANGED <<ocrJob, storeVars, queueVars>>

\* Mutant: the exception handler announces the failure by itself.
RunPipelineAnnounces(w) ==
    /\ MoveOcr(w, "running", "cleaning")
    /\ ocrOutcome' = [ocrOutcome EXCEPT ![w] = "failed"]
    /\ enqueue_delivery(ocrJob[w])
    /\ UNCHANGED <<ocrJob, storeVars, ocrQVars>>

\* run_pipeline, or any exception of it (a time-out of the execution included).
\* The extractor opens the document, so it cannot succeed without it.
RunPipeline(w) ==
    LET j == ocrJob[w] IN
    /\ MoveOcr(w, "running", "cleaning")
    /\ \E outcome \in Final :
         /\ outcome = "completed" => filePath[j] /\ file[j] # "absent"
         /\ ocrOutcome' = [ocrOutcome EXCEPT ![w] = outcome]
    /\ UNCHANGED <<ocrJob, storeVars, queueVars>>

\* Mutant: only a successful job is cleaned up.
DeleteFilesOnSuccess(w) ==
    /\ MoveOcr(w, "cleaning", "saving")
    /\ IF ocrOutcome[w] = "completed" THEN delete_job_files(ocrJob[w])
                                      ELSE UNCHANGED file
    /\ UNCHANGED <<ocrJob, ocrOutcome, rowVars, queueVars>>

\* finally: delete_job_files(...)
DeleteFiles(w) ==
    /\ MoveOcr(w, "cleaning", "saving")
    /\ delete_job_files(ocrJob[w])
    /\ UNCHANGED <<ocrJob, ocrOutcome, rowVars, queueVars>>

\* finally: job.file_path = None; db.commit(); then db.close()
CommitResult(w) ==
    /\ MoveOcr(w, "saving", "enqueue")
    /\ set_result(ocrJob[w], ocrOutcome[w])
    /\ UNCHANGED <<ocrJob, ocrOutcome, file, queueVars>>

\* Mutant: a failed job is not announced.
EnqueueDeliveryOnSuccess(w) ==
    /\ MoveOcr(w, "enqueue", "idle")
    /\ IF ocrOutcome[w] = "completed" THEN enqueue_delivery(ocrJob[w])
                                      ELSE UNCHANGED hookQVars
    /\ UNCHANGED <<ocrJob, ocrOutcome, storeVars, ocrQVars>>

\* get_queue("webhook-delivery").enqueue(..., retry=Retry(...))
EnqueueDelivery(w) ==
    /\ MoveOcr(w, "enqueue", "idle")
    /\ enqueue_delivery(ocrJob[w])
    /\ UNCHANGED <<ocrJob, ocrOutcome, storeVars, ocrQVars>>

\* Mutant: an error of the last commit is swallowed and the delivery enqueued.
CommitIgnored(w) ==
    /\ MoveOcr(w, "saving", "enqueue")
    /\ set_result(ocrJob[w], ocrOutcome[w]) \/ UNCHANGED rowVars
    /\ UNCHANGED <<ocrJob, ocrOutcome, file, queueVars>>

\* Mutant: an error of a commit is swallowed and the execution returns.
CommitErrorHidden(w) ==
    /\ ocrPc[w] \in {"taken", "saving"}
    /\ ocrPc' = [ocrPc EXCEPT ![w] = "idle"]
    /\ UNCHANGED <<ocrJob, ocrOutcome, storeVars, queueVars>>

\* The first commit raises, applied or not; it is outside the inner try, so the
\* execution fails in RQ's sense and nothing else of it runs.
StartRaises(w) ==
    LET j == ocrJob[w] IN
    /\ MoveOcr(w, "taken", "idle")
    /\ status[j] # NoRow
    /\ set_processing(j) \/ UNCHANGED rowVars
    /\ fail_document(j)
    /\ UNCHANGED <<ocrJob, ocrOutcome, file, hookQVars>>

\* The commit has expired the attributes of the row, and `job.id` loads them
\* again.  When that fails the exception is caught, but the session cannot be
\* used, so `job.id` in the finally clause raises again before anything is
\* deleted.
ReloadRaises(w) ==
    /\ MoveOcr(w, "running", "idle")
    /\ fail_document(ocrJob[w])
    /\ UNCHANGED <<ocrJob, ocrOutcome, storeVars, hookQVars>>

\* The last commit raises, applied or not.
ResultRaises(w) ==
    LET j == ocrJob[w] IN
    /\ MoveOcr(w, "saving", "idle")
    /\ set_result(j, ocrOutcome[w]) \/ UNCHANGED rowVars
    /\ fail_document(j)
    /\ UNCHANGED <<ocrJob, ocrOutcome, file, hookQVars>>

DatabaseRaises(w) == StartRaises(w) \/ ReloadRaises(w) \/ ResultRaises(w)

\* The work horse is killed (out of memory, a redeploy), or RQ's time-out ends it
\* outside the inner try: between two steps, or while it talks to Redis, when the
\* delivery may have been enqueued.
KillOcr(w) ==
    /\ ocrPc[w] # "idle"
    /\ ocrPc' = [ocrPc EXCEPT ![w] = "idle"]
    /\ fail_document(ocrJob[w])
    /\ \/ ocrPc[w] = "enqueue" /\ enqueue_delivery(ocrJob[w])
       \/ UNCHANGED hookQVars
    /\ UNCHANGED <<ocrJob, ocrOutcome, storeVars>>

process_document(w) ==
    \/ TakeDocument(w)
    \/ StartDocument(w)
    \/ RunPipeline(w)
    \/ DeleteFiles(w)
    \/ CommitResult(w)
    \/ EnqueueDelivery(w)
=============================================================================

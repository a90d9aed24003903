------------------------------ MODULE ApiServer -----------------------------
(***************************************************************************)
(* POST /api/v1/jobs (api/routers/jobs.py, create_job).  A job id is       *)
(* created by one request, so the request that may create job j is named   *)
(* by j.  The handler runs in a thread of the API process, interleaved     *)
(* with every other request and with the workers; it commits twice, writes *)
(* a file between the two commits and enqueues last, and nothing undoes    *)
(* an earlier step when a later one fails.                                 *)
(* GET /api/v1/jobs/{id} reads one committed row and changes nothing: what *)
(* a tenant polls is `status` itself.                                      *)
(***************************************************************************)
EXTENDS RqQueues

VARIABLE req    \* where the request that creates the job is

ReqState == {"idle", "inserted", "saved", "recorded",      \* running
             "accepted", "rejected", "error"}              \* answered

Running  == {"inserted", "saved", "recorded"}

ApiTypeOK == req \in [Jobs -> ReqState]
ApiInit   == req = [j \in Jobs |-> "idle"]

MoveReq(j, from, to) ==
    /\ req[j] = from
    /\ req' = [req EXCEPT ![j] = to]

\* 401, 400 or 413: a wrong key, an unsafe callback_url or a file that is too
\* large is refused before anything is written.
Reject(j) ==
    /\ MoveReq(j, "idle", "rejected")
    /\ UNCHANGED <<storeVars, queueVars>>

\* db.add(job); db.commit()
InsertJob(j) ==
    /\ MoveReq(j, "idle", "inserted")
    /\ insert_job(j)
    /\ UNCHANGED <<file, queueVars>>

\* save_upload(job.id, file, ...)
SaveUpload(j) ==
    /\ MoveReq(j, "inserted", "saved")
    /\ save_upload(j)
    /\ UNCHANGED <<rowVars, queueVars>>

\* job.file_path = ...; db.commit(); db.close()
RecordPath(j) ==
    /\ MoveReq(j, "saved", "recorded")
    /\ set_file_path(j)
    /\ UNCHANGED <<file, queueVars>>

\* Mutant: the job is enqueued before file_path is recorded.
EnqueueBeforeRecord(j) ==
    /\ MoveReq(j, "saved", "accepted")
    /\ enqueue_document(j)
    /\ UNCHANGED <<storeVars, hookQVars>>

\* get_queue("ocr-jobs").enqueue(...); return 202
EnqueueDocument(j) ==
    /\ MoveReq(j, "recorded", "accepted")
    /\ enqueue_document(j)
    /\ UNCHANGED <<storeVars, hookQVars>>

\* A call of the handler raises, or the API process dies, and the client gets
\* a 500 or no answer.  Whether the call took effect before is open: a commit
\* or an enqueue may have reached the server, a write may have been partial.
\* (A first commit that had no effect leaves what Reject leaves.)
InsertAborts(j) ==
    /\ MoveReq(j, "idle", "error")
    /\ insert_job(j)
    /\ UNCHANGED <<file, queueVars>>

SaveAborts(j) ==
    /\ MoveReq(j, "inserted", "error")
    /\ save_upload_stops(j)
    /\ UNCHANGED <<rowVars, queueVars>>

RecordAborts(j) ==
    /\ MoveReq(j, "saved", "error")
    /\ set_file_path(j) \/ UNCHANGED rowVars
    /\ UNCHANGED <<file, queueVars>>

EnqueueAborts(j) ==
    /\ MoveReq(j, "recorded", "error")
    /\ enqueue_document(j) \/ UNCHANGED ocrQVars
    /\ UNCHANGED <<storeVars, hookQVars>>

AbortRequest(j) ==
    \/ InsertAborts(j)
    \/ SaveAborts(j)
    \/ RecordAborts(j)
    \/ EnqueueAborts(j)

create_job(j) ==
    \/ InsertJob(j)
    \/ SaveUpload(j)
    \/ RecordPath(j)
    \/ EnqueueDocument(j)
=============================================================================

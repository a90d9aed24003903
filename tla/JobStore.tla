------------------------------ MODULE JobStore ------------------------------
(***************************************************************************)
(* What survives a process of the OCR engine: the `jobs` table of Postgres *)
(* (db/models.py) and the tmpfs volume with the uploaded documents         *)
(* (storage/files.py).  One variable per column that the control flow      *)
(* reads or writes; every operator below is one committed statement or one *)
(* file operation, used by the modules of the processes that perform it.   *)
(***************************************************************************)
EXTENDS Naturals

CONSTANT Jobs            \* the job ids of the instance

VARIABLES
    status,      \* jobs.status, NoRow before the INSERT
    filePath,    \* jobs.file_path IS NOT NULL
    attempts,    \* jobs.webhook_delivery_attempts
    delivered,   \* jobs.webhook_delivered_at IS NOT NULL
    file         \* content of STORAGE_DIR/<job id>/

rowVars   == <<status, filePath, attempts, delivered>>
storeVars == <<status, filePath, attempts, delivered, file>>

NoRow     == "none"
JobStatus == {"queued", "processing", "completed", "failed"}
Final     == {"completed", "failed"}

\* An upload that is interrupted leaves a directory with a prefix of the file.
FileState == {"absent", "partial", "whole"}

StoreTypeOK ==
    /\ status    \in [Jobs -> JobStatus \cup {NoRow}]
    /\ filePath  \in [Jobs -> BOOLEAN]
    /\ attempts  \in [Jobs -> Nat]
    /\ delivered \in [Jobs -> BOOLEAN]
    /\ file      \in [Jobs -> FileState]

StoreInit ==
    /\ status    = [j \in Jobs |-> NoRow]
    /\ filePath  = [j \in Jobs |-> FALSE]
    /\ attempts  = [j \in Jobs |-> 0]
    /\ delivered = [j \in Jobs |-> FALSE]
    /\ file      = [j \in Jobs |-> "absent"]

-----------------------------------------------------------------------------
(* The jobs table                                                          *)

\* INSERT of a new job; the other columns take their server defaults.
insert_job(j) ==
    /\ status' = [status EXCEPT ![j] = "queued"]
    /\ UNCHANGED <<filePath, attempts, delivered>>

set_file_path(j) ==
    /\ filePath' = [filePath EXCEPT ![j] = TRUE]
    /\ UNCHANGED <<status, attempts, delivered>>

set_processing(j) ==
    /\ status' = [status EXCEPT ![j] = "processing"]
    /\ UNCHANGED <<filePath, attempts, delivered>>

\* The result and the NULL file_path are one transaction.
set_result(j, outcome) ==
    /\ status'   = [status EXCEPT ![j] = outcome]
    /\ filePath' = [filePath EXCEPT ![j] = FALSE]
    /\ UNCHANGED <<attempts, delivered>>

\* `job.webhook_delivery_attempts += 1` on an object loaded earlier: the value
\* written is the one read then, plus one.
set_attempts(j, seen) ==
    /\ attempts' = [attempts EXCEPT ![j] = seen + 1]
    /\ UNCHANGED <<status, filePath, delivered>>

set_delivered(j) ==
    /\ delivered' = [delivered EXCEPT ![j] = TRUE]
    /\ UNCHANGED <<status, filePath, attempts>>

-----------------------------------------------------------------------------
(* The document volume                                                     *)

save_upload(j)       == file' = [file EXCEPT ![j] = "whole"]
save_upload_stops(j) == \E left \in FileState : file' = [file EXCEPT ![j] = left]

\* rmtree(ignore_errors=True): a missing directory is not an error.
delete_job_files(j)  == file' = [file EXCEPT ![j] = "absent"]

\* The tmpfs is unmounted, and its content gone, once no container holds it.
LoseDocuments == file' = [j \in Jobs |-> "absent"]
=============================================================================

---------------------------- MODULE RecoveryProofs --------------------------
(***************************************************************************)
(* Theorems about OcrEngine that need one of the services to keep what it  *)
(* was given: while the volume lasts every pipeline finds its document,    *)
(* and while Redis keeps its keys no job is lost in silence.  Every other  *)
(* failure may happen, at any time and any number of times.                *)
(***************************************************************************)
EXTENDS OcrEngineDelivery, OcrEngineProofs

-----------------------------------------------------------------------------
(* The document of a job                                                   *)

\* The request writes the document and its path before it enqueues the job, and
\* touches the document of no other job.
LEMMA RequestKeepsDocument ==
    ASSUME IInv, DocumentInv, NEW j \in Jobs, apiFrame,
           create_job(j) \/ Reject(j) \/ AbortRequest(j)
    PROVE  DocumentInv'
  <1>0. /\ req \in [Jobs -> ReqState] /\ file \in [Jobs -> FileState]
        /\ filePath \in [Jobs -> BOOLEAN] /\ ocrQ \in Seq(Jobs)
        /\ ocrJob \in [OcrWorkers -> Jobs]
        /\ \A i \in 1 .. Len(ocrQ) : ocrQ[i] \in Jobs
    BY DEF IInv, TypeOK, StoreTypeOK, QueueTypeOK, ApiTypeOK, OcrTypeOK
  <1>1. UNCHANGED <<ocrPc, ocrJob>>
    BY DEF apiFrame, ocrVars
  \* A job whose request runs is neither queued nor processed.
  <1>2. req[j] \in Running \cup {"idle"} =>
          /\ \A i \in 1 .. Len(ocrQ) : ocrQ[i] # j
          /\ \A w \in OcrWorkers : ocrPc[w] \in {"taken", "running"} => ocrJob[w] # j
    BY DEF IInv, OcrQueueInv, OcrWorkerInv, Over, Running
  <1>3. ASSUME req[j] \in Running \cup {"idle"}, UNCHANGED ocrQ,
               NEW to \in ReqState, req' = [req EXCEPT ![j] = to],
               \A i \in Jobs : i # j => file'[i] = file[i] /\ filePath'[i] = filePath[i],
               to \in {"saved", "recorded"} => file'[j] = "whole",
               to = "recorded" => filePath'[j]
        PROVE  DocumentInv'
    BY <1>0, <1>1, <1>2, <1>3 DEF DocumentInv
  <1>4. ASSUME req[j] = "recorded", NEW to \in Over, req' = [req EXCEPT ![j] = to],
               ocrQ' = Append(ocrQ, j), UNCHANGED <<file, filePath>>
        PROVE  DocumentInv'
    <2>1. \A i \in 1 .. Len(ocrQ') : file[ocrQ'[i]] = "whole" /\ filePath[ocrQ'[i]]
      BY <1>0, <1>4, AppendFacts DEF DocumentInv
    <2>2. \A i \in Jobs : req'[i] \in {"saved", "recorded"} => req'[i] = req[i]
      BY <1>0, <1>4 DEF Over
    <2> QED
      BY <1>1, <1>4, <2>1, <2>2 DEF DocumentInv
  <1> USE <1>0 DEF MoveReq, Running, Over, ReqState, FileState, rowVars, storeVars, queueVars,
                   ocrQVars, insert_job, set_file_path, save_upload, save_upload_stops,
                   enqueue_document
  <1>5. CASE Reject(j)
    BY <1>3, <1>5 DEF Reject
  <1>6. CASE InsertJob(j) \/ InsertAborts(j)
    BY <1>3, <1>6 DEF InsertJob, InsertAborts
  <1>7. CASE SaveUpload(j) \/ SaveAborts(j)
    BY <1>3, <1>7 DEF SaveUpload, SaveAborts
  <1>8. CASE RecordPath(j) \/ RecordAborts(j)
    BY <1>3, <1>8 DEF RecordPath, RecordAborts, DocumentInv
  <1>9. CASE EnqueueDocument(j) \/ EnqueueAborts(j)
    BY <1>3, <1>4, <1>9 DEF EnqueueDocument, EnqueueAborts
  <1> QED
    BY <1>5, <1>6, <1>7, <1>8, <1>9 DEF create_job, AbortRequest

\* An execution deletes the document of its own job only, after its pipeline.
LEMMA ExecutionKeepsDocument ==
    ASSUME IInv, DocumentInv, NEW w \in OcrWorkers, ocrFrame,
           process_document(w) \/ DatabaseRaises(w) \/ KillOcr(w)
    PROVE  DocumentInv'
  <1>0. /\ file \in [Jobs -> FileState] /\ filePath \in [Jobs -> BOOLEAN]
        /\ ocrQ \in Seq(Jobs) /\ ocrPc \in [OcrWorkers -> OcrState]
        /\ ocrJob \in [OcrWorkers -> Jobs] /\ UNCHANGED req
    BY DEF ocrFrame, IInv, TypeOK, StoreTypeOK, QueueTypeOK, OcrTypeOK
  \* No one else holds the job of a busy execution.
  <1>1. ocrPc[w] # "idle" =>
          /\ req[ocrJob[w]] \notin {"saved", "recorded"}
          /\ \A i \in 1 .. Len(ocrQ) : ocrQ[i] # ocrJob[w]
          /\ \A v \in OcrWorkers : v # w /\ ocrPc[v] # "idle" => ocrJob[v] # ocrJob[w]
    BY DEF IInv, OcrWorkerInv, Over
  <1>2. ASSUME ocrPc[w] # "idle", UNCHANGED <<ocrQ, ocrJob>>,
               NEW to \in OcrState, ocrPc' = [ocrPc EXCEPT ![w] = to],
               \A i \in Jobs : i # ocrJob[w] => file'[i] = file[i] /\ filePath'[i] = filePath[i],
               to \in {"taken", "running"} =>
                 ocrPc[w] \in {"taken", "running"} /\ UNCHANGED <<file, filePath>>
        PROVE  DocumentInv'
    <2>1. \A j \in Jobs : req[j] \in {"saved", "recorded"} =>
            file'[j] = file[j] /\ filePath'[j] = filePath[j]
      BY <1>1, <1>2
    <2>2. \A i \in 1 .. Len(ocrQ) : file'[ocrQ[i]] = file[ocrQ[i]]
                                     /\ filePath'[ocrQ[i]] = filePath[ocrQ[i]]
      BY <1>0, <1>1, <1>2
    <2>3. ASSUME NEW v \in OcrWorkers, ocrPc'[v] \in {"taken", "running"}
          PROVE  file'[ocrJob[v]] = "whole" /\ filePath'[ocrJob[v]]
      <3>1. CASE v = w
        BY <1>0, <1>2, <2>3, <3>1 DEF DocumentInv
      <3>2. CASE v # w
        BY <1>0, <1>1, <1>2, <2>3, <3>2 DEF DocumentInv
      <3> QED
        BY <3>1, <3>2
    <2> QED
      BY <1>0, <1>2, <2>1, <2>2, <2>3 DEF DocumentInv
  <1> USE <1>0 DEF MoveOcr, OcrState, rowVars, storeVars, queueVars, ocrQVars, hookQVars,
                   set_processing, set_result, delete_job_files
  <1>3. CASE TakeDocument(w)
    <2>1. /\ ocrQ # <<>> /\ ocrQ' = Tail(ocrQ) /\ UNCHANGED <<file, filePath>>
          /\ ocrPc' = [ocrPc EXCEPT ![w] = "taken"] /\ ocrJob' = [ocrJob EXCEPT ![w] = Head(ocrQ)]
      BY <1>3 DEF TakeDocument, take_document
    <2>2. /\ Head(ocrQ) = ocrQ[1] /\ 1 \in 1 .. Len(ocrQ)
          /\ \A i \in 1 .. Len(ocrQ') : i + 1 \in 1 .. Len(ocrQ) /\ ocrQ'[i] = ocrQ[i + 1]
      BY <2>1, TailFacts
    <2>3. \A i \in 1 .. Len(ocrQ') : file[ocrQ'[i]] = "whole" /\ filePath[ocrQ'[i]]
      <3> SUFFICES ASSUME NEW i \in 1 .. Len(ocrQ')
                   PROVE  file[ocrQ'[i]] = "whole" /\ filePath[ocrQ'[i]]
        OBVIOUS
      <3>1. i + 1 \in 1 .. Len(ocrQ) /\ ocrQ'[i] = ocrQ[i + 1]
        BY <2>2
      <3>2. file[ocrQ[i + 1]] = "whole" /\ filePath[ocrQ[i + 1]]
        BY <3>1 DEF DocumentInv
      <3> QED
        BY <3>1, <3>2
    <2>4. \A v \in OcrWorkers : ocrPc'[v] \in {"taken", "running"} =>
            file[ocrJob'[v]] = "whole" /\ filePath[ocrJob'[v]]
      BY <2>1, <2>2 DEF DocumentInv
    <2> QED
      BY <2>1, <2>3, <2>4 DEF DocumentInv
  <1>4. CASE StartDocument(w)
    BY <1>2, <1>4 DEF StartDocument
  <1>5. CASE RunPipeline(w)
    BY <1>2, <1>5 DEF RunPipeline
  <1>6. CASE DeleteFiles(w)
    BY <1>2, <1>6 DEF DeleteFiles
  <1>7. CASE CommitResult(w)
    BY <1>2, <1>7 DEF CommitResult
  <1>8. CASE EnqueueDelivery(w)
    BY <1>2, <1>8 DEF EnqueueDelivery
  <1>9. CASE StartRaises(w)
    BY <1>2, <1>9 DEF StartRaises, fail_document
  <1>10. CASE ReloadRaises(w)
    BY <1>2, <1>10 DEF ReloadRaises, fail_document
  <1>11. CASE ResultRaises(w)
    BY <1>2, <1>11 DEF ResultRaises, fail_document
  <1>12. CASE KillOcr(w)
    BY <1>2, <1>12 DEF KillOcr, fail_document
  <1> QED
    BY <1>3, <1>4, <1>5, <1>6, <1>7, <1>8, <1>9, <1>10, <1>11, <1>12
    DEF process_document, DatabaseRaises

\* Next to IInv, DocumentInv is inductive as long as the tmpfs stays mounted.
LEMMA DocumentStep ==
    ASSUME "storage" \notin Faults, IInv, DocumentInv, [Next]_vars
    PROVE  DocumentInv'
  <1>1. ASSUME NEW j \in Jobs, HandleRequest(j) \/ RefuseRequest(j) \/ FailRequest(j)
        PROVE  DocumentInv'
    BY <1>1, RequestKeepsDocument DEF HandleRequest, RefuseRequest, FailRequest
  <1>2. ASSUME NEW w \in OcrWorkers, WorkOcr(w) \/ FailOcr(w) PROVE DocumentInv'
    BY <1>2, ExecutionKeepsDocument DEF WorkOcr, FailOcr
  <1>3. ASSUME UNCHANGED <<file, filePath, req, ocrPc, ocrJob>>,
               ocrQ' = ocrQ \/ ocrQ' = <<>> \/ (ocrQ # <<>> /\ ocrQ' = Tail(ocrQ))
        PROVE  DocumentInv'
    <2>1. \A i \in 1 .. Len(ocrQ') : \E k \in 1 .. Len(ocrQ) : ocrQ'[i] = ocrQ[k]
      <3>1. ocrQ \in Seq(Jobs)
        BY DEF IInv, TypeOK, QueueTypeOK
      <3>2. CASE ocrQ' = ocrQ
        BY <3>2
      <3>3. CASE ocrQ' = <<>>
        BY <3>3
      <3>4. CASE ocrQ # <<>> /\ ocrQ' = Tail(ocrQ)
        BY <3>1, <3>4, TailFacts
      <3> QED
        BY <1>3, <3>2, <3>3, <3>4
    <2> QED
      BY <1>3, <2>1 DEF DocumentInv
  <1>4. ASSUME NEW h \in HookWorkers, WorkHook(h) \/ FailEndpoint(h) \/ FailHook(h)
        PROVE  DocumentInv'
    <2>1. UNCHANGED <<file, filePath, req, ocrQ, ocrPc, ocrJob>>
      BY <1>4, HookFrame DEF WorkHook, FailEndpoint, FailHook
    <2> QED
      BY <1>3, <2>1
  <1>5. CASE FailRedis
    BY <1>3, <1>5
    DEF FailRedis, LoseKeys, LoseHead, take_document, envFrame, storeVars, ocrVars, ocrQVars
  <1>6. ASSUME NEW d \in sched, Schedule(d) PROVE DocumentInv'
    BY <1>3, <1>6 DEF Schedule, Promote, envFrame, storeVars, ocrVars, ocrQVars
  <1>7. CASE UNCHANGED vars
    BY <1>3, <1>7 DEF vars, storeVars, queueVars, ocrVars
  <1> QED
    BY <1>1, <1>2, <1>4, <1>5, <1>6, <1>7 DEF Next, Rest, FailStorage

\* While the volume lasts, a pipeline that starts finds the complete document and
\* its path, whatever else fails (create_job, process_document).
THEOREM DocumentIsThere ==
    ASSUME "storage" \notin Faults
    PROVE  Spec => []PipelineFindsDocument
  <1>1. Init => DocumentInv
    BY DEF Init, StoreInit, QueueInit, ApiInit, OcrInit, DocumentInv
  <1>2. IInv /\ DocumentInv /\ [Next]_vars => DocumentInv'
    BY DocumentStep
  <1>3. DocumentInv => PipelineFindsDocument
    BY DEF DocumentInv, PipelineFindsDocument
  <1> QED
    BY <1>1, <1>2, <1>3, Invariance, PTL DEF Spec

-----------------------------------------------------------------------------
(* The work left for a job                                                 *)

\* HasDocumentWork and HasDeliveryWork, with their states as arguments.
DocumentIn(q, pc, job, j) ==
    \/ \E i \in 1 .. Len(q) : q[i] = j
    \/ \E w \in OcrWorkers : pc[w] # "idle" /\ job[w] = j

DeliveryIn(q, later, pc, job, j) ==
    \/ \E i \in 1 .. Len(q) : q[i].job = j
    \/ \E d \in later : d.job = j
    \/ \E h \in HookWorkers : pc[h] # "idle" /\ job[h] = j

DocumentNow(j) == DocumentIn(ocrQ, ocrPc, ocrJob, j)
DeliveryNow(j) == DeliveryIn(hookQ, sched, hookPc, hookJob, j)

\* NoSilentLoss in terms of the queues and workers.
Shown ==
    \A j \in Jobs :
        /\ req[j] = "accepted" => status[j] \in Final \/ DocumentNow(j) \/ j \in ocrDead
        /\ status[j] \in Final =>
             \/ delivered[j] \/ DocumentNow(j) \/ DeliveryNow(j)
             \/ j \in ocrDead \cup hookDead

\* The invariant in its two readings: by sets, and by positions in the queues.
LEMMA ShownIsNoLoss == TypeOK => (Shown <=> NoSilentLoss)
  <1> SUFFICES ASSUME TypeOK PROVE Shown <=> NoSilentLoss
    OBVIOUS
  <1>1. DOMAIN ocrQ = 1 .. Len(ocrQ) /\ DOMAIN hookQ = 1 .. Len(hookQ)
    BY DEF TypeOK, QueueTypeOK
  <1>2. ASSUME NEW j \in Jobs
        PROVE  (DocumentNow(j) <=> HasDocumentWork(j)) /\ (DeliveryNow(j) <=> HasDeliveryWork(j))
    BY <1>1 DEF DocumentNow, DocumentIn, HasDocumentWork, QueuedIn, ProcessedBy,
                DeliveryNow, DeliveryIn, HasDeliveryWork, DeliverableIn, ScheduledIn, DeliveredBy
  <1> QED
    BY <1>2 DEF Shown, NoSilentLoss

\* What a step may do to the work of a job: pass it on, finish it or show it.
LEMMA PassedOn ==
    ASSUME Shown,
           NEW Doc, NEW Del,
           Doc = {j \in Jobs : DocumentIn(ocrQ', ocrPc', ocrJob', j)},
           Del = {j \in Jobs : DeliveryIn(hookQ', sched', hookPc', hookJob', j)},
           ocrDead \subseteq ocrDead', hookDead \subseteq hookDead',
           \A j \in Jobs : delivered[j] => delivered'[j],
           \A j \in Jobs : status[j] \in Final => status'[j] \in Final,
           \A j \in Jobs : status'[j] \in Final =>
              status[j] \in Final \/ j \in Doc \/ j \in ocrDead',
           \A j \in Jobs : req'[j] = "accepted" => req[j] = "accepted" \/ j \in Doc,
           \A j \in Jobs : DocumentNow(j) =>
              j \in Doc \/ j \in ocrDead' \/ (status'[j] \in Final /\ j \in Del),
           \A j \in Jobs : DeliveryNow(j) => j \in Del \/ j \in hookDead' \/ delivered'[j]
    PROVE  Shown'
  <1>1. \A j \in Jobs : /\ j \in Doc <=> DocumentIn(ocrQ', ocrPc', ocrJob', j)
                        /\ j \in Del <=> DeliveryIn(hookQ', sched', hookPc', hookJob', j)
    OBVIOUS
  <1> SUFFICES ASSUME NEW j \in Jobs
               PROVE  /\ req'[j] = "accepted" =>
                           status'[j] \in Final \/ j \in Doc \/ j \in ocrDead'
                      /\ status'[j] \in Final =>
                           delivered'[j] \/ j \in Doc \/ j \in Del \/ j \in ocrDead' \cup hookDead'
    BY <1>1 DEF Shown, DocumentNow, DeliveryNow
  <1> QED
    BY DEF Shown

\* A request is accepted when its job is queued, and not before.
LEMMA RequestShown ==
    ASSUME IInv, Shown, NEW j \in Jobs, apiFrame,
           create_job(j) \/ Reject(j) \/ AbortRequest(j)
    PROVE  Shown'
  <1> DEFINE Doc == {i \in Jobs : DocumentIn(ocrQ', ocrPc', ocrJob', i)}
             Del == {i \in Jobs : DeliveryIn(hookQ', sched', hookPc', hookJob', i)}
  <1>0. /\ req \in [Jobs -> ReqState] /\ ocrQ \in Seq(Jobs)
        /\ status \in [Jobs -> JobStatus \cup {NoRow}]
    BY DEF IInv, TypeOK, StoreTypeOK, QueueTypeOK, ApiTypeOK
  <1> USE DEF MoveReq, rowVars, storeVars, queueVars, ocrQVars, hookQVars, ocrVars, hookVars
  <1>1. UNCHANGED <<ocrPc, ocrJob, hookPc, hookJob, hookQ, sched, ocrDead, hookDead, delivered>>
    BY DEF apiFrame, create_job, Reject, AbortRequest, InsertJob, SaveUpload, RecordPath,
           EnqueueDocument, InsertAborts, SaveAborts, RecordAborts, EnqueueAborts,
           insert_job, set_file_path, enqueue_document
  <1>2. UNCHANGED ocrQ \/ ocrQ' = Append(ocrQ, j)
    BY DEF create_job, Reject, AbortRequest, InsertJob, SaveUpload, RecordPath,
           EnqueueDocument, InsertAborts, SaveAborts, RecordAborts, EnqueueAborts,
           enqueue_document
  <1>3. \A i \in Jobs : DocumentNow(i) => i \in Doc
    <2>1. \A i \in 1 .. Len(ocrQ) : i \in 1 .. Len(ocrQ') /\ ocrQ'[i] = ocrQ[i]
      BY <1>0, <1>2, AppendFacts
    <2> QED
      BY <1>1, <2>1 DEF DocumentNow, DocumentIn
  <1>4. \A i \in Jobs : DeliveryNow(i) => i \in Del
    BY <1>1 DEF DeliveryNow, DeliveryIn
  <1>5. \A i \in Jobs : req'[i] = "accepted" => req[i] = "accepted" \/ i \in Doc
    <2>1. CASE req' = [req EXCEPT ![j] = "accepted"] /\ ocrQ' = Append(ocrQ, j)
      <3>1. Len(ocrQ') \in 1 .. Len(ocrQ') /\ ocrQ'[Len(ocrQ')] = j
        BY <1>0, <2>1, AppendFacts
      <3>2. j \in Doc
        BY <3>1 DEF DocumentIn
      <3> QED
        BY <1>0, <2>1, <3>2
    <2>2. CASE \E to \in ReqState \ {"accepted"} : req' = [req EXCEPT ![j] = to]
      BY <1>0, <2>2
    <2> QED
      BY <2>1, <2>2
      DEF create_job, Reject, AbortRequest, InsertJob, SaveUpload, RecordPath,
          EnqueueDocument, InsertAborts, SaveAborts, RecordAborts, EnqueueAborts,
          enqueue_document, ReqState
  <1>6. \A i \in Jobs : status'[i] \in Final <=> status[i] \in Final
    <2>1. CASE UNCHANGED status
      BY <2>1
    <2>2. CASE req[j] = "idle" /\ status' = [status EXCEPT ![j] = "queued"]
      <3>1. status[j] = NoRow
        BY <2>2 DEF IInv, RequestInv
      <3> QED
        BY <1>0, <2>2, <3>1 DEF Final, NoRow
    <2> QED
      BY <2>1, <2>2
      DEF create_job, Reject, AbortRequest, InsertJob, SaveUpload, RecordPath,
          EnqueueDocument, InsertAborts, SaveAborts, RecordAborts, EnqueueAborts,
          insert_job, set_file_path
  <1> HIDE DEF Doc, Del
  <1> QED
    BY <1>1, <1>3, <1>4, <1>5, <1>6, PassedOn DEF Doc, Del

\* An execution of ocr-jobs keeps its job until it announces it, or RQ shows it.
LEMMA ExecutionShown ==
    ASSUME IInv, Shown, NEW w \in OcrWorkers, ocrFrame,
           process_document(w) \/ DatabaseRaises(w) \/ KillOcr(w)
    PROVE  Shown'
  <1> DEFINE Doc == {i \in Jobs : DocumentIn(ocrQ', ocrPc', ocrJob', i)}
             Del == {i \in Jobs : DeliveryIn(hookQ', sched', hookPc', hookJob', i)}
             j == ocrJob[w]
  <1>0. /\ ocrPc \in [OcrWorkers -> OcrState] /\ ocrJob \in [OcrWorkers -> Jobs]
        /\ status \in [Jobs -> JobStatus \cup {NoRow}] /\ ocrOutcome[w] \in Final
        /\ ocrQ \in Seq(Jobs) /\ hookQ \in Seq(Delivery) /\ j \in Jobs
    BY DEF IInv, TypeOK, StoreTypeOK, QueueTypeOK, OcrTypeOK
  <1>1. /\ ocrPc[w] = "taken" => status[j] = "queued"
        /\ ocrPc[w] = "saving" => status[j] = "processing"
        /\ ocrPc[w] = "enqueue" => status[j] \in Final
    BY DEF IInv, OcrWorkerInv
  <1> USE DEF MoveOcr, rowVars, storeVars, queueVars, ocrQVars, hookQVars, hookVars
  <1>2. UNCHANGED <<req, sched, hookPc, hookJob, hookDead, delivered>>
    BY DEF ocrFrame, process_document, DatabaseRaises, TakeDocument, StartDocument, RunPipeline,
           DeleteFiles, CommitResult, EnqueueDelivery, StartRaises, ReloadRaises, ResultRaises,
           KillOcr, set_processing, set_result, enqueue_delivery
  <1>3. hookQ' = hookQ \/ hookQ' = Append(hookQ, [job |-> j, left |-> MaxRetries])
    BY DEF process_document, DatabaseRaises, TakeDocument, StartDocument, RunPipeline,
           DeleteFiles, CommitResult, EnqueueDelivery, StartRaises, ReloadRaises, ResultRaises,
           KillOcr, enqueue_delivery
  <1>4. \A i \in Jobs : DeliveryNow(i) => i \in Del
    <2>1. [job |-> j, left |-> MaxRetries] \in Delivery
      BY <1>0, RetriesAssumption DEF Delivery
    <2>2. \A i \in 1 .. Len(hookQ) : i \in 1 .. Len(hookQ') /\ hookQ'[i] = hookQ[i]
      BY <1>0, <1>3, <2>1, AppendFacts
    <2> QED
      BY <1>2, <2>2 DEF DeliveryNow, DeliveryIn
  <1>5. /\ \A i \in Jobs : status[i] \in Final => status'[i] \in Final
        /\ \A i \in Jobs : status'[i] \in Final =>
             status[i] \in Final \/ (i = j /\ ocrPc[w] = "saving")
    <2>1. CASE UNCHANGED status
      BY <2>1
    <2>2. CASE ocrPc[w] = "taken" /\ status' = [status EXCEPT ![j] = "processing"]
      BY <1>0, <1>1, <2>2 DEF Final
    <2>3. CASE ocrPc[w] = "saving" /\ status' = [status EXCEPT ![j] = ocrOutcome[w]]
      BY <1>0, <1>1, <2>3
    <2> QED
      BY <2>1, <2>2, <2>3
      DEF process_document, DatabaseRaises, TakeDocument, StartDocument, RunPipeline,
          DeleteFiles, CommitResult, EnqueueDelivery, StartRaises, ReloadRaises, ResultRaises,
          KillOcr, set_processing, set_result
  \* The execution goes on.
  <1>6. ASSUME ocrPc[w] # "idle", NEW to \in OcrState \ {"idle"},
               ocrPc' = [ocrPc EXCEPT ![w] = to], UNCHANGED <<ocrQ, ocrJob, ocrDead>>
        PROVE  Shown'
    <2>1. \A i \in Jobs : DocumentNow(i) => i \in Doc
      BY <1>0, <1>6 DEF DocumentNow, DocumentIn
    <2>2. j \in Doc
      BY <1>0, <1>6 DEF DocumentIn
    <2> HIDE DEF Doc, Del
    <2> QED
      BY <1>2, <1>4, <1>5, <1>6, <2>1, <2>2, PassedOn DEF Doc, Del
  \* The execution ends: its job is in the failed registry, or announced.
  <1>7. ASSUME ocrPc[w] # "idle", ocrPc' = [ocrPc EXCEPT ![w] = "idle"],
               UNCHANGED <<ocrQ, ocrJob>>, ocrDead \subseteq ocrDead',
               \/ j \in ocrDead'
               \/ /\ ocrPc[w] = "enqueue"
                  /\ hookQ' = Append(hookQ, [job |-> j, left |-> MaxRetries])
        PROVE  Shown'
    <2>1. \A i \in Jobs : DocumentNow(i) => i \in Doc \/ i = j
      BY <1>0, <1>7 DEF DocumentNow, DocumentIn
    <2>2. j \in ocrDead' \/ (status'[j] \in Final /\ j \in Del)
      <3>1. CASE j \in ocrDead'
        BY <3>1
      <3>2. CASE /\ ocrPc[w] = "enqueue"
                 /\ hookQ' = Append(hookQ, [job |-> j, left |-> MaxRetries])
        <4>1. [job |-> j, left |-> MaxRetries] \in Delivery
          BY <1>0, RetriesAssumption DEF Delivery
        <4>2. Len(hookQ') \in 1 .. Len(hookQ') /\ hookQ'[Len(hookQ')].job = j
          BY <1>0, <3>2, <4>1, AppendFacts
        <4>3. j \in Del
          BY <1>0, <4>2 DEF DeliveryIn
        <4> QED
          BY <1>0, <1>1, <1>5, <3>2, <4>3
      <3> QED
        BY <1>7, <3>1, <3>2
    <2>3. ASSUME NEW i \in Jobs, status'[i] \in Final, status[i] \notin Final, i \notin Doc
          PROVE  i = j /\ j \in ocrDead'
      BY <1>5, <1>7, <2>3
    <2> HIDE DEF Doc, Del
    <2> QED
      BY <1>2, <1>4, <1>5, <1>7, <2>1, <2>2, <2>3, PassedOn DEF Doc, Del
  <1> HIDE DEF Doc, Del, j
  <1>8. CASE TakeDocument(w)
    <2>1. /\ ocrPc[w] = "idle" /\ ocrPc' = [ocrPc EXCEPT ![w] = "taken"]
          /\ ocrQ # <<>> /\ ocrQ' = Tail(ocrQ) /\ ocrJob' = [ocrJob EXCEPT ![w] = Head(ocrQ)]
          /\ UNCHANGED <<ocrDead, status>>
      BY <1>8 DEF TakeDocument, take_document, storeVars
    <2>2. /\ Head(ocrQ) = ocrQ[1] /\ Len(ocrQ) \in Nat /\ Len(ocrQ') = Len(ocrQ) - 1
          /\ \A i \in 1 .. Len(ocrQ') : ocrQ'[i] = ocrQ[i + 1]
      BY <1>0, <2>1, TailFacts
    <2>3. \A i \in Jobs : DocumentNow(i) => i \in Doc
      <3> SUFFICES ASSUME NEW i \in Jobs, DocumentNow(i)
                   PROVE  DocumentIn(ocrQ', ocrPc', ocrJob', i)
        BY DEF Doc
      <3>1. CASE \E k \in 1 .. Len(ocrQ) : ocrQ[k] = i
        <4>1. PICK k \in 1 .. Len(ocrQ) : ocrQ[k] = i
          BY <3>1
        <4>2. CASE k = 1
          BY <1>0, <2>1, <2>2, <4>1, <4>2 DEF DocumentIn
        <4>3. CASE k # 1
          <5>1. k - 1 \in 1 .. Len(ocrQ') /\ ocrQ'[k - 1] = i
            BY <2>2, <4>1, <4>3
          <5> QED
            BY <5>1 DEF DocumentIn
        <4> QED
          BY <4>2, <4>3
      <3>2. CASE \E v \in OcrWorkers : ocrPc[v] # "idle" /\ ocrJob[v] = i
        BY <1>0, <2>1, <3>2 DEF DocumentIn
      <3> QED
        BY <3>1, <3>2 DEF DocumentNow, DocumentIn
    <2> QED
      BY <1>2, <1>4, <2>1, <2>3, PassedOn DEF Doc, Del
  <1> USE DEF OcrState
  <1>9. CASE StartDocument(w)
    BY <1>1, <1>6, <1>9 DEF StartDocument, NoRow, j
  <1>10. CASE RunPipeline(w)
    BY <1>6, <1>10 DEF RunPipeline
  <1>11. CASE DeleteFiles(w)
    BY <1>6, <1>11 DEF DeleteFiles
  <1>12. CASE CommitResult(w)
    BY <1>6, <1>12 DEF CommitResult
  <1>13. CASE EnqueueDelivery(w)
    BY <1>7, <1>13 DEF EnqueueDelivery, enqueue_delivery, j
  <1>14. CASE StartRaises(w)
    BY <1>7, <1>14 DEF StartRaises, fail_document, j
  <1>15. CASE ReloadRaises(w)
    BY <1>7, <1>15 DEF ReloadRaises, fail_document, j
  <1>16. CASE ResultRaises(w)
    BY <1>7, <1>16 DEF ResultRaises, fail_document, j
  <1>17. CASE KillOcr(w)
    BY <1>7, <1>17 DEF KillOcr, fail_document, j
  <1> QED
    BY <1>8, <1>9, <1>10, <1>11, <1>12, <1>13, <1>14, <1>15, <1>16, <1>17
    DEF process_document, DatabaseRaises

\* An execution of webhook-delivery keeps its job until it is delivered, or RQ
\* schedules or shows it.
LEMMA DeliveryShown ==
    ASSUME IInv, Shown, NEW h \in HookWorkers, hookFrame,
           \/ deliver_webhook(h) \/ PrepareRaises(h) \/ SendFails(h)
           \/ HookDatabaseRaises(h) \/ KillHook(h)
    PROVE  Shown'
  <1> DEFINE Doc == {i \in Jobs : DocumentIn(ocrQ', ocrPc', ocrJob', i)}
             Del == {i \in Jobs : DeliveryIn(hookQ', sched', hookPc', hookJob', i)}
             j == hookJob[h]
  <1>0. /\ hookPc \in [HookWorkers -> HookState] /\ hookJob \in [HookWorkers -> Jobs]
        /\ hookLeft \in [HookWorkers -> 0 .. MaxRetries] /\ hookQ \in Seq(Delivery)
        /\ delivered \in [Jobs -> BOOLEAN] /\ j \in Jobs
    BY DEF IInv, TypeOK, StoreTypeOK, QueueTypeOK, HookTypeOK
  <1>1. UNCHANGED <<status, req, ocrQ, ocrPc, ocrJob>>
    BY HookFrame
  <1> USE DEF MoveHook, rowVars, storeVars, queueVars, ocrQVars, hookQVars, endpointVars
  <1>2. UNCHANGED ocrDead /\ hookDead \subseteq hookDead'
    BY DEF deliver_webhook, HookDatabaseRaises, TakeDelivery, PrepareDelivery, CountAttempt,
           Send, MarkDelivered, PrepareRaises, SendFails, CountRaises, MarkRaises, KillHook,
           take_delivery, retry_or_fail
  <1>3. \A i \in Jobs : delivered[i] => delivered'[i]
    <2>1. CASE UNCHANGED delivered
      BY <2>1
    <2>2. CASE delivered' = [delivered EXCEPT ![j] = TRUE]
      BY <1>0, <2>2
    <2> QED
      BY <2>1, <2>2
      DEF deliver_webhook, HookDatabaseRaises, TakeDelivery, PrepareDelivery, CountAttempt,
          Send, MarkDelivered, PrepareRaises, SendFails, CountRaises, MarkRaises, KillHook,
          set_attempts, set_delivered
  <1>4. \A i \in Jobs : DocumentNow(i) => i \in Doc
    BY <1>1 DEF DocumentNow, DocumentIn
  <1>5. (\A i \in Jobs : DeliveryNow(i) => i \in Del \/ i \in hookDead' \/ delivered'[i])
        => Shown'
    <2> HIDE DEF Doc, Del, j
    <2> QED
      BY <1>1, <1>2, <1>3, <1>4, PassedOn DEF Doc, Del
  \* The execution goes on.
  <1>6. ASSUME hookPc[h] # "idle", NEW to \in HookState \ {"idle"},
               hookPc' = [hookPc EXCEPT ![h] = to], UNCHANGED <<hookQ, sched, hookJob>>
        PROVE  Shown'
    <2>1. \A i \in Jobs : DeliveryNow(i) => i \in Del
      BY <1>0, <1>6 DEF DeliveryNow, DeliveryIn
    <2> QED
      BY <1>5, <2>1
  \* The execution ends: delivered, or handed to one of the registries.
  <1>7. ASSUME hookPc[h] # "idle", hookPc' = [hookPc EXCEPT ![h] = "idle"], UNCHANGED hookJob,
               retry_or_fail(Current(h)) \/ (UNCHANGED <<hookQ, sched>> /\ delivered'[j])
        PROVE  Shown'
    <2>1. hookQ' = hookQ /\ sched \subseteq sched'
      BY <1>7 DEF retry_or_fail
    <2>2. \A i \in Jobs : DeliveryNow(i) => i \in Del \/ i = j
      BY <1>0, <1>7, <2>1 DEF DeliveryNow, DeliveryIn
    <2>3. j \in Del \/ j \in hookDead' \/ delivered'[j]
      <3>1. CASE hookLeft[h] > 0 /\ retry_or_fail(Current(h))
        <4>1. [job |-> j, left |-> hookLeft[h] - 1] \in sched'
          BY <1>0, <3>1 DEF retry_or_fail, Current
        <4> QED
          BY <1>0, <4>1 DEF DeliveryIn
      <3>2. CASE hookLeft[h] = 0 /\ retry_or_fail(Current(h))
        BY <1>0, <3>2 DEF retry_or_fail, Current
      <3> QED
        BY <1>0, <1>7, <3>1, <3>2, RetriesAssumption
    <2> QED
      BY <1>5, <2>2, <2>3
  <1> HIDE DEF Doc, Del, j
  <1>8. CASE TakeDelivery(h)
    <2>1. /\ hookPc[h] = "idle" /\ hookPc' = [hookPc EXCEPT ![h] = "taken"]
          /\ hookQ # <<>> /\ hookQ' = Tail(hookQ) /\ UNCHANGED sched
          /\ hookJob' = [hookJob EXCEPT ![h] = Head(hookQ).job]
      BY <1>8 DEF TakeDelivery, take_delivery
    <2>2. /\ Head(hookQ) = hookQ[1] /\ Len(hookQ) \in Nat /\ Len(hookQ') = Len(hookQ) - 1
          /\ \A i \in 1 .. Len(hookQ') : hookQ'[i] = hookQ[i + 1]
      BY <1>0, <2>1, TailFacts
    <2>3. \A i \in Jobs : DeliveryNow(i) => i \in Del
      <3> SUFFICES ASSUME NEW i \in Jobs, DeliveryNow(i)
                   PROVE  DeliveryIn(hookQ', sched', hookPc', hookJob', i)
        BY DEF Del
      <3>1. CASE \E k \in 1 .. Len(hookQ) : hookQ[k].job = i
        <4>1. PICK k \in 1 .. Len(hookQ) : hookQ[k].job = i
          BY <3>1
        <4>2. CASE k = 1
          BY <1>0, <2>1, <2>2, <4>1, <4>2 DEF DeliveryIn
        <4>3. CASE k # 1
          <5>1. k - 1 \in 1 .. Len(hookQ') /\ hookQ'[k - 1].job = i
            BY <2>2, <4>1, <4>3
          <5> QED
            BY <5>1 DEF DeliveryIn
        <4> QED
          BY <4>2, <4>3
      <3>2. CASE \/ \E d \in sched : d.job = i
                 \/ \E g \in HookWorkers : hookPc[g] # "idle" /\ hookJob[g] = i
        BY <1>0, <2>1, <3>2 DEF DeliveryIn
      <3> QED
        BY <3>1, <3>2 DEF DeliveryNow, DeliveryIn
    <2> QED
      BY <1>5, <2>3
  <1> USE DEF HookState
  <1>9. CASE PrepareDelivery(h)
    <2>1. status[j] # NoRow
      BY <1>9 DEF PrepareDelivery, IInv, DeliveryInv, Final, NoRow, j
    <2> QED
      BY <1>6, <1>9, <2>1 DEF PrepareDelivery, j
  <1>10. CASE CountAttempt(h)
    BY <1>6, <1>10 DEF CountAttempt
  <1>11. CASE Send(h)
    BY <1>6, <1>11 DEF Send
  <1>12. CASE MarkDelivered(h)
    BY <1>0, <1>7, <1>12 DEF MarkDelivered, set_delivered, j
  <1>13. CASE PrepareRaises(h)
    BY <1>7, <1>13 DEF PrepareRaises
  <1>14. CASE SendFails(h)
    BY <1>7, <1>14 DEF SendFails
  <1>15. CASE CountRaises(h)
    BY <1>7, <1>15 DEF CountRaises
  <1>16. CASE MarkRaises(h)
    BY <1>7, <1>16 DEF MarkRaises
  <1>17. CASE KillHook(h)
    BY <1>7, <1>17 DEF KillHook
  <1> QED
    BY <1>8, <1>9, <1>10, <1>11, <1>12, <1>13, <1>14, <1>15, <1>16, <1>17
    DEF deliver_webhook, HookDatabaseRaises

\* The scheduler puts the delivery back into the queue.
LEMMA ScheduleShown ==
    ASSUME IInv, Shown, NEW d \in sched, Schedule(d)
    PROVE  Shown'
  <1> DEFINE Doc == {i \in Jobs : DocumentIn(ocrQ', ocrPc', ocrJob', i)}
             Del == {i \in Jobs : DeliveryIn(hookQ', sched', hookPc', hookJob', i)}
  <1>1. /\ UNCHANGED <<status, delivered, req, ocrQ, ocrDead, ocrPc, ocrJob>>
        /\ UNCHANGED <<hookDead, hookPc, hookJob>>
        /\ hookQ' = Append(hookQ, d) /\ sched' = sched \ {d}
    BY DEF Schedule, Promote, envFrame, storeVars, ocrQVars, ocrVars, hookVars
  <1>2. hookQ \in Seq(Delivery) /\ d \in Delivery
    BY DEF IInv, TypeOK, QueueTypeOK
  <1>3. /\ \A i \in 1 .. Len(hookQ) : i \in 1 .. Len(hookQ') /\ hookQ'[i] = hookQ[i]
        /\ Len(hookQ') \in 1 .. Len(hookQ') /\ hookQ'[Len(hookQ')] = d
    BY <1>1, <1>2, AppendFacts
  <1>4. \A i \in Jobs : DeliveryNow(i) => i \in Del
    BY <1>1, <1>3 DEF DeliveryNow, DeliveryIn
  <1>5. \A i \in Jobs : DocumentNow(i) => i \in Doc
    BY <1>1 DEF DocumentNow, DocumentIn
  <1> HIDE DEF Doc, Del
  <1> QED
    BY <1>1, <1>4, <1>5, PassedOn DEF Doc, Del

\* Next to IInv, Shown is inductive as long as Redis keeps what it was given.
LEMMA ShownStep ==
    ASSUME "redis" \notin Faults, IInv, Shown, [Next]_vars
    PROVE  Shown'
  <1>1. ASSUME NEW j \in Jobs, HandleRequest(j) \/ RefuseRequest(j) \/ FailRequest(j)
        PROVE  Shown'
    BY <1>1, RequestShown DEF HandleRequest, RefuseRequest, FailRequest
  <1>2. ASSUME NEW w \in OcrWorkers, WorkOcr(w) \/ FailOcr(w) PROVE Shown'
    BY <1>2, ExecutionShown DEF WorkOcr, FailOcr
  <1>3. ASSUME NEW h \in HookWorkers, WorkHook(h) \/ FailEndpoint(h) \/ FailHook(h)
        PROVE  Shown'
    BY <1>3, DeliveryShown DEF WorkHook, FailEndpoint, FailHook
  <1>4. ASSUME NEW d \in sched, Schedule(d) PROVE Shown'
    BY <1>4, ScheduleShown
  <1>5. ASSUME UNCHANGED <<status, delivered, req, queueVars, ocrPc, ocrJob, hookPc, hookJob>>
        PROVE  Shown'
    BY <1>5 DEF Shown, DocumentNow, DocumentIn, DeliveryNow, DeliveryIn, queueVars
  <1>6. CASE FailStorage
    BY <1>5, <1>6 DEF FailStorage, rowVars, envFrame, ocrVars, hookVars
  <1>7. CASE UNCHANGED vars
    BY <1>5, <1>7 DEF vars, storeVars, ocrVars, hookVars
  <1> QED
    BY <1>1, <1>2, <1>3, <1>4, <1>6, <1>7 DEF Next, Rest, FailRedis

\* While Redis keeps its keys every accepted job has its result, has work left or
\* is shown by a failed registry, and so is every result until it is delivered.
THEOREM NothingIsLostInSilence ==
    ASSUME "redis" \notin Faults
    PROVE  Spec => []NoSilentLoss
  <1>1. Init => Shown
    BY DEF Init, StoreInit, ApiInit, Shown, Final, NoRow
  <1>2. IInv /\ Shown /\ [Next]_vars => Shown'
    BY ShownStep
  <1>3. IInv /\ Shown => NoSilentLoss
    BY ShownIsNoLoss DEF IInv
  <1> QED
    BY <1>1, <1>2, <1>3, Invariance, PTL DEF Spec
=============================================================================

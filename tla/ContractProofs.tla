--------------------------- MODULE ContractProofs ---------------------------
(***************************************************************************)
(* The engine implements the contract with the tenant (JobContract), for   *)
(* every instance and every set of Faults: each step is a step of the      *)
(* contract or leaves what the tenant sees alone.                          *)
(***************************************************************************)
EXTENDS OcrEngineProofs

\* What the contract calls held.
Held == [j \in Jobs |-> file[j] # "absent"]

-----------------------------------------------------------------------------
(* Steps of the store as steps of the contract                             *)

\* A step that changes neither status, nor documents, nor what the endpoint received
\* is a stutter of the contract.
LEMMA HiddenStep ==
    ASSUME UNCHANGED <<status, file, told>>
    PROVE  UNCHANGED Contract!contractVars
  BY DEF Contract!contractVars

\* A change of one row to the next status is a step of the contract.
LEMMA StatusStep ==
    ASSUME NEW j \in Jobs, UNCHANGED <<file, told>>, status \in [Jobs -> JobStatus \cup {NoRow}],
           \/ status[j] = NoRow /\ status' = [status EXCEPT ![j] = "queued"]
           \/ status[j] = "queued" /\ status' = [status EXCEPT ![j] = "processing"]
           \/ /\ status[j] = "processing" /\ file[j] = "absent"
              /\ \E r \in Final : status' = [status EXCEPT ![j] = r]
    PROVE  Contract!Next
  <1>1. UNCHANGED <<Held, told>>
    BY DEF Held
  <1>2. CASE status[j] = NoRow /\ status' = [status EXCEPT ![j] = "queued"]
    <2>1. Contract!Register(j)
      BY <1>1, <1>2 DEF Contract!Register, Held, NoRow
    <2> QED
      BY <2>1 DEF Contract!Next
  <1>3. CASE status[j] = "queued" /\ status' = [status EXCEPT ![j] = "processing"]
    <2>1. Contract!Begin(j)
      BY <1>1, <1>3 DEF Contract!Begin, Held
    <2> QED
      BY <2>1 DEF Contract!Next
  <1>4. CASE /\ status[j] = "processing" /\ file[j] = "absent"
             /\ \E r \in Final : status' = [status EXCEPT ![j] = r]
    <2>1. Contract!Finish(j)
      BY <1>1, <1>4 DEF Contract!Finish, Contract!Results, Held, Final
    <2> QED
      BY <2>1 DEF Contract!Next
  <1> QED
    BY <1>2, <1>3, <1>4

\* Writing or deleting the document of one job is a step of the contract.
LEMMA FileStep ==
    ASSUME NEW j \in Jobs, NEW f \in FileState, UNCHANGED <<status, told>>,
           file \in [Jobs -> FileState], file' = [file EXCEPT ![j] = f],
           f # "absent" => status[j] = "queued"
    PROVE  Contract!Next
  <1>1. CASE f # "absent"
    <2>1. Held' = [Held EXCEPT ![j] = TRUE]
      BY <1>1 DEF Held
    <2>2. Contract!Hold(j)
      BY <1>1, <2>1 DEF Contract!Hold, Held
    <2> QED
      BY <2>2 DEF Contract!Next
  <1>2. CASE f = "absent"
    <2>1. Held' = [k \in Jobs |-> Held[k] /\ k \notin {j}]
      BY <1>2 DEF Held
    <2>2. Contract!Discard({j})
      BY <2>1 DEF Contract!Discard, Held
    <2> QED
      BY <2>2 DEF Contract!Next
  <1> QED
    BY <1>1, <1>2

\* A notification that carries the final status is a step of the contract.
LEMMA ReceiveStep ==
    ASSUME NEW h \in HookWorkers, Receive(h), UNCHANGED <<status, file>>,
           hookJob[h] \in Jobs, status[hookJob[h]] \in Final,
           hookBody[h] = status[hookJob[h]]
    PROVE  Contract!Next
  <1>1. Contract!Notify(hookJob[h])
    BY DEF Receive, Contract!Notify, Contract!Results, Final
  <1> QED
    BY <1>1 DEF Contract!Next

-----------------------------------------------------------------------------
(* Steps of the engine as steps of the contract                            *)

\* A request registers its job and stores its document: steps of the contract.
LEMMA ApiContract ==
    ASSUME IInv, NEW j \in Jobs, apiFrame,
           create_job(j) \/ Reject(j) \/ AbortRequest(j)
    PROVE  Contract!Next \/ UNCHANGED Contract!contractVars
  <1>1. /\ status \in [Jobs -> JobStatus \cup {NoRow}]
        /\ file \in [Jobs -> FileState]
        /\ req[j] = "idle" => status[j] = NoRow
        /\ req[j] = "inserted" => status[j] = "queued"
    BY DEF IInv, TypeOK, StoreTypeOK, RequestInv, Running
  <1>2. told' = told
    BY DEF apiFrame, endpointVars
  <1>3. CASE InsertJob(j) \/ InsertAborts(j)
    <2>1. /\ file' = file /\ req[j] = "idle"
          /\ status' = [status EXCEPT ![j] = "queued"]
      BY <1>3 DEF InsertJob, InsertAborts, insert_job, MoveReq
    <2> QED
      BY <1>1, <1>2, <2>1, StatusStep
  <1>4. CASE SaveUpload(j) \/ SaveAborts(j)
    <2>1. PICK f \in FileState : file' = [file EXCEPT ![j] = f]
      BY <1>4 DEF SaveUpload, SaveAborts, save_upload, save_upload_stops, FileState
    <2>2. status' = status /\ req[j] = "inserted"
      BY <1>4 DEF SaveUpload, SaveAborts, MoveReq, rowVars
    <2> QED
      BY <1>1, <1>2, <2>1, <2>2, FileStep
  <1>5. CASE RecordPath(j) \/ RecordAborts(j)
    <2>1. UNCHANGED <<status, file>>
      BY <1>5 DEF RecordPath, RecordAborts, set_file_path, rowVars
    <2> QED
      BY <1>2, <2>1, HiddenStep
  <1>6. CASE EnqueueDocument(j) \/ EnqueueAborts(j) \/ Reject(j)
    <2>1. UNCHANGED <<status, file>>
      BY <1>6 DEF EnqueueDocument, EnqueueAborts, Reject, storeVars
    <2> QED
      BY <1>2, <2>1, HiddenStep
  <1> QED
    BY <1>3, <1>4, <1>5, <1>6 DEF create_job, AbortRequest

\* An execution begins its job, discards the document and then shows the result.
LEMMA OcrContract ==
    ASSUME IInv, NEW w \in OcrWorkers, ocrFrame,
           process_document(w) \/ DatabaseRaises(w) \/ KillOcr(w)
    PROVE  Contract!Next \/ UNCHANGED Contract!contractVars
  <1> DEFINE j == ocrJob[w]
  <1>1. /\ status \in [Jobs -> JobStatus \cup {NoRow}]
        /\ file \in [Jobs -> FileState]
        /\ j \in Jobs /\ ocrOutcome[w] \in Final
        /\ ocrPc[w] = "taken" => status[j] = "queued"
        /\ ocrPc[w] = "saving" => status[j] = "processing" /\ file[j] = "absent"
    BY DEF IInv, TypeOK, StoreTypeOK, OcrTypeOK, OcrWorkerInv
  <1>2. told' = told
    BY DEF ocrFrame, endpointVars
  <1>3. CASE /\ ocrPc[w] = "taken" /\ set_processing(j) /\ file' = file
    BY <1>1, <1>2, <1>3, StatusStep DEF set_processing
  <1>4. CASE /\ ocrPc[w] = "saving" /\ set_result(j, ocrOutcome[w]) /\ file' = file
    BY <1>1, <1>2, <1>4, StatusStep DEF set_result
  <1>5. CASE DeleteFiles(w)
    <2>1. status' = status /\ file' = [file EXCEPT ![j] = "absent"]
      BY <1>5 DEF DeleteFiles, delete_job_files, rowVars
    <2> QED
      BY <1>1, <1>2, <2>1, FileStep DEF FileState
  <1>6. CASE UNCHANGED <<status, file>>
    BY <1>2, <1>6, HiddenStep
  <1>7. \/ ocrPc[w] = "taken" /\ set_processing(j) /\ file' = file
        \/ ocrPc[w] = "saving" /\ set_result(j, ocrOutcome[w]) /\ file' = file
        \/ DeleteFiles(w)
        \/ UNCHANGED <<status, file>>
    BY DEF process_document, TakeDocument, StartDocument, RunPipeline, CommitResult,
           EnqueueDelivery, DatabaseRaises, StartRaises,
           ReloadRaises, ResultRaises, KillOcr, MoveOcr,
           storeVars, rowVars
  <1> QED
    BY <1>3, <1>4, <1>5, <1>6, <1>7

\* A delivery notifies the tenant of the result that is shown.
LEMMA HookContract ==
    ASSUME IInv, NEW h \in HookWorkers, hookFrame,
           \/ deliver_webhook(h) \/ PrepareRaises(h) \/ SendFails(h)
           \/ HookDatabaseRaises(h) \/ KillHook(h)
    PROVE  Contract!Next \/ UNCHANGED Contract!contractVars
  <1>1. UNCHANGED <<status, file>>
    BY HookFrame
  <1>2. \/ hookPc[h] = "counted" /\ Receive(h)
        \/ told' = told
    BY DEF deliver_webhook, TakeDelivery, PrepareDelivery, CountAttempt, Send,
           MarkDelivered, PrepareRaises, SendFails, HookDatabaseRaises, CountRaises,
           MarkRaises, KillHook, MoveHook, endpointVars
  <1>3. CASE hookPc[h] = "counted" /\ Receive(h)
    <2>1. /\ hookJob[h] \in Jobs /\ status[hookJob[h]] \in Final
          /\ hookBody[h] = status[hookJob[h]]
      BY <1>3 DEF IInv, TypeOK, HookTypeOK, DeliveryInv
    <2> QED
      BY <1>1, <1>3, <2>1, ReceiveStep
  <1>4. CASE told' = told
    BY <1>1, <1>4, HiddenStep
  <1> QED
    BY <1>2, <1>3, <1>4

\* Every step of the system is a step of the contract or a stutter.
LEMMA ContractStep == IInv /\ [Next]_vars => [Contract!Next]_Contract!contractVars
  <1> SUFFICES ASSUME IInv, [Next]_vars
               PROVE  Contract!Next \/ UNCHANGED Contract!contractVars
    OBVIOUS
  <1>1. ASSUME NEW j \in Jobs, HandleRequest(j) \/ RefuseRequest(j) \/ FailRequest(j)
        PROVE  Contract!Next \/ UNCHANGED Contract!contractVars
    BY <1>1, ApiContract DEF HandleRequest, RefuseRequest, FailRequest
  <1>2. ASSUME NEW w \in OcrWorkers, WorkOcr(w) \/ FailOcr(w)
        PROVE  Contract!Next \/ UNCHANGED Contract!contractVars
    BY <1>2, OcrContract DEF WorkOcr, FailOcr
  <1>3. ASSUME NEW h \in HookWorkers, WorkHook(h) \/ FailEndpoint(h) \/ FailHook(h)
        PROVE  Contract!Next \/ UNCHANGED Contract!contractVars
    BY <1>3, HookContract DEF WorkHook, FailEndpoint, FailHook
  <1>4. CASE (\E d \in sched : Schedule(d)) \/ FailRedis
    <2>1. UNCHANGED <<status, file, told>>
      BY <1>4 DEF Schedule, FailRedis, envFrame, storeVars, endpointVars
    <2> QED
      BY <2>1, HiddenStep
  <1>5. CASE FailStorage
    <2>1. /\ UNCHANGED <<status, told>>
          /\ Held' = [j \in Jobs |-> Held[j] /\ j \notin Jobs]
      BY <1>5 DEF FailStorage, LoseDocuments, envFrame, rowVars, endpointVars, Held
    <2>2. Contract!Discard(Jobs)
      BY <2>1 DEF Contract!Discard, Held
    <2> QED
      BY <2>2 DEF Contract!Next
  <1>6. CASE UNCHANGED vars
    BY <1>6, HiddenStep DEF vars, storeVars, endpointVars
  <1> QED
    BY <1>1, <1>2, <1>3, <1>4, <1>5, <1>6 DEF Next, Rest

\* Every behaviour of the engine, with any failures, is one the contract with
\* the tenant allows: the status polled never moves back, the document is never
\* held once the result shows, and notifications carry that result.
THEOREM EngineImplementsContract == Spec => ImplementsContract
  <1>1. Init => Contract!Init
    <2>1. Init => /\ status = [j \in Jobs |-> "none"]
                  /\ file = [j \in Jobs |-> "absent"]
                  /\ told = [j \in Jobs |-> {}]
      BY DEF Init, StoreInit, HookInit, NoRow
    <2>2. Init => Held = [j \in Jobs |-> FALSE]
      BY <2>1 DEF Held
    <2> QED
      BY <2>1, <2>2 DEF Contract!Init, Held
  <1>2. Spec => Contract!Init /\ [][Contract!Next]_Contract!contractVars
    BY <1>1, Invariance, ContractStep, PTL DEF Spec
  <1> QED
    BY <1>2 DEF ImplementsContract, Contract!Spec
=============================================================================

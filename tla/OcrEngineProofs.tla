--------------------------- MODULE OcrEngineProofs --------------------------
(***************************************************************************)
(* Theorems about OcrEngine, for every set of jobs and workers, every      *)
(* number of retries, with or without a scheduler, and for every set of    *)
(* Faults.                                                                 *)
(***************************************************************************)
EXTENDS OcrEngineInv, TLAPS, SequenceTheorems

-----------------------------------------------------------------------------
(* Sequences                                                               *)

\* Taking the head of a queue shifts the rest by one place.
LEMMA TailFacts ==
    ASSUME NEW S, NEW q \in Seq(S), q # <<>>
    PROVE  /\ Tail(q) \in Seq(S)
           /\ Head(q) \in S
           /\ Head(q) = q[1]
           /\ Len(q) \in Nat \ {0}
           /\ Len(Tail(q)) = Len(q) - 1
           /\ \A i \in 1 .. Len(Tail(q)) : Tail(q)[i] = q[i + 1]
  OBVIOUS

\* Appending keeps the elements and adds one at the end.
LEMMA AppendFacts ==
    ASSUME NEW S, NEW q \in Seq(S), NEW e \in S
    PROVE  /\ Append(q, e) \in Seq(S)
           /\ Len(q) \in Nat
           /\ Len(Append(q, e)) = Len(q) + 1
           /\ \A i \in 1 .. Len(Append(q, e)) :
                \/ i \in 1 .. Len(q) /\ Append(q, e)[i] = q[i]
                \/ i = Len(q) + 1 /\ Append(q, e)[i] = e
  OBVIOUS

-----------------------------------------------------------------------------
(* Types                                                                   *)

\* A retry keeps the scheduled and failed registries well typed.
LEMMA RetryType ==
    ASSUME TypeOK, NEW h \in HookWorkers, retry_or_fail(Current(h))
    PROVE  sched' \in SUBSET Delivery /\ hookDead' \in SUBSET Jobs /\ hookQ' \in Seq(Delivery)
  BY RetriesAssumption
  DEF TypeOK, QueueTypeOK, HookTypeOK, Delivery, retry_or_fail, Current

\* A step of create_job, a refusal or a failure of the request keeps the types.
LEMMA ApiType ==
    ASSUME TypeOK, NEW j \in Jobs, apiFrame,
           create_job(j) \/ Reject(j) \/ AbortRequest(j)
    PROVE  TypeOK'
  <1> USE DEF TypeOK, StoreTypeOK, QueueTypeOK, ApiTypeOK, OcrTypeOK, HookTypeOK,
              apiFrame, MoveReq, ReqState, JobStatus, FileState,
              storeVars, rowVars, queueVars, ocrQVars, hookQVars,
              ocrVars, hookVars, endpointVars
  <1>1. CASE InsertJob(j)
    BY <1>1 DEF InsertJob, insert_job
  <1>2. CASE SaveUpload(j)
    BY <1>2 DEF SaveUpload, save_upload
  <1>3. CASE RecordPath(j)
    BY <1>3 DEF RecordPath, set_file_path
  <1>4. CASE EnqueueDocument(j)
    BY <1>4, AppendFacts DEF EnqueueDocument, enqueue_document
  <1>5. CASE Reject(j)
    BY <1>5 DEF Reject
  <1>6. CASE InsertAborts(j)
    BY <1>6 DEF InsertAborts, insert_job
  <1>7. CASE SaveAborts(j)
    BY <1>7 DEF SaveAborts, save_upload_stops
  <1>8. CASE RecordAborts(j)
    <2>1. CASE set_file_path(j)
      BY <1>8, <2>1 DEF RecordAborts, set_file_path
    <2>2. CASE UNCHANGED rowVars
      BY <1>8, <2>2 DEF RecordAborts, set_file_path
    <2> QED
      BY <1>8, <2>1, <2>2 DEF RecordAborts
  <1>9. CASE EnqueueAborts(j)
    <2>1. CASE enqueue_document(j)
      BY <1>9, <2>1, AppendFacts DEF EnqueueAborts, enqueue_document
    <2>2. CASE UNCHANGED ocrQVars
      BY <1>9, <2>2 DEF EnqueueAborts
    <2> QED
      BY <1>9, <2>1, <2>2 DEF EnqueueAborts
  <1> QED
    BY <1>1, <1>2, <1>3, <1>4, <1>5, <1>6, <1>7, <1>8, <1>9 DEF create_job, AbortRequest

\* A step of process_document, or a failure of it, keeps the types.
LEMMA OcrType ==
    ASSUME TypeOK, NEW w \in OcrWorkers, ocrFrame,
           process_document(w) \/ DatabaseRaises(w) \/ KillOcr(w)
    PROVE  TypeOK'
  <1> USE DEF TypeOK, StoreTypeOK, QueueTypeOK, ApiTypeOK, OcrTypeOK, HookTypeOK,
              ocrFrame, MoveOcr, OcrState, JobStatus, FileState, Final,
              storeVars, rowVars, queueVars, ocrQVars, hookQVars,
              ocrVars, hookVars, endpointVars
  <1>0. ASSUME NEW j \in Jobs PROVE [job |-> j, left |-> MaxRetries] \in Delivery
    BY RetriesAssumption DEF Delivery
  <1>1. CASE TakeDocument(w)
    BY <1>1, TailFacts DEF TakeDocument, take_document
  <1>2. CASE StartDocument(w)
    BY <1>2 DEF StartDocument, set_processing
  <1>3. CASE RunPipeline(w)
    BY <1>3 DEF RunPipeline
  <1>4. CASE DeleteFiles(w)
    BY <1>4 DEF DeleteFiles, delete_job_files
  <1>5. CASE CommitResult(w)
    BY <1>5 DEF CommitResult, set_result
  <1>6. CASE EnqueueDelivery(w)
    BY <1>0, <1>6, AppendFacts DEF EnqueueDelivery, enqueue_delivery
  <1>7. CASE StartRaises(w)
    <2>1. CASE set_processing(ocrJob[w])
      BY <1>7, <2>1 DEF StartRaises, set_processing, fail_document
    <2>2. CASE UNCHANGED rowVars
      BY <1>7, <2>2 DEF StartRaises, set_processing, fail_document
    <2> QED
      BY <1>7, <2>1, <2>2 DEF StartRaises
  <1>8. CASE ResultRaises(w)
    <2>1. CASE set_result(ocrJob[w], ocrOutcome[w])
      BY <1>8, <2>1 DEF ResultRaises, set_result, fail_document
    <2>2. CASE UNCHANGED rowVars
      BY <1>8, <2>2 DEF ResultRaises, set_result, fail_document
    <2> QED
      BY <1>8, <2>1, <2>2 DEF ResultRaises
  <1>9. CASE KillOcr(w)
    <2>1. CASE enqueue_delivery(ocrJob[w])
      BY <1>9, <2>1, <1>0, AppendFacts DEF KillOcr, fail_document, enqueue_delivery
    <2>2. CASE UNCHANGED hookQVars
      BY <1>9, <2>2 DEF KillOcr, fail_document, enqueue_delivery
    <2> QED
      BY <1>9, <2>1, <2>2 DEF KillOcr
  <1>10. CASE ReloadRaises(w)
    BY <1>10 DEF ReloadRaises, fail_document
  <1> QED
    BY <1>1, <1>2, <1>3, <1>4, <1>5, <1>6, <1>7, <1>8, <1>9, <1>10
    DEF process_document, DatabaseRaises

\* A request that reaches the endpoint keeps its types.
LEMMA ReceiveType ==
    ASSUME TypeOK, NEW h \in HookWorkers, Receive(h)
    PROVE  /\ told' \in [Jobs -> SUBSET (JobStatus \cup {NoRow})]
           /\ sends' \in [Jobs -> Nat]
  BY DEF TypeOK, HookTypeOK, Receive

\* A step of deliver_webhook, or a failure of it, keeps the types.
LEMMA HookType ==
    ASSUME TypeOK, NEW h \in HookWorkers, hookFrame,
           \/ deliver_webhook(h) \/ PrepareRaises(h) \/ SendFails(h)
           \/ HookDatabaseRaises(h) \/ KillHook(h)
    PROVE  TypeOK'
  <1> USE DEF TypeOK, StoreTypeOK, QueueTypeOK, ApiTypeOK, OcrTypeOK, HookTypeOK,
              hookFrame, MoveHook, HookState, JobStatus,
              storeVars, rowVars, queueVars, ocrQVars, hookQVars,
              ocrVars, hookVars, endpointVars
  <1>0. retry_or_fail(Current(h)) =>
          sched' \in SUBSET Delivery /\ hookDead' \in SUBSET Jobs /\ hookQ' \in Seq(Delivery)
    BY RetryType
  <1>1. CASE TakeDelivery(h)
    <2>1. Head(hookQ) \in Delivery /\ hookQ' \in Seq(Delivery)
      BY <1>1, TailFacts DEF TakeDelivery, take_delivery
    <2>2. Head(hookQ).job \in Jobs /\ Head(hookQ).left \in 0 .. MaxRetries
      BY <2>1 DEF Delivery
    <2> QED
      BY <1>1, <2>1, <2>2 DEF TakeDelivery, take_delivery
  <1>2. CASE PrepareDelivery(h)
    BY <1>2 DEF PrepareDelivery
  <1>3. CASE CountAttempt(h)
    BY <1>3 DEF CountAttempt, set_attempts
  <1>4. CASE Send(h)
    BY <1>4, ReceiveType DEF Send
  <1>5. CASE MarkDelivered(h)
    BY <1>5 DEF MarkDelivered, set_delivered
  <1>6. CASE PrepareRaises(h)
    BY <1>0, <1>6 DEF PrepareRaises
  <1>7. CASE SendFails(h)
    <2>1. CASE Receive(h)
      BY <1>7, <2>1, <1>0, ReceiveType DEF SendFails
    <2>2. CASE UNCHANGED endpointVars
      BY <1>7, <2>2, <1>0 DEF SendFails
    <2> QED
      BY <1>7, <2>1, <2>2, <1>0 DEF SendFails
  <1>8. CASE CountRaises(h)
    <2>1. CASE set_attempts(hookJob[h], hookSeen[h])
      <3>1. attempts' \in [Jobs -> Nat] /\ UNCHANGED <<status, filePath, delivered>>
        BY <2>1 DEF set_attempts
      <3> QED
        BY <1>8, <3>1, <1>0 DEF CountRaises
    <2>2. CASE UNCHANGED rowVars
      BY <1>8, <2>2, <1>0 DEF CountRaises, set_attempts
    <2> QED
      BY <1>8, <2>1, <2>2, <1>0 DEF CountRaises
  <1>9. CASE MarkRaises(h)
    <2>1. CASE set_delivered(hookJob[h])
      BY <1>9, <2>1, <1>0 DEF MarkRaises, set_delivered
    <2>2. CASE UNCHANGED rowVars
      BY <1>9, <2>2, <1>0 DEF MarkRaises, set_delivered
    <2> QED
      BY <1>9, <2>1, <2>2, <1>0 DEF MarkRaises
  <1>10. CASE KillHook(h)
    <2>1. CASE Receive(h)
      BY <1>10, <2>1, <1>0, ReceiveType DEF KillHook
    <2>2. CASE UNCHANGED endpointVars
      BY <1>10, <2>2, <1>0 DEF KillHook
    <2> QED
      BY <1>10, <2>1, <2>2, <1>0 DEF KillHook
  <1> QED
    BY <1>1, <1>2, <1>3, <1>4, <1>5, <1>6, <1>7, <1>8, <1>9, <1>10
    DEF deliver_webhook, HookDatabaseRaises

\* Every step of the system keeps the types.
LEMMA TypeStep == TypeOK /\ [Next]_vars => TypeOK'
  <1> SUFFICES ASSUME TypeOK, [Next]_vars PROVE TypeOK'
    OBVIOUS
  <1> USE DEF TypeOK, StoreTypeOK, QueueTypeOK, ApiTypeOK, OcrTypeOK, HookTypeOK,
              storeVars, rowVars, queueVars, ocrQVars, hookQVars,
              ocrVars, hookVars, endpointVars
  <1>1. ASSUME NEW j \in Jobs, HandleRequest(j) \/ RefuseRequest(j) \/ FailRequest(j)
        PROVE  TypeOK'
    BY <1>1, ApiType DEF HandleRequest, RefuseRequest, FailRequest
  <1>2. ASSUME NEW w \in OcrWorkers, WorkOcr(w) \/ FailOcr(w)
        PROVE  TypeOK'
    BY <1>2, OcrType DEF WorkOcr, FailOcr
  <1>3. ASSUME NEW h \in HookWorkers, WorkHook(h) \/ FailEndpoint(h) \/ FailHook(h)
        PROVE  TypeOK'
    BY <1>3, HookType DEF WorkHook, FailEndpoint, FailHook
  <1>4. ASSUME NEW d \in sched, Schedule(d)
        PROVE  TypeOK'
    BY <1>4, AppendFacts DEF Schedule, Promote, envFrame
  <1>5. CASE FailRedis
    <2>1. CASE LoseKeys
      <3>1. ocrQ' \in Seq(Jobs) /\ hookQ' \in Seq(Delivery) /\ sched' \in SUBSET Delivery
        <4>1. <<>> \in Seq(Jobs) /\ <<>> \in Seq(Delivery)
          OBVIOUS
        <4>2. ocrQ' = ocrQ \/ ocrQ' = <<>>
          BY <2>1 DEF LoseKeys
        <4>3. hookQ' = hookQ \/ hookQ' = <<>>
          BY <2>1 DEF LoseKeys
        <4>4. sched' \subseteq sched
          BY <2>1 DEF LoseKeys
        <4> QED
          BY <4>1, <4>2, <4>3, <4>4
      <3> QED
        BY <1>5, <2>1, <3>1 DEF FailRedis, LoseKeys, envFrame
    <2>2. CASE take_document /\ UNCHANGED hookQVars
      BY <1>5, <2>2, TailFacts DEF FailRedis, take_document, envFrame
    <2>3. CASE take_delivery /\ UNCHANGED ocrQVars
      BY <1>5, <2>3, TailFacts DEF FailRedis, take_delivery, envFrame
    <2> QED
      BY <1>5, <2>1, <2>2, <2>3 DEF FailRedis, LoseHead
  <1>6. CASE FailStorage
    BY <1>6 DEF FailStorage, LoseDocuments, envFrame, FileState
  <1>7. CASE UNCHANGED vars
    BY <1>7 DEF vars
  <1> QED
    BY <1>1, <1>2, <1>3, <1>4, <1>5, <1>6, <1>7 DEF Next, Rest

\* Every reachable state is well typed.
THEOREM TypeCorrect == Spec => []TypeOK
  <1>1. Init => TypeOK
    BY RetriesAssumption
    DEF Init, StoreInit, QueueInit, ApiInit, OcrInit, HookInit,
        TypeOK, StoreTypeOK, QueueTypeOK, ApiTypeOK, OcrTypeOK, HookTypeOK,
        JobStatus, FileState, ReqState, OcrState, HookState, Final
  <1> QED
    BY <1>1, TypeStep, PTL DEF Spec

-----------------------------------------------------------------------------
(* The inductive invariant                                                 *)

\* Enqueuing a job nobody holds keeps the queue free of repetitions.
LEMMA EnqueueKeepsInv ==
    ASSUME IInv, NEW j \in Jobs, NEW to \in Over, apiFrame,
           MoveReq(j, "recorded", to), enqueue_document(j),
           UNCHANGED <<storeVars, hookQVars>>
    PROVE  RequestInv' /\ OcrQueueInv' /\ OcrWorkerInv' /\ DeliveryInv'
  <1>1. /\ ocrQ \in Seq(Jobs) /\ status \in [Jobs -> JobStatus \cup {NoRow}]
        /\ req \in [Jobs -> ReqState] /\ ocrJob \in [OcrWorkers -> Jobs]
        /\ ocrPc \in [OcrWorkers -> OcrState]
    BY DEF IInv, TypeOK, QueueTypeOK, StoreTypeOK, ApiTypeOK, OcrTypeOK
  <1>2. RequestInv /\ OcrQueueInv /\ OcrWorkerInv /\ DeliveryInv
    BY DEF IInv
  <1>3. /\ UNCHANGED <<status, filePath, file, ocrPc, ocrJob>>
        /\ UNCHANGED <<hookQ, sched, hookPc, hookJob, hookBody, told>>
    BY DEF storeVars, hookQVars, apiFrame, ocrVars, hookVars, endpointVars
  <1>4. /\ Len(ocrQ) \in Nat
        /\ \A i \in 1 .. Len(ocrQ') :
             \/ i \in 1 .. Len(ocrQ) /\ ocrQ'[i] = ocrQ[i]
             \/ i = Len(ocrQ) + 1 /\ ocrQ'[i] = j
    BY <1>1, AppendFacts DEF enqueue_document
  <1>5. /\ req[j] = "recorded" /\ req' = [req EXCEPT ![j] = to] /\ req[j] \notin Over
        /\ status[j] = "queued"
    BY <1>2 DEF MoveReq, Over, RequestInv, Running
  <1>6. \A i \in 1 .. Len(ocrQ) :
          /\ ocrQ[i] \in Jobs /\ ocrQ[i] # j
          /\ status[ocrQ[i]] = "queued" /\ req[ocrQ[i]] \in Over
    BY <1>1, <1>2, <1>5 DEF OcrQueueInv
  <1>7. RequestInv'
    BY <1>1, <1>2, <1>3, <1>5 DEF RequestInv, Over, Running
  <1>8. OcrQueueInv'
    <2>1. ASSUME NEW i \in 1 .. Len(ocrQ')
          PROVE  status'[ocrQ'[i]] = "queued" /\ req'[ocrQ'[i]] \in Over
      BY <1>1, <1>3, <1>4, <1>5, <1>6
    <2>2. ASSUME NEW i \in 1 .. Len(ocrQ'), NEW k \in 1 .. Len(ocrQ'), ocrQ'[i] = ocrQ'[k]
          PROVE  i = k
      BY <1>2, <1>4, <1>6, <2>2 DEF OcrQueueInv
    <2> QED
      BY <2>1, <2>2 DEF OcrQueueInv
  <1>9. OcrWorkerInv'
    <2>1. \A w \in OcrWorkers : ocrPc[w] # "idle" =>
            ocrJob[w] \in Jobs /\ ocrJob[w] # j /\ req'[ocrJob[w]] = req[ocrJob[w]]
      BY <1>1, <1>2, <1>5 DEF OcrWorkerInv
    <2>2. \A w \in OcrWorkers, i \in 1 .. Len(ocrQ') :
            ocrPc[w] # "idle" => ocrQ'[i] # ocrJob[w]
      BY <1>2, <1>4, <2>1 DEF OcrWorkerInv
    <2> QED
      BY <1>2, <1>3, <2>1, <2>2 DEF OcrWorkerInv
  <1>10. DeliveryInv'
    BY <1>2, <1>3 DEF DeliveryInv
  <1> QED
    BY <1>7, <1>8, <1>9, <1>10

\* Deliveries stay sound as long as no final status changes.
LEMMA DeliveriesKept ==
    ASSUME TypeOK, DeliveryInv,
           UNCHANGED <<hookQ, sched, hookPc, hookJob, hookBody, told>>,
           \A k \in Jobs : status[k] \in Final => status'[k] = status[k]
    PROVE  DeliveryInv'
  <1>1. /\ hookQ \in Seq(Delivery) /\ sched \in SUBSET Delivery
        /\ hookJob \in [HookWorkers -> Jobs]
    BY DEF TypeOK, QueueTypeOK, HookTypeOK
  <1>2. \A d \in Delivery : status[d.job] \in Final => status'[d.job] \in Final
    BY DEF Delivery
  <1>3. \A i \in 1 .. Len(hookQ) : hookQ[i] \in Delivery
    BY <1>1
  <1>4. \A i \in 1 .. Len(hookQ) : status'[hookQ[i].job] \in Final
    BY <1>2, <1>3 DEF DeliveryInv
  <1>5. \A d \in sched : status'[d.job] \in Final
    BY <1>1, <1>2 DEF DeliveryInv
  <1>6. \A h \in HookWorkers : hookPc[h] # "idle" => status'[hookJob[h]] = status[hookJob[h]]
    BY <1>1 DEF DeliveryInv
  <1>7. \A j \in Jobs : told[j] # {} => status'[j] = status[j]
    BY DEF DeliveryInv
  <1> QED
    BY <1>4, <1>5, <1>6, <1>7 DEF DeliveryInv

\* A request touches only its own job, which nobody else holds before the request
\* enqueues it: a step that enqueues nothing keeps the invariant.
LEMMA RequestStepKeepsInv ==
    ASSUME IInv, apiFrame, UNCHANGED queueVars, NEW j \in Jobs,
           NEW from \in {"idle"} \cup Running, NEW to \in ReqState, MoveReq(j, from, to),
           \A k \in Jobs : k # j =>
             status'[k] = status[k] /\ filePath'[k] = filePath[k] /\ file'[k] = file[k],
           status'[j] \notin Final,
           to = "rejected" => status'[j] = NoRow,
           to \in Running => status'[j] = "queued",
           to # "idle"
    PROVE  RequestInv' /\ OcrQueueInv' /\ OcrWorkerInv' /\ DeliveryInv'
  <1>1. /\ ocrQ \in Seq(Jobs) /\ req \in [Jobs -> ReqState]
        /\ ocrJob \in [OcrWorkers -> Jobs]
        /\ TypeOK /\ RequestInv /\ OcrQueueInv /\ OcrWorkerInv /\ DeliveryInv
    BY DEF IInv, TypeOK, QueueTypeOK, ApiTypeOK, OcrTypeOK
  <1>2. /\ UNCHANGED <<ocrQ, ocrPc, ocrJob>>
        /\ UNCHANGED <<hookQ, sched, hookPc, hookJob, hookBody, told>>
    BY DEF apiFrame, queueVars, ocrVars, hookVars, endpointVars
  <1>3. /\ req[j] \notin Over /\ status[j] \notin Final /\ req'[j] = to
        /\ \A k \in Jobs : k # j => req'[k] = req[k]
    BY <1>1 DEF MoveReq, Over, Running, RequestInv, Final, NoRow
  <1>4. \A i \in 1 .. Len(ocrQ) : ocrQ[i] \in Jobs /\ ocrQ[i] # j
    BY <1>1, <1>3 DEF OcrQueueInv
  <1>5. \A w \in OcrWorkers : ocrPc[w] # "idle" => ocrJob[w] \in Jobs /\ ocrJob[w] # j
    BY <1>1, <1>3 DEF OcrWorkerInv
  <1>6. RequestInv'
    BY <1>1, <1>3 DEF RequestInv
  <1>7. OcrQueueInv'
    BY <1>1, <1>2, <1>3, <1>4 DEF OcrQueueInv
  <1>8. OcrWorkerInv'
    BY <1>1, <1>2, <1>3, <1>5 DEF OcrWorkerInv
  <1>9. DeliveryInv'
    BY <1>1, <1>2, <1>3, DeliveriesKept
  <1> QED
    BY <1>6, <1>7, <1>8, <1>9

\* create_job and its failures keep the invariant.
LEMMA ApiInv ==
    ASSUME IInv, NEW j \in Jobs, apiFrame,
           create_job(j) \/ Reject(j) \/ AbortRequest(j)
    PROVE  RequestInv' /\ OcrQueueInv' /\ OcrWorkerInv' /\ DeliveryInv'
  <1>1. CASE EnqueueDocument(j)
    BY <1>1, EnqueueKeepsInv DEF EnqueueDocument, Over
  <1>2. CASE EnqueueAborts(j) /\ enqueue_document(j)
    BY <1>2, EnqueueKeepsInv DEF EnqueueAborts, Over
  <1>0. /\ status \in [Jobs -> JobStatus \cup {NoRow}]
        /\ filePath \in [Jobs -> BOOLEAN] /\ file \in [Jobs -> FileState]
        /\ req[j] \in {"idle", "rejected"} => status[j] = NoRow
        /\ req[j] \in Running => status[j] = "queued"
    BY DEF IInv, TypeOK, StoreTypeOK, RequestInv
  <1> DEFINE Goal == RequestInv' /\ OcrQueueInv' /\ OcrWorkerInv' /\ DeliveryInv'
             Others == \A k \in Jobs : k # j =>
                         status'[k] = status[k] /\ filePath'[k] = filePath[k] /\ file'[k] = file[k]
  <1> USE DEF rowVars, storeVars, queueVars, ocrQVars, hookQVars
  <1>3. ASSUME NEW from \in {"idle"} \cup Running, NEW to \in Running \cup {"error", "rejected"},
               MoveReq(j, from, to), UNCHANGED queueVars, Others,
               status'[j] = IF to = "rejected" THEN NoRow ELSE "queued"
        PROVE  Goal
    <2>1. /\ to \in ReqState /\ status'[j] \notin Final
          /\ to = "rejected" => status'[j] = NoRow
          /\ to \in Running => status'[j] = "queued"
          /\ to # "idle"
      BY <1>3 DEF ReqState, Running, Final, NoRow
    <2> QED
      BY <1>3, <2>1, RequestStepKeepsInv
  <1> HIDE DEF Goal, Others
  <1>4. CASE InsertJob(j) \/ InsertAborts(j)
    <2>1. UNCHANGED queueVars /\ Others /\ status'[j] = "queued"
      BY <1>0, <1>4 DEF Others, InsertJob, InsertAborts, insert_job
    <2> QED
      BY <1>3, <1>4, <2>1 DEF Goal, InsertJob, InsertAborts, Running
  <1>5. CASE SaveUpload(j) \/ SaveAborts(j)
    <2>1. UNCHANGED queueVars /\ Others /\ status'[j] = "queued"
      BY <1>0, <1>5 DEF Others, SaveUpload, SaveAborts, save_upload, save_upload_stops, MoveReq, Running
    <2> QED
      BY <1>3, <1>5, <2>1 DEF Goal, SaveUpload, SaveAborts, Running
  <1>6. CASE RecordPath(j) \/ RecordAborts(j)
    <2>1. UNCHANGED queueVars /\ Others /\ status'[j] = "queued"
      BY <1>0, <1>6 DEF Others, RecordPath, RecordAborts, set_file_path, MoveReq, Running
    <2> QED
      BY <1>3, <1>6, <2>1 DEF Goal, RecordPath, RecordAborts, Running
  <1>7. CASE Reject(j)
    <2>1. UNCHANGED queueVars /\ Others /\ status'[j] = NoRow
      BY <1>0, <1>7 DEF Others, Reject, MoveReq
    <2> QED
      BY <1>3, <1>7, <2>1 DEF Goal, Reject
  <1>8. CASE EnqueueAborts(j) /\ UNCHANGED ocrQVars
    <2>1. UNCHANGED queueVars /\ Others /\ status'[j] = "queued"
      BY <1>0, <1>8 DEF Others, EnqueueAborts, MoveReq, Running
    <2> QED
      BY <1>3, <1>8, <2>1 DEF Goal, EnqueueAborts, Running
  <1> QED
    BY <1>1, <1>2, <1>4, <1>5, <1>6, <1>7, <1>8
    DEF create_job, AbortRequest, EnqueueAborts, Goal

\* Announcing a job that has its result keeps the deliveries sound.
LEMMA AppendKeepsDeliveries ==
    ASSUME TypeOK, DeliveryInv, NEW d \in Delivery, status[d.job] \in Final,
           hookQ' = Append(hookQ, d), sched' \subseteq sched,
           UNCHANGED <<status, hookPc, hookJob, hookBody, told>>
    PROVE  DeliveryInv'
  <1>1. /\ hookQ \in Seq(Delivery)
        /\ Len(hookQ) \in Nat
        /\ \A i \in 1 .. Len(hookQ') :
             \/ i \in 1 .. Len(hookQ) /\ hookQ'[i] = hookQ[i]
             \/ i = Len(hookQ) + 1 /\ hookQ'[i] = d
    BY AppendFacts DEF TypeOK, QueueTypeOK
  <1>2. \A i \in 1 .. Len(hookQ') : status'[hookQ'[i].job] \in Final
    BY <1>1 DEF DeliveryInv
  <1> QED
    BY <1>2 DEF DeliveryInv

\* The worker that takes the head of the queue becomes the only holder of that job.
LEMMA TakeKeepsWorkers ==
    ASSUME TypeOK, OcrQueueInv, OcrWorkerInv, NEW w \in OcrWorkers,
           ocrQ # <<>>, ocrQ' = Tail(ocrQ), ocrPc[w] = "idle",
           ocrPc' = [ocrPc EXCEPT ![w] = "taken"],
           ocrJob' = [ocrJob EXCEPT ![w] = Head(ocrQ)],
           UNCHANGED <<status, file, req>>
    PROVE  OcrWorkerInv'
  <1>1. /\ 1 \in 1 .. Len(ocrQ) /\ Head(ocrQ) = ocrQ[1]
        /\ \A i \in 1 .. Len(ocrQ') :
             /\ i \in 1 .. Len(ocrQ) /\ i + 1 \in 1 .. Len(ocrQ) /\ i + 1 # 1
             /\ ocrQ'[i] = ocrQ[i + 1]
    BY TailFacts DEF TypeOK, QueueTypeOK
  <1>2. /\ ocrPc \in [OcrWorkers -> OcrState] /\ ocrJob \in [OcrWorkers -> Jobs]
        /\ ocrPc'[w] = "taken" /\ ocrJob'[w] = ocrQ[1]
        /\ \A v \in OcrWorkers : v # w => ocrPc'[v] = ocrPc[v] /\ ocrJob'[v] = ocrJob[v]
    BY <1>1 DEF TypeOK, OcrTypeOK
  <1>3. status[ocrQ[1]] = "queued" /\ req[ocrQ[1]] \in Over
    BY <1>1 DEF OcrQueueInv
  <1>4. ASSUME NEW v \in OcrWorkers
        PROVE  /\ ocrPc'[v] # "idle" => req'[ocrJob'[v]] \in Over
               /\ ocrPc'[v] = "taken" => status'[ocrJob'[v]] = "queued"
               /\ ocrPc'[v] \in {"running", "cleaning", "saving"} =>
                    status'[ocrJob'[v]] = "processing"
               /\ ocrPc'[v] = "saving" => file'[ocrJob'[v]] = "absent"
               /\ ocrPc'[v] = "enqueue" => status'[ocrJob'[v]] \in Final
    <2>1. CASE v = w
      BY <1>2, <1>3, <2>1
    <2>2. CASE v # w
      BY <1>2, <2>2 DEF OcrWorkerInv
    <2> QED
      BY <2>1, <2>2
  <1>5. ASSUME NEW v \in OcrWorkers, NEW i \in 1 .. Len(ocrQ'), ocrPc'[v] # "idle"
        PROVE  ocrQ'[i] # ocrJob'[v]
    <2>1. CASE v = w
      BY <1>1, <1>2, <2>1 DEF OcrQueueInv
    <2>2. CASE v # w
      BY <1>1, <1>2, <1>5, <2>2 DEF OcrWorkerInv
    <2> QED
      BY <2>1, <2>2
  <1>6. ASSUME NEW u \in OcrWorkers, NEW v \in OcrWorkers,
               ocrPc'[u] # "idle", ocrPc'[v] # "idle", ocrJob'[u] = ocrJob'[v]
        PROVE  u = v
    <2>1. CASE u # w /\ v # w
      BY <1>2, <1>6, <2>1 DEF OcrWorkerInv
    <2>2. CASE (u = w) # (v = w)
      BY <1>1, <1>2, <1>6, <2>2 DEF OcrWorkerInv
    <2> QED
      BY <2>1, <2>2
  <1> QED
    BY <1>4, <1>5, <1>6 DEF OcrWorkerInv

\* Taking the head of ocr-jobs leaves every row alone.
LEMMA TakeKeepsInv ==
    ASSUME IInv, NEW w \in OcrWorkers, ocrFrame, TakeDocument(w)
    PROVE  RequestInv' /\ OcrQueueInv' /\ OcrWorkerInv' /\ DeliveryInv'
  <1>1. TypeOK /\ RequestInv /\ OcrQueueInv /\ OcrWorkerInv /\ DeliveryInv
    BY DEF IInv
  <1>2. /\ ocrQ # <<>> /\ ocrQ' = Tail(ocrQ)
        /\ ocrPc[w] = "idle" /\ ocrPc' = [ocrPc EXCEPT ![w] = "taken"]
        /\ ocrJob' = [ocrJob EXCEPT ![w] = Head(ocrQ)]
    BY DEF TakeDocument, MoveOcr, take_document
  <1>3. /\ UNCHANGED <<status, filePath, file, req>>
        /\ UNCHANGED <<hookQ, sched, hookPc, hookJob, hookBody, told>>
    BY DEF TakeDocument, ocrFrame, storeVars, hookQVars, hookVars, endpointVars
  <1>4. \A i \in 1 .. Len(ocrQ') :
          i \in 1 .. Len(ocrQ) /\ i + 1 \in 1 .. Len(ocrQ) /\ ocrQ'[i] = ocrQ[i + 1]
    BY <1>1, <1>2, TailFacts DEF TypeOK, QueueTypeOK
  <1>5. RequestInv'
    BY <1>1, <1>3 DEF RequestInv
  <1>6. OcrQueueInv'
    <2>1. ASSUME NEW i \in 1 .. Len(ocrQ')
          PROVE  status'[ocrQ'[i]] = "queued" /\ req'[ocrQ'[i]] \in Over
      BY <1>1, <1>3, <1>4 DEF OcrQueueInv
    <2>2. ASSUME NEW i \in 1 .. Len(ocrQ'), NEW k \in 1 .. Len(ocrQ'), ocrQ'[i] = ocrQ'[k]
          PROVE  i = k
      <3>1. i + 1 = k + 1
        BY <1>1, <1>4, <2>2 DEF OcrQueueInv
      <3> QED
        BY <3>1
    <2> QED
      BY <2>1, <2>2 DEF OcrQueueInv
  <1>7. OcrWorkerInv'
    BY <1>1, <1>2, <1>3, TakeKeepsWorkers
  <1>8. DeliveryInv'
    BY <1>1, <1>3, DeliveriesKept
  <1> QED
    BY <1>5, <1>6, <1>7, <1>8

\* An execution is the only holder of its job: a step that writes nothing but the
\* row and the document of that job keeps the invariants of ocr-jobs, provided the
\* row has the status that goes with the step the execution is at now.
LEMMA ExecutionStepKeepsInv ==
    ASSUME TypeOK, RequestInv, OcrQueueInv, OcrWorkerInv, NEW w \in OcrWorkers,
           ocrPc[w] # "idle", NEW to \in OcrState \ {"taken"},
           ocrPc' = [ocrPc EXCEPT ![w] = to], UNCHANGED <<req, ocrQ, ocrJob>>,
           \A k \in Jobs : k # ocrJob[w] =>
             status'[k] = status[k] /\ filePath'[k] = filePath[k] /\ file'[k] = file[k],
           to \in {"running", "cleaning", "saving"} => status'[ocrJob[w]] = "processing",
           to = "saving" => file'[ocrJob[w]] = "absent",
           to = "enqueue" => status'[ocrJob[w]] \in Final,
           status'[ocrJob[w]] \in Final =>
             file'[ocrJob[w]] = "absent" /\ ~filePath'[ocrJob[w]]
    PROVE  RequestInv' /\ OcrQueueInv' /\ OcrWorkerInv'
  <1>1. /\ ocrQ \in Seq(Jobs) /\ ocrJob \in [OcrWorkers -> Jobs]
        /\ ocrPc \in [OcrWorkers -> OcrState]
    BY DEF TypeOK, QueueTypeOK, OcrTypeOK
  <1> DEFINE j == ocrJob[w]
  <1>2. j \in Jobs /\ req[j] \in Over
    BY <1>1 DEF OcrWorkerInv
  <1>3. \A i \in 1 .. Len(ocrQ) : ocrQ[i] \in Jobs /\ ocrQ[i] # j
    BY <1>1 DEF OcrWorkerInv
  <1>4. \A v \in OcrWorkers : v # w =>
          /\ ocrPc'[v] = ocrPc[v]
          /\ ocrPc[v] # "idle" => ocrJob[v] \in Jobs /\ ocrJob[v] # j
    BY <1>1 DEF OcrWorkerInv
  <1>5. ocrPc'[w] = to
    BY <1>1
  <1>6. RequestInv'
    BY <1>2 DEF RequestInv, Over, Running
  <1>7. OcrQueueInv'
    BY <1>3 DEF OcrQueueInv
  <1>8. ASSUME NEW v \in OcrWorkers
        PROVE  /\ ocrPc'[v] # "idle" => req'[ocrJob'[v]] \in Over /\ ocrPc[v] # "idle"
               /\ ocrPc'[v] = "taken" => status'[ocrJob'[v]] = "queued"
               /\ ocrPc'[v] \in {"running", "cleaning", "saving"} =>
                    status'[ocrJob'[v]] = "processing"
               /\ ocrPc'[v] = "saving" => file'[ocrJob'[v]] = "absent"
               /\ ocrPc'[v] = "enqueue" => status'[ocrJob'[v]] \in Final
    <2>1. CASE v = w
      BY <1>2, <1>5, <2>1
    <2>2. CASE v # w
      BY <1>4, <2>2 DEF OcrWorkerInv
    <2> QED
      BY <2>1, <2>2
  <1>9. OcrWorkerInv'
    BY <1>8 DEF OcrWorkerInv
  <1> QED
    BY <1>6, <1>7, <1>9

\* process_document moves the status of a row nobody has announced yet: the
\* invariant is kept, also when a query or a commit raises and when the work horse
\* is killed.
LEMMA OcrInv ==
    ASSUME IInv, NEW w \in OcrWorkers, ocrFrame,
           process_document(w) \/ DatabaseRaises(w) \/ KillOcr(w)
    PROVE  RequestInv' /\ OcrQueueInv' /\ OcrWorkerInv' /\ DeliveryInv'
  <1> DEFINE j == ocrJob[w]
             Others == \A k \in Jobs : k # j =>
                         status'[k] = status[k] /\ filePath'[k] = filePath[k] /\ file'[k] = file[k]
             Announced == hookQ' = Append(hookQ, [job |-> j, left |-> MaxRetries])
             OcrGoal == RequestInv' /\ OcrQueueInv' /\ OcrWorkerInv'
  <1>0. TypeOK /\ RequestInv /\ OcrQueueInv /\ OcrWorkerInv /\ DeliveryInv
    BY DEF IInv
  <1>1. /\ status \in [Jobs -> JobStatus \cup {NoRow}]
        /\ filePath \in [Jobs -> BOOLEAN] /\ file \in [Jobs -> FileState]
        /\ j \in Jobs /\ ocrOutcome[w] \in Final
        /\ status[j] \in Final => file[j] = "absent" /\ ~filePath[j]
        /\ ocrPc[w] = "taken" => status[j] = "queued"
        /\ ocrPc[w] \in {"running", "cleaning", "saving"} => status[j] = "processing"
        /\ ocrPc[w] = "saving" => file[j] = "absent"
        /\ ocrPc[w] = "enqueue" => status[j] \in Final
    BY <1>0 DEF TypeOK, StoreTypeOK, OcrTypeOK, RequestInv, OcrWorkerInv
  <1>2. UNCHANGED <<req, hookPc, hookJob, hookBody, told>>
    BY DEF ocrFrame, hookVars, endpointVars
  <1>3. CASE TakeDocument(w)
    BY <1>3, TakeKeepsInv
  <1>4. ASSUME ocrPc[w] # "idle", NEW to \in OcrState \ {"taken"},
               ocrPc' = [ocrPc EXCEPT ![w] = to], UNCHANGED <<ocrQ, ocrJob>>, Others,
               to \in {"running", "cleaning", "saving"} => status'[j] = "processing",
               to = "saving" => file'[j] = "absent",
               to = "enqueue" => status'[j] \in Final,
               status'[j] \in Final => file'[j] = "absent" /\ ~filePath'[j]
        PROVE  OcrGoal
    BY <1>0, <1>2, <1>4, ExecutionStepKeepsInv
  <1>5. ASSUME UNCHANGED <<hookQ, sched>>, Others,
               status[j] \in Final => status'[j] = status[j]
        PROVE  DeliveryInv'
    BY <1>0, <1>2, <1>5, DeliveriesKept
  <1>6. ASSUME Announced, UNCHANGED <<status, sched>>, status[j] \in Final
        PROVE  DeliveryInv'
    <2>1. [job |-> j, left |-> MaxRetries] \in Delivery
      BY <1>1, RetriesAssumption DEF Delivery
    <2> QED
      BY <1>0, <1>2, <1>6, <2>1, AppendKeepsDeliveries
  <1> HIDE DEF OcrGoal, Others
  <1> USE DEF MoveOcr, storeVars, rowVars, queueVars, ocrQVars, hookQVars
  <1>7. CASE StartDocument(w)
    <2>1. /\ ocrPc[w] = "taken" /\ ocrPc' = [ocrPc EXCEPT ![w] = "running"]
          /\ UNCHANGED <<ocrQ, ocrJob, hookQ, sched, filePath, file>>
          /\ status' = [status EXCEPT ![j] = "processing"]
      BY <1>1, <1>7 DEF StartDocument, set_processing, NoRow
    <2>2. Others /\ status'[j] = "processing"
      BY <1>1, <2>1 DEF Others
    <2> QED
      BY <1>1, <1>4, <1>5, <2>1, <2>2 DEF OcrGoal, OcrState, Final
  <1>8. CASE RunPipeline(w)
    <2>1. /\ ocrPc[w] = "running" /\ ocrPc' = [ocrPc EXCEPT ![w] = "cleaning"]
          /\ UNCHANGED <<ocrQ, ocrJob, hookQ, sched, status, filePath, file>>
      BY <1>8 DEF RunPipeline
    <2>2. Others
      BY <2>1 DEF Others
    <2> QED
      BY <1>1, <1>4, <1>5, <2>1, <2>2 DEF OcrGoal, OcrState, Final
  <1>9. CASE DeleteFiles(w)
    <2>1. /\ ocrPc[w] = "cleaning" /\ ocrPc' = [ocrPc EXCEPT ![w] = "saving"]
          /\ UNCHANGED <<ocrQ, ocrJob, hookQ, sched, status, filePath>>
          /\ file' = [file EXCEPT ![j] = "absent"]
      BY <1>9 DEF DeleteFiles, delete_job_files
    <2>2. Others /\ file'[j] = "absent"
      BY <1>1, <2>1 DEF Others
    <2> QED
      BY <1>1, <1>4, <1>5, <2>1, <2>2 DEF OcrGoal, OcrState, Final
  <1>10. CASE CommitResult(w)
    <2>1. /\ ocrPc[w] = "saving" /\ ocrPc' = [ocrPc EXCEPT ![w] = "enqueue"]
          /\ UNCHANGED <<ocrQ, ocrJob, hookQ, sched, file>>
          /\ set_result(j, ocrOutcome[w])
      BY <1>10 DEF CommitResult
    <2>2. Others /\ status'[j] \in Final /\ ~filePath'[j]
      BY <1>1, <2>1 DEF Others, set_result
    <2> QED
      BY <1>1, <1>4, <1>5, <2>1, <2>2 DEF OcrGoal, OcrState, Final
  <1>11. CASE EnqueueDelivery(w)
    <2>1. /\ ocrPc[w] = "enqueue" /\ ocrPc' = [ocrPc EXCEPT ![w] = "idle"]
          /\ UNCHANGED <<ocrQ, ocrJob, sched, status, filePath, file>> /\ Announced
      BY <1>11 DEF EnqueueDelivery, enqueue_delivery
    <2>2. Others
      BY <2>1 DEF Others
    <2> QED
      BY <1>1, <1>4, <1>6, <2>1, <2>2 DEF OcrGoal, OcrState
  <1>12. CASE StartRaises(w)
    <2>1. /\ ocrPc[w] = "taken" /\ ocrPc' = [ocrPc EXCEPT ![w] = "idle"]
          /\ UNCHANGED <<ocrQ, ocrJob, hookQ, sched, filePath, file>>
          /\ status' = [status EXCEPT ![j] = "processing"] \/ status' = status
      BY <1>12 DEF StartRaises, set_processing, fail_document
    <2>2. Others /\ status'[j] \in {"queued", "processing"}
      BY <1>1, <2>1 DEF Others
    <2> QED
      BY <1>1, <1>4, <1>5, <2>1, <2>2 DEF OcrGoal, OcrState, Final
  <1>13. CASE ReloadRaises(w)
    <2>1. /\ ocrPc[w] = "running" /\ ocrPc' = [ocrPc EXCEPT ![w] = "idle"]
          /\ UNCHANGED <<ocrQ, ocrJob, hookQ, sched, status, filePath, file>>
      BY <1>13 DEF ReloadRaises, fail_document
    <2>2. Others
      BY <2>1 DEF Others
    <2> QED
      BY <1>1, <1>4, <1>5, <2>1, <2>2 DEF OcrGoal, OcrState
  <1>14. CASE ResultRaises(w)
    <2>1. /\ ocrPc[w] = "saving" /\ ocrPc' = [ocrPc EXCEPT ![w] = "idle"]
          /\ UNCHANGED <<ocrQ, ocrJob, hookQ, sched, file>>
          /\ set_result(j, ocrOutcome[w]) \/ UNCHANGED <<status, filePath>>
      BY <1>14 DEF ResultRaises, fail_document
    <2>2. Others /\ (status'[j] \in Final => ~filePath'[j])
      BY <1>1, <2>1 DEF Others, set_result, Final
    <2> QED
      BY <1>1, <1>4, <1>5, <2>1, <2>2 DEF OcrGoal, OcrState, Final
  <1>15. CASE KillOcr(w)
    <2>1. /\ ocrPc[w] # "idle" /\ ocrPc' = [ocrPc EXCEPT ![w] = "idle"]
          /\ UNCHANGED <<ocrQ, ocrJob, sched, status, filePath, file>>
          /\ (ocrPc[w] = "enqueue" /\ Announced) \/ UNCHANGED hookQ
      BY <1>15 DEF KillOcr, fail_document, enqueue_delivery
    <2>2. Others
      BY <2>1 DEF Others
    <2>3. OcrGoal
      BY <1>1, <1>4, <2>1, <2>2 DEF OcrState
    <2>4. DeliveryInv'
      BY <1>1, <1>5, <1>6, <2>1, <2>2
    <2> QED
      BY <2>3, <2>4 DEF OcrGoal
  <1> QED
    BY <1>3, <1>7, <1>8, <1>9, <1>10, <1>11, <1>12, <1>13, <1>14, <1>15
    DEF process_document, DatabaseRaises, OcrGoal

\* Delivering touches neither the status nor the ocr-jobs side.
LEMMA OthersKept ==
    ASSUME RequestInv, OcrQueueInv, OcrWorkerInv,
           UNCHANGED <<status, filePath, file, req, ocrQ, ocrPc, ocrJob>>
    PROVE  RequestInv' /\ OcrQueueInv' /\ OcrWorkerInv'
  BY DEF RequestInv, OcrQueueInv, OcrWorkerInv

\* A delivery that is retried is one of a job with its result.
LEMMA RetryKeepsDeliveries ==
    ASSUME DeliveryInv, NEW h \in HookWorkers, hookPc[h] # "idle",
           retry_or_fail(Current(h)), status' = status
    PROVE  hookQ' = hookQ /\ \A d \in sched' : status'[d.job] \in Final
  BY DEF DeliveryInv, retry_or_fail, Current

\* The body an execution sends was built from the final status.
LEMMA ReceiveKeepsTold ==
    ASSUME TypeOK, DeliveryInv, NEW h \in HookWorkers, hookPc[h] = "counted", Receive(h),
           UNCHANGED status
    PROVE  \A j \in Jobs : \A s \in told'[j] : s \in Final /\ s = status'[j]
  <1>1. /\ told \in [Jobs -> SUBSET (JobStatus \cup {NoRow})] /\ hookJob[h] \in Jobs
        /\ hookBody[h] = status[hookJob[h]] /\ status[hookJob[h]] \in Final
    BY DEF TypeOK, HookTypeOK, DeliveryInv
  <1>2. told' = [told EXCEPT ![hookJob[h]] = @ \cup {hookBody[h]}]
    BY DEF Receive
  <1>3. ASSUME NEW j \in Jobs, NEW s \in told'[j]
        PROVE  s \in Final /\ s = status'[j]
    <2>1. CASE s \in told[j]
      BY <2>1 DEF DeliveryInv
    <2>2. CASE j = hookJob[h] /\ s = hookBody[h]
      BY <1>1, <2>2
    <2> QED
      BY <1>1, <1>2, <1>3, <2>1, <2>2
  <1> QED
    BY <1>3

\* deliver_webhook builds its payload from the final status, and a failed delivery
\* is scheduled again for the same job: what is announced stays right.
LEMMA HookInv ==
    ASSUME IInv, NEW h \in HookWorkers, hookFrame,
           \/ deliver_webhook(h) \/ PrepareRaises(h) \/ SendFails(h)
           \/ HookDatabaseRaises(h) \/ KillHook(h)
    PROVE  DeliveryInv'
  <1> DEFINE Told == \A j \in Jobs : \A s \in told'[j] : s \in Final /\ s = status'[j]
             QueuesSound == /\ \A i \in 1 .. Len(hookQ') : status'[hookQ'[i].job] \in Final
                            /\ \A d \in sched' : status'[d.job] \in Final
  <1>0. TypeOK /\ DeliveryInv
    BY DEF IInv
  <1>1. /\ hookPc \in [HookWorkers -> HookState] /\ hookJob \in [HookWorkers -> Jobs]
        /\ hookBody \in [HookWorkers -> JobStatus \cup {NoRow}]
    BY <1>0 DEF TypeOK, HookTypeOK
  <1>2. ASSUME UNCHANGED told, status' = status PROVE Told
    BY <1>0, <1>2 DEF DeliveryInv
  <1>3. ASSUME UNCHANGED <<hookQ, sched>>, status' = status PROVE QueuesSound
    BY <1>0, <1>3 DEF DeliveryInv
  <1>4. ASSUME retry_or_fail(Current(h)), hookPc[h] # "idle", status' = status
        PROVE  QueuesSound
    <2>1. hookQ' = hookQ /\ \A d \in sched' : status'[d.job] \in Final
      BY <1>0, <1>4, RetryKeepsDeliveries
    <2> QED
      BY <1>0, <1>4, <2>1 DEF DeliveryInv
  <1>5. ASSUME Receive(h), hookPc[h] = "counted", status' = status PROVE Told
    BY <1>0, <1>5, ReceiveKeepsTold
  \* The worker of h moves to a step; the others stay where they are.
  <1>6. ASSUME NEW to \in HookState, hookPc' = [hookPc EXCEPT ![h] = to], status' = status,
               \A v \in HookWorkers : v # h => hookJob'[v] = hookJob[v] /\ hookBody'[v] = hookBody[v],
               to # "idle" => status[hookJob'[h]] \in Final,
               to \notin {"idle", "taken"} => hookBody'[h] = status[hookJob'[h]],
               QueuesSound, Told
        PROVE  DeliveryInv'
    <2>1. ASSUME NEW v \in HookWorkers, hookPc'[v] # "idle"
          PROVE  /\ status'[hookJob'[v]] \in Final
                 /\ hookPc'[v] # "taken" => hookBody'[v] = status'[hookJob'[v]]
      <3>1. CASE v = h
        BY <1>1, <1>6, <2>1, <3>1
      <3>2. CASE v # h
        BY <1>0, <1>1, <1>6, <2>1, <3>2 DEF DeliveryInv
      <3> QED
        BY <3>1, <3>2
    <2> QED
      BY <1>6, <2>1 DEF DeliveryInv
  <1>7. hookPc[h] # "idle" =>
          /\ status[hookJob[h]] \in Final
          /\ hookPc[h] # "taken" => hookBody[h] = status[hookJob[h]]
    BY <1>0 DEF DeliveryInv
  <1> HIDE DEF Told, QueuesSound
  <1> USE DEF HookState, MoveHook, storeVars, rowVars, queueVars, hookQVars, endpointVars
  <1>8. CASE TakeDelivery(h)
    <2>1. /\ hookQ \in Seq(Delivery) /\ hookQ # <<>> /\ hookQ' = Tail(hookQ)
      BY <1>0, <1>8 DEF TakeDelivery, take_delivery, TypeOK, QueueTypeOK
    <2>2. /\ Len(hookQ) \in Nat \ {0} /\ Head(hookQ) = hookQ[1]
          /\ \A i \in 1 .. Len(hookQ') :
               i + 1 \in 1 .. Len(hookQ) /\ hookQ'[i] = hookQ[i + 1]
      BY <2>1, TailFacts
    <2>3. status[Head(hookQ).job] \in Final
      BY <1>0, <2>2 DEF DeliveryInv
    <2>4. status' = status /\ UNCHANGED <<sched, told, hookBody>>
      BY <1>8 DEF TakeDelivery, take_delivery
    <2>5. QueuesSound
      BY <1>0, <2>2, <2>4 DEF DeliveryInv, QueuesSound
    <2> QED
      BY <1>1, <1>2, <1>6, <1>8, <2>3, <2>4, <2>5 DEF TakeDelivery
  <1>9. CASE PrepareDelivery(h)
    BY <1>1, <1>2, <1>3, <1>6, <1>7, <1>9 DEF PrepareDelivery
  <1>10. CASE CountAttempt(h)
    BY <1>2, <1>3, <1>6, <1>7, <1>10 DEF CountAttempt, set_attempts
  <1>11. CASE Send(h)
    BY <1>3, <1>5, <1>6, <1>7, <1>11 DEF Send
  <1>12. CASE MarkDelivered(h)
    BY <1>2, <1>3, <1>6, <1>7, <1>12 DEF MarkDelivered, set_delivered
  <1>13. CASE PrepareRaises(h)
    BY <1>2, <1>4, <1>6, <1>13 DEF PrepareRaises
  <1>14. CASE SendFails(h)
    BY <1>2, <1>4, <1>5, <1>6, <1>14 DEF SendFails
  <1>15. CASE CountRaises(h)
    BY <1>2, <1>4, <1>6, <1>15 DEF CountRaises, set_attempts
  <1>16. CASE MarkRaises(h)
    BY <1>2, <1>4, <1>6, <1>16 DEF MarkRaises, set_delivered
  <1>17. CASE KillHook(h)
    BY <1>2, <1>4, <1>5, <1>6, <1>17 DEF KillHook
  <1> QED
    BY <1>8, <1>9, <1>10, <1>11, <1>12, <1>13, <1>14, <1>15, <1>16, <1>17
    DEF deliver_webhook, HookDatabaseRaises

\* Delivering writes only the two webhook columns of the row.
LEMMA HookFrame ==
    ASSUME NEW h \in HookWorkers, hookFrame,
           \/ deliver_webhook(h) \/ PrepareRaises(h) \/ SendFails(h)
           \/ HookDatabaseRaises(h) \/ KillHook(h)
    PROVE  UNCHANGED <<status, filePath, file, req, ocrQ, ocrPc, ocrJob>>
  BY DEF hookFrame, ocrVars, storeVars, rowVars, queueVars, ocrQVars, deliver_webhook,
         TakeDelivery, PrepareDelivery, CountAttempt, Send, MarkDelivered,
         PrepareRaises, SendFails, HookDatabaseRaises, CountRaises, MarkRaises, KillHook,
         set_attempts, set_delivered

\* The invariant is inductive: every step of the system keeps it.
LEMMA InvStep == IInv /\ [Next]_vars => IInv'
  <1> SUFFICES ASSUME IInv, [Next]_vars PROVE IInv'
    OBVIOUS
  <1>0. TypeOK /\ RequestInv /\ OcrQueueInv /\ OcrWorkerInv /\ DeliveryInv
    BY DEF IInv
  <1>8. TypeOK'
    BY <1>0, TypeStep
  <1> SUFFICES RequestInv' /\ OcrQueueInv' /\ OcrWorkerInv' /\ DeliveryInv'
    BY <1>8 DEF IInv
  <1>1. ASSUME NEW j \in Jobs, HandleRequest(j) \/ RefuseRequest(j) \/ FailRequest(j)
        PROVE  RequestInv' /\ OcrQueueInv' /\ OcrWorkerInv' /\ DeliveryInv'
    BY <1>1, ApiInv DEF HandleRequest, RefuseRequest, FailRequest
  <1>2. ASSUME NEW w \in OcrWorkers, WorkOcr(w) \/ FailOcr(w)
        PROVE  RequestInv' /\ OcrQueueInv' /\ OcrWorkerInv' /\ DeliveryInv'
    BY <1>2, OcrInv DEF WorkOcr, FailOcr
  <1>3. ASSUME NEW h \in HookWorkers, WorkHook(h) \/ FailEndpoint(h) \/ FailHook(h)
        PROVE  RequestInv' /\ OcrQueueInv' /\ OcrWorkerInv' /\ DeliveryInv'
    <2>1. /\ hookFrame
          /\ \/ deliver_webhook(h) \/ PrepareRaises(h) \/ SendFails(h)
             \/ HookDatabaseRaises(h) \/ KillHook(h)
      BY <1>3 DEF WorkHook, FailEndpoint, FailHook
    <2>2. DeliveryInv'
      BY <2>1, HookInv
    <2>3. UNCHANGED <<status, filePath, file, req, ocrQ, ocrPc, ocrJob>>
      BY <2>1, HookFrame
    <2> QED
      BY <1>0, <2>2, <2>3, OthersKept
  <1>4. ASSUME NEW d \in sched, Schedule(d)
        PROVE  RequestInv' /\ OcrQueueInv' /\ OcrWorkerInv' /\ DeliveryInv'
    <2>1. /\ UNCHANGED <<status, filePath, file, req, ocrQ, ocrPc, ocrJob>>
          /\ UNCHANGED <<hookPc, hookJob, hookBody, told>>
          /\ hookQ' = Append(hookQ, d) /\ sched' \subseteq sched
      BY <1>4 DEF Schedule, Promote, envFrame, storeVars, ocrQVars, ocrVars,
                  hookVars, endpointVars
    <2>2. d \in Delivery /\ status[d.job] \in Final
      BY <1>0 DEF TypeOK, QueueTypeOK, DeliveryInv
    <2>3. DeliveryInv'
      BY <1>0, <2>1, <2>2, AppendKeepsDeliveries
    <2> QED
      BY <1>0, <2>1, <2>3, OthersKept
  <1>5. CASE FailRedis
    <2>0. /\ UNCHANGED <<status, filePath, file, req, ocrPc, ocrJob>>
          /\ UNCHANGED <<hookPc, hookJob, hookBody, told>>
      BY <1>5 DEF FailRedis, envFrame, storeVars, ocrVars, hookVars, endpointVars
    <2>1. sched' \subseteq sched
      BY <1>5 DEF FailRedis, LoseKeys, LoseHead, take_document, take_delivery, hookQVars
    <2>2. ocrQ' = ocrQ \/ ocrQ' = <<>> \/ (ocrQ # <<>> /\ ocrQ' = Tail(ocrQ))
      BY <1>5 DEF FailRedis, LoseKeys, LoseHead, take_document, ocrQVars
    <2>3. hookQ' = hookQ \/ hookQ' = <<>> \/ (hookQ # <<>> /\ hookQ' = Tail(hookQ))
      BY <1>5 DEF FailRedis, LoseKeys, LoseHead, take_delivery, hookQVars
    <2>4. \A i \in 1 .. Len(ocrQ') : \E k \in 1 .. Len(ocrQ) : ocrQ'[i] = ocrQ[k]
      <3>1. CASE ocrQ' = ocrQ
        BY <3>1
      <3>2. CASE ocrQ' = <<>>
        BY <3>2
      <3>3. CASE ocrQ # <<>> /\ ocrQ' = Tail(ocrQ)
        BY <1>0, <3>3, TailFacts DEF TypeOK, QueueTypeOK
      <3> QED
        BY <2>2, <3>1, <3>2, <3>3
    <2>5. \A i \in 1 .. Len(hookQ') : \E k \in 1 .. Len(hookQ) : hookQ'[i] = hookQ[k]
      <3>1. CASE hookQ' = hookQ
        BY <3>1
      <3>2. CASE hookQ' = <<>>
        BY <3>2
      <3>3. CASE hookQ # <<>> /\ hookQ' = Tail(hookQ)
        BY <1>0, <3>3, TailFacts DEF TypeOK, QueueTypeOK
      <3> QED
        BY <2>3, <3>1, <3>2, <3>3
    <2>6. \A i, k \in 1 .. Len(ocrQ') : ocrQ'[i] = ocrQ'[k] => i = k
      <3>1. CASE ocrQ' = ocrQ
        BY <1>0, <3>1 DEF OcrQueueInv
      <3>2. CASE ocrQ' = <<>>
        BY <3>2
      <3>3. CASE ocrQ # <<>> /\ ocrQ' = Tail(ocrQ)
        BY <1>0, <3>3, TailFacts DEF TypeOK, QueueTypeOK, OcrQueueInv
      <3> QED
        BY <2>2, <3>1, <3>2, <3>3
    <2>7. RequestInv'
      BY <1>0, <2>0 DEF RequestInv
    <2>8. OcrQueueInv'
      BY <1>0, <2>0, <2>4, <2>6 DEF OcrQueueInv
    <2>9. OcrWorkerInv'
      BY <1>0, <2>0, <2>4 DEF OcrWorkerInv
    <2>10. DeliveryInv'
      BY <1>0, <2>0, <2>1, <2>5 DEF DeliveryInv
    <2> QED
      BY <2>7, <2>8, <2>9, <2>10
  <1>6. CASE FailStorage
    <2>1. /\ UNCHANGED <<status, filePath, req, ocrQ, ocrPc, ocrJob>>
          /\ UNCHANGED <<hookQ, sched, hookPc, hookJob, hookBody, told>>
          /\ \A j \in Jobs : file'[j] = "absent"
          /\ \A w \in OcrWorkers : ocrPc[w] = "idle"
      BY <1>6 DEF FailStorage, LoseDocuments, envFrame, rowVars, queueVars, ocrVars,
                  hookVars, endpointVars
    <2> QED
      BY <1>0, <2>1 DEF RequestInv, OcrQueueInv, OcrWorkerInv, DeliveryInv
  <1>7. CASE UNCHANGED vars
    BY <1>0, <1>7
    DEF vars, storeVars, queueVars, ocrVars, hookVars, endpointVars,
        RequestInv, OcrQueueInv, OcrWorkerInv, DeliveryInv
  <1> QED
    BY <1>1, <1>2, <1>3, <1>4, <1>5, <1>6, <1>7 DEF Next, Rest

\* The initial states satisfy the invariant.
LEMMA InvInit == Init => IInv
  <1> SUFFICES ASSUME Init PROVE IInv
    OBVIOUS
  <1>1. TypeOK
    BY RetriesAssumption
    DEF Init, StoreInit, QueueInit, ApiInit, OcrInit, HookInit,
        TypeOK, StoreTypeOK, QueueTypeOK, ApiTypeOK, OcrTypeOK, HookTypeOK,
        JobStatus, FileState, ReqState, OcrState, HookState, Final
  <1>2. RequestInv /\ OcrQueueInv /\ OcrWorkerInv /\ DeliveryInv
    BY DEF Init, StoreInit, QueueInit, ApiInit, OcrInit, HookInit,
           RequestInv, OcrQueueInv, OcrWorkerInv, DeliveryInv, Running, Final, NoRow
  <1> QED
    BY <1>1, <1>2 DEF IInv

\* The invariant holds in every reachable state.
THEOREM Invariance == Spec => []IInv
  BY InvInit, InvStep, PTL DEF Spec

\* Whatever fails, a committed result implies that the document is off the
\* volume and file_path is NULL (tasks.py, process_document).
THEOREM ResultsAreCleaned == Spec => []FinalMeansCleaned
  <1>1. IInv => FinalMeansCleaned
    BY DEF IInv, RequestInv, FinalMeansCleaned
  <1> QED
    BY <1>1, Invariance, PTL

\* Whatever fails, every body the endpoint of the tenant received carries the
\* final status that polling shows (webhook.py, deliver_webhook).
THEOREM NotificationsAgree == Spec => []WebhookAgreesWithPolling
  <1>1. IInv => WebhookAgreesWithPolling
    BY DEF IInv, DeliveryInv, WebhookAgreesWithPolling
  <1> QED
    BY <1>1, Invariance, PTL
=============================================================================

---------------------------- MODULE OcrEngineInv ----------------------------
(***************************************************************************)
(* The inductive invariant behind the theorems of OcrEngineProofs.  It     *)
(* says which status the row of a job can have wherever the job waits or   *)
(* runs, and that ocr-jobs and its workers hold each job at most once: two *)
(* executions of one document are exactly what could change a final status *)
(* after the tenant was told of it.                                        *)
(***************************************************************************)
EXTENDS OcrEngine

Over == {"accepted", "error"}      \* requests that may have enqueued the job

\* Before the request has enqueued its job nothing else touches the job.
RequestInv ==
    \A j \in Jobs :
        /\ req[j] \in {"idle", "rejected"} => status[j] = NoRow
        /\ req[j] \in Running => status[j] = "queued"
        /\ status[j] \in Final => file[j] = "absent" /\ ~filePath[j]

\* A queued document belongs to a job that nobody has started, once.
OcrQueueInv ==
    /\ \A i \in 1 .. Len(ocrQ) :
         status[ocrQ[i]] = "queued" /\ req[ocrQ[i]] \in Over
    /\ \A i, k \in 1 .. Len(ocrQ) : ocrQ[i] = ocrQ[k] => i = k

\* The step of an execution determines the status of the row it works on, and
\* no two executions, nor an execution and the queue, hold the same job.
OcrWorkerInv ==
    /\ \A w \in OcrWorkers :
         /\ ocrPc[w] # "idle" => req[ocrJob[w]] \in Over
         /\ ocrPc[w] = "taken" => status[ocrJob[w]] = "queued"
         /\ ocrPc[w] \in {"running", "cleaning", "saving"} =>
              status[ocrJob[w]] = "processing"
         /\ ocrPc[w] = "saving" => file[ocrJob[w]] = "absent"
         /\ ocrPc[w] = "enqueue" => status[ocrJob[w]] \in Final
    /\ \A w \in OcrWorkers, i \in 1 .. Len(ocrQ) :
         ocrPc[w] # "idle" => ocrQ[i] # ocrJob[w]
    /\ \A v, w \in OcrWorkers :
         ocrPc[v] # "idle" /\ ocrPc[w] # "idle" /\ ocrJob[v] = ocrJob[w] => v = w

\* Only a job with its result is announced, and the payload carries it.
DeliveryInv ==
    /\ \A i \in 1 .. Len(hookQ) : status[hookQ[i].job] \in Final
    /\ \A d \in sched : status[d.job] \in Final
    /\ \A h \in HookWorkers : hookPc[h] # "idle" =>
         /\ status[hookJob[h]] \in Final
         /\ hookPc[h] # "taken" => hookBody[h] = status[hookJob[h]]
    /\ \A j \in Jobs : \A s \in told[j] : s \in Final /\ s = status[j]

IInv == TypeOK /\ RequestInv /\ OcrQueueInv /\ OcrWorkerInv /\ DeliveryInv
=============================================================================

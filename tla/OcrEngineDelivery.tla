-------------------------- MODULE OcrEngineDelivery -------------------------
(***************************************************************************)
(* The invariants behind the theorems of DeliveryProofs and RecoveryProofs *)
(* (all of them next to IInv).  A delivery of a job is in the queue, in    *)
(* the scheduled registry or on a worker, and nobody but its worker writes *)
(* the counter of the job: that is what makes the unlocked increment safe. *)
(***************************************************************************)
EXTENDS OcrEngineInv

Busy(h) == hookPc[h] # "idle"

\* Each job has at most one delivery.
OnceInv ==
    /\ \A i, k \in 1 .. Len(hookQ) : hookQ[i].job = hookQ[k].job => i = k
    /\ \A d, e \in sched : d.job = e.job => d = e
    /\ \A g, h \in HookWorkers : Busy(g) /\ Busy(h) /\ hookJob[g] = hookJob[h] => g = h
    /\ \A i \in 1 .. Len(hookQ) : \A d \in sched : hookQ[i].job # d.job
    /\ \A i \in 1 .. Len(hookQ) : \A h \in HookWorkers : Busy(h) => hookQ[i].job # hookJob[h]
    /\ \A d \in sched : \A h \in HookWorkers : Busy(h) => d.job # hookJob[h]

\* The job that an execution is about to announce has none.
UnannouncedInv ==
    \A w \in OcrWorkers : ocrPc[w] = "enqueue" =>
        /\ \A i \in 1 .. Len(hookQ) : hookQ[i].job # ocrJob[w]
        /\ \A d \in sched : d.job # ocrJob[w]
        /\ \A h \in HookWorkers : Busy(h) => hookJob[h] # ocrJob[w]

\* The attempts made and the retries left are together never more than allowed,
\* and an attempt that is counted and not answered is ahead of the endpoint.
CountInv ==
    /\ \A i \in 1 .. Len(hookQ) : attempts[hookQ[i].job] + hookQ[i].left <= MaxRetries
    /\ \A d \in sched : attempts[d.job] + d.left <= MaxRetries
    /\ \A h \in HookWorkers :
         /\ hookPc[h] \in {"taken", "prepared"} =>
              attempts[hookJob[h]] + hookLeft[h] <= MaxRetries
         /\ hookPc[h] \in {"counted", "sent"} =>
              attempts[hookJob[h]] + hookLeft[h] <= MaxRetries + 1
         /\ hookPc[h] = "prepared" => hookSeen[h] = attempts[hookJob[h]]
         /\ hookPc[h] = "counted" => sends[hookJob[h]] < attempts[hookJob[h]]
         /\ hookPc[h] = "sent" => sends[hookJob[h]] > 0

\* Nobody counts before the announcement.
FirstCountInv ==
    /\ \A j \in Jobs : status[j] \notin Final => attempts[j] = 0
    /\ \A w \in OcrWorkers : ocrPc[w] = "enqueue" => attempts[ocrJob[w]] = 0

OneDelivery == OnceInv /\ UnannouncedInv /\ CountInv /\ FirstCountInv /\ AttemptsAccountForSends

\* From the upload to the end of the pipeline the document of a job is whole and,
\* once enqueued, its path is recorded.
DocumentInv ==
    /\ \A j \in Jobs :
         /\ req[j] \in {"saved", "recorded"} => file[j] = "whole"
         /\ req[j] = "recorded" => filePath[j]
    /\ \A i \in 1 .. Len(ocrQ) : file[ocrQ[i]] = "whole" /\ filePath[ocrQ[i]]
    /\ \A w \in OcrWorkers : ocrPc[w] \in {"taken", "running"} =>
         file[ocrJob[w]] = "whole" /\ filePath[ocrJob[w]]
=============================================================================

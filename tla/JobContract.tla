----------------------------- MODULE JobContract ----------------------------
(***************************************************************************)
(* What the OCR engine promises the tenant about a job, whatever fails     *)
(* (design/api.md, sections 9.1 to 9.4, and design/pipeline.md, section 8):*)
(* the polled status only moves queued, processing, then one final result; *)
(* the uploaded document is never held once the result is visible; and a   *)
(* notification carries the final result, the one polling shows.           *)
(* It says nothing of queues, workers, retries or commits.                 *)
(***************************************************************************)
CONSTANT Jobs

VARIABLES
    view,       \* the status GET /api/v1/jobs/{id} shows, "none" for a 404
    held,       \* some of the uploaded document is on the volume
    notified    \* statuses the tenant was notified of

contractVars == <<view, held, notified>>

Results == {"completed", "failed"}

Init ==
    /\ view     = [j \in Jobs |-> "none"]
    /\ held     = [j \in Jobs |-> FALSE]
    /\ notified = [j \in Jobs |-> {}]

Register(j) ==
    /\ view[j] = "none"
    /\ view' = [view EXCEPT ![j] = "queued"]
    /\ UNCHANGED <<held, notified>>

Hold(j) ==
    /\ view[j] = "queued"
    /\ held' = [held EXCEPT ![j] = TRUE]
    /\ UNCHANGED <<view, notified>>

\* Documents go one by one, or all at once with the volume.
Discard(D) ==
    /\ held' = [j \in Jobs |-> held[j] /\ j \notin D]
    /\ UNCHANGED <<view, notified>>

Begin(j) ==
    /\ view[j] = "queued"
    /\ view' = [view EXCEPT ![j] = "processing"]
    /\ UNCHANGED <<held, notified>>

Finish(j) ==
    /\ view[j] = "processing"
    /\ ~held[j]
    /\ \E result \in Results : view' = [view EXCEPT ![j] = result]
    /\ UNCHANGED <<held, notified>>

Notify(j) ==
    /\ view[j] \in Results
    /\ notified' = [notified EXCEPT ![j] = @ \cup {view[j]}]
    /\ UNCHANGED <<view, held>>

Next ==
    \/ \E j \in Jobs : Register(j) \/ Hold(j) \/ Begin(j) \/ Finish(j) \/ Notify(j)
    \/ \E D \in SUBSET Jobs : Discard(D)

Spec == Init /\ [][Next]_contractVars
=============================================================================

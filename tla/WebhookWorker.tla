---------------------------- MODULE WebhookWorker ---------------------------
(***************************************************************************)
(* The worker on webhook-delivery (workers/webhook.py, deliver_webhook)    *)
(* and the endpoint of the tenant it calls.                                *)
(***************************************************************************)
EXTENDS RqQueues

CONSTANT HookWorkers

VARIABLES
    hookPc,     \* where the execution of the worker is
    hookJob,    \* its argument (meaningless when idle)
    hookLeft,   \* RQ's retries_left of the execution
    hookBody,   \* status in the payload built by the execution
    hookSeen,   \* job.webhook_delivery_attempts when the row was loaded
    told,       \* statuses the endpoint of the tenant received for the job
    sends       \* number of requests that reached the endpoint

hookVars     == <<hookPc, hookJob, hookLeft, hookBody, hookSeen>>
endpointVars == <<told, sends>>

HookState == {"idle", "taken", "prepared", "counted", "sent"}

HookTypeOK ==
    /\ hookPc   \in [HookWorkers -> HookState]
    /\ hookJob  \in [HookWorkers -> Jobs]
    /\ hookLeft \in [HookWorkers -> 0 .. MaxRetries]
    /\ hookBody \in [HookWorkers -> JobStatus \cup {NoRow}]
    /\ hookSeen \in [HookWorkers -> Nat]
    /\ told     \in [Jobs -> SUBSET (JobStatus \cup {NoRow})]
    /\ sends    \in [Jobs -> Nat]

HookInit ==
    /\ hookPc   = [h \in HookWorkers |-> "idle"]
    /\ hookJob  \in [HookWorkers -> Jobs]
    /\ hookLeft = [h \in HookWorkers |-> 0]
    /\ hookBody = [h \in HookWorkers |-> NoRow]
    /\ hookSeen = [h \in HookWorkers |-> 0]
    /\ told     = [j \in Jobs |-> {}]
    /\ sends    = [j \in Jobs |-> 0]

MoveHook(h, from, to) ==
    /\ hookPc[h] = from
    /\ hookPc' = [hookPc EXCEPT ![h] = to]

Current(h) == [job |-> hookJob[h], left |-> hookLeft[h]]

\* The request reaches the endpoint, which reads the body of h.
Receive(h) ==
    /\ told'  = [told  EXCEPT ![hookJob[h]] = @ \cup {hookBody[h]}]
    /\ sends' = [sends EXCEPT ![hookJob[h]] = @ + 1]

\* RQ takes the next delivery and starts deliver_webhook.
TakeDelivery(h) ==
    /\ MoveHook(h, "idle", "taken")
    /\ take_delivery
    /\ hookJob'  = [hookJob  EXCEPT ![h] = Head(hookQ).job]
    /\ hookLeft' = [hookLeft EXCEPT ![h] = Head(hookQ).left]
    /\ UNCHANGED <<hookBody, hookSeen, endpointVars, storeVars, ocrQVars>>

\* Row and tenant loaded, callback resolved again, payload built and signed.
\* A delivery without a row is dropped.
PrepareDelivery(h) ==
    LET j == hookJob[h] IN
    /\ MoveHook(h, "taken", IF status[j] = NoRow THEN "idle" ELSE "prepared")
    /\ hookBody' = [hookBody EXCEPT ![h] = status[j]]
    /\ hookSeen' = [hookSeen EXCEPT ![h] = attempts[j]]
    /\ UNCHANGED <<hookJob, hookLeft, endpointVars, storeVars, queueVars>>

\* The row cannot be loaded, resolve_safe_callback raises (the domain left the
\* allowlist or resolves to a blocked address by now) or the secret cannot be
\* decrypted.  The attempt is not counted.
PrepareRaises(h) ==
    /\ MoveHook(h, "taken", "idle")
    /\ retry_or_fail(Current(h))
    /\ UNCHANGED <<hookJob, hookLeft, hookBody, hookSeen, endpointVars,
                   storeVars, ocrQVars>>

\* Mutant: the increment is not committed before the request is sent.
CountAttemptLater(h) ==
    /\ MoveHook(h, "prepared", "counted")
    /\ UNCHANGED <<hookJob, hookLeft, hookBody, hookSeen, endpointVars,
                   storeVars, queueVars>>

\* job.webhook_delivery_attempts += 1; db.commit()
CountAttempt(h) ==
    /\ MoveHook(h, "prepared", "counted")
    /\ set_attempts(hookJob[h], hookSeen[h])
    /\ UNCHANGED <<hookJob, hookLeft, hookBody, hookSeen, endpointVars,
                   file, queueVars>>

\* _send: the endpoint answers below 300.
Send(h) ==
    /\ MoveHook(h, "counted", "sent")
    /\ Receive(h)
    /\ UNCHANGED <<hookJob, hookLeft, hookBody, hookSeen, storeVars, queueVars>>

\* _send raises: no connection, a time-out before or after the endpoint read
\* the request, or an answer of 300 or more.
SendFails(h) ==
    /\ MoveHook(h, "counted", "idle")
    /\ Receive(h) \/ UNCHANGED endpointVars
    /\ retry_or_fail(Current(h))
    /\ UNCHANGED <<hookJob, hookLeft, hookBody, hookSeen, storeVars, ocrQVars>>

\* job.webhook_delivered_at = ...; db.commit()
MarkDelivered(h) ==
    /\ MoveHook(h, "sent", "idle")
    /\ set_delivered(hookJob[h])
    /\ UNCHANGED <<hookJob, hookLeft, hookBody, hookSeen, endpointVars,
                   file, queueVars>>

\* One of the two commits raises, applied or not.
CountRaises(h) ==
    /\ MoveHook(h, "prepared", "idle")
    /\ set_attempts(hookJob[h], hookSeen[h]) \/ UNCHANGED rowVars
    /\ retry_or_fail(Current(h))
    /\ UNCHANGED <<hookJob, hookLeft, hookBody, hookSeen, endpointVars,
                   file, ocrQVars>>

MarkRaises(h) ==
    /\ MoveHook(h, "sent", "idle")
    /\ set_delivered(hookJob[h]) \/ UNCHANGED rowVars
    /\ retry_or_fail(Current(h))
    /\ UNCHANGED <<hookJob, hookLeft, hookBody, hookSeen, endpointVars,
                   file, ocrQVars>>

HookDatabaseRaises(h) == PrepareRaises(h) \/ CountRaises(h) \/ MarkRaises(h)

\* The work horse is killed between two steps or while it sends.
KillHook(h) ==
    /\ hookPc[h] # "idle"
    /\ hookPc' = [hookPc EXCEPT ![h] = "idle"]
    /\ \/ hookPc[h] = "counted" /\ Receive(h)
       \/ UNCHANGED endpointVars
    /\ retry_or_fail(Current(h))
    /\ UNCHANGED <<hookJob, hookLeft, hookBody, hookSeen, storeVars, ocrQVars>>

deliver_webhook(h) ==
    \/ TakeDelivery(h)
    \/ PrepareDelivery(h)
    \/ CountAttempt(h)
    \/ Send(h)
    \/ MarkDelivered(h)
=============================================================================

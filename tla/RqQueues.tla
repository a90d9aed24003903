------------------------------ MODULE RqQueues ------------------------------
(***************************************************************************)
(* The two RQ queues (workers/queue.py): `ocr-jobs` and `webhook-delivery`.*)
(* RQ and Redis are libraries and services outside src/; they are modelled *)
(* from how the code uses them:                                            *)
(*   - enqueue appends to a list, an idle worker takes its head;           *)
(*   - process_document is enqueued without a Retry, so an execution that  *)
(*     raises or dies goes to the failed registry of `ocr-jobs`;           *)
(*   - deliver_webhook is enqueued with Retry(max, interval): an execution *)
(*     that raises or dies is put in the scheduled registry with one retry *)
(*     less, or in the failed registry when none is left;                  *)
(*   - only a worker started with a scheduler moves a scheduled execution  *)
(*     back to its queue;                                                  *)
(*   - Redis runs with allkeys-lru and no append-only file, so a list, the *)
(*     data of one execution or everything may be gone.                    *)
(***************************************************************************)
EXTENDS JobStore, Sequences

CONSTANTS
    MaxRetries,      \* Retry(max = ...) of deliver_webhook
    WithScheduler    \* some worker on webhook-delivery runs the RQ scheduler

ASSUME RetriesAssumption == MaxRetries \in Nat
ASSUME SchedulerAssumption == WithScheduler \in BOOLEAN

VARIABLES
    ocrQ,       \* queue ocr-jobs: job ids
    ocrDead,    \* failed registry of ocr-jobs
    hookQ,      \* queue webhook-delivery: deliveries
    sched,      \* scheduled registry of webhook-delivery
    hookDead    \* failed registry of webhook-delivery

ocrQVars  == <<ocrQ, ocrDead>>
hookQVars == <<hookQ, sched, hookDead>>
queueVars == <<ocrQ, ocrDead, hookQ, sched, hookDead>>

\* One execution of deliver_webhook: its argument and RQ's retries_left.
Delivery == [job : Jobs, left : 0 .. MaxRetries]

QueueTypeOK ==
    /\ ocrQ     \in Seq(Jobs)
    /\ ocrDead  \in SUBSET Jobs
    /\ hookQ    \in Seq(Delivery)
    /\ sched    \in SUBSET Delivery
    /\ hookDead \in SUBSET Jobs

QueueInit ==
    /\ ocrQ     = <<>>
    /\ ocrDead  = {}
    /\ hookQ    = <<>>
    /\ sched    = {}
    /\ hookDead = {}

-----------------------------------------------------------------------------
(* ocr-jobs                                                                *)

enqueue_document(j) ==
    /\ ocrQ' = Append(ocrQ, j)
    /\ UNCHANGED ocrDead

take_document ==
    /\ ocrQ # <<>>
    /\ ocrQ' = Tail(ocrQ)
    /\ UNCHANGED ocrDead

fail_document(j) ==
    /\ ocrDead' = ocrDead \cup {j}
    /\ UNCHANGED ocrQ

-----------------------------------------------------------------------------
(* webhook-delivery                                                        *)

enqueue_delivery(j) ==
    /\ hookQ' = Append(hookQ, [job |-> j, left |-> MaxRetries])
    /\ UNCHANGED <<sched, hookDead>>

take_delivery ==
    /\ hookQ # <<>>
    /\ hookQ' = Tail(hookQ)
    /\ UNCHANGED <<sched, hookDead>>

\* RQ's handle_job_failure, for an exception and for a killed work horse alike.
retry_or_fail(d) ==
    /\ UNCHANGED hookQ
    /\ \/ /\ d.left > 0
          /\ sched' = sched \cup {[job |-> d.job, left |-> d.left - 1]}
          /\ UNCHANGED hookDead
       \/ /\ d.left = 0
          /\ hookDead' = hookDead \cup {d.job}
          /\ UNCHANGED sched

\* The retry interval of d has passed and the scheduler sees it.  The intervals
\* differ, so deliveries leave the registry in any order.
Promote(d) ==
    /\ WithScheduler
    /\ d \in sched
    /\ sched' = sched \ {d}
    /\ hookQ' = Append(hookQ, d)
    /\ UNCHANGED <<ocrQVars, hookDead>>

-----------------------------------------------------------------------------
(* Losing what Redis holds                                                 *)

\* A restart without persistence, or the eviction of the key of a queue or of
\* the scheduled registry.
LoseKeys ==
    /\ ocrQ'  \in {ocrQ, <<>>}
    /\ hookQ' \in {hookQ, <<>>}
    /\ sched' \in {sched, {}}
    /\ UNCHANGED <<ocrDead, hookDead>>

\* The data of the execution at the head of a queue was evicted: the worker
\* that takes it finds nothing to run and goes on.
LoseHead ==
    \/ take_document /\ UNCHANGED hookQVars
    \/ take_delivery /\ UNCHANGED ocrQVars
=============================================================================

---------------------------- MODULE DeliveryProofs --------------------------
(***************************************************************************)
(* Theorems about the webhook half of OcrEngine, for every set of jobs and *)
(* workers, every number of retries and every set of Faults: executions of *)
(* a job never overlap, and the attempt counter accounts for the requests. *)
(***************************************************************************)
EXTENDS OcrEngineDelivery, OcrEngineProofs, FiniteSetTheorems

\* The types the lemmas below use.
LEMMA DeliveryTypes ==
    ASSUME TypeOK
    PROVE  /\ hookQ \in Seq(Delivery) /\ Len(hookQ) \in Nat
           /\ \A i \in 1 .. Len(hookQ) : hookQ[i] \in Delivery
           /\ \A d \in Delivery : d.job \in Jobs /\ d.left \in Nat
           /\ sched \in SUBSET Delivery
           /\ hookPc \in [HookWorkers -> HookState] /\ hookJob \in [HookWorkers -> Jobs]
           /\ hookLeft \in [HookWorkers -> Nat] /\ hookSeen \in [HookWorkers -> Nat]
           /\ attempts \in [Jobs -> Nat] /\ sends \in [Jobs -> Nat]
           /\ delivered \in [Jobs -> BOOLEAN]
           /\ ocrPc \in [OcrWorkers -> OcrState] /\ ocrJob \in [OcrWorkers -> Jobs]
           /\ MaxRetries \in Nat
  <1>1. \A d \in Delivery : d.job \in Jobs /\ d.left \in Nat
    BY RetriesAssumption DEF Delivery
  <1>2. hookLeft \in [HookWorkers -> Nat]
    BY RetriesAssumption DEF TypeOK, HookTypeOK
  <1> QED
    BY <1>1, <1>2, RetriesAssumption
    DEF TypeOK, StoreTypeOK, QueueTypeOK, OcrTypeOK, HookTypeOK

-----------------------------------------------------------------------------
(* Steps that touch no delivery                                            *)

\* A step of a request or of ocr-jobs that announces nothing and takes no final
\* status back keeps deliveries and counters.
LEMMA QuietStep ==
    ASSUME IInv, OneDelivery,
           UNCHANGED <<hookQ, sched, hookPc, hookJob, hookLeft, hookSeen>>,
           UNCHANGED <<attempts, sends, delivered>>,
           \A j \in Jobs : status'[j] \notin Final => status[j] \notin Final,
           \A w \in OcrWorkers : ocrPc'[w] = "enqueue" =>
              /\ ocrJob'[w] = ocrJob[w]
              /\ ocrPc[w] = "enqueue" \/ status[ocrJob[w]] \notin Final
    PROVE  OneDelivery'
  <1>1. OnceInv' /\ AttemptsAccountForSends'
    BY DEF OneDelivery, OnceInv, AttemptsAccountForSends, Busy
  <1>2. CountInv'
    BY DEF OneDelivery, CountInv
  <1>3. \A w \in OcrWorkers : ocrJob[w] \in Jobs
    BY DEF IInv, TypeOK, OcrTypeOK
  <1>4. FirstCountInv'
    BY <1>3 DEF OneDelivery, FirstCountInv
  <1>5. UnannouncedInv'
    BY DEF OneDelivery, UnannouncedInv, IInv, DeliveryInv, Busy
  <1> QED
    BY <1>1, <1>2, <1>4, <1>5 DEF OneDelivery

\* Deliveries that disappear from Redis disturb nobody.
LEMMA LossStep ==
    ASSUME IInv, OneDelivery, sched' \subseteq sched,
           hookQ' = hookQ \/ hookQ' = <<>> \/ (hookQ # <<>> /\ hookQ' = Tail(hookQ)),
           UNCHANGED <<hookPc, hookJob, hookLeft, hookSeen, ocrPc, ocrJob>>,
           UNCHANGED <<status, attempts, sends, delivered>>
    PROVE  OneDelivery'
  <1>1. hookQ \in Seq(Delivery)
    BY DEF IInv, TypeOK, QueueTypeOK
  <1>2. PICK s \in {0, 1} : \A i \in 1 .. Len(hookQ') :
          i + s \in 1 .. Len(hookQ) /\ hookQ'[i] = hookQ[i + s]
    <2>1. CASE hookQ' = hookQ
      <3>1. \A i \in 1 .. Len(hookQ') : i + 0 \in 1 .. Len(hookQ) /\ hookQ'[i] = hookQ[i + 0]
        BY <1>1, <2>1
      <3> QED
        BY <3>1
    <2>2. CASE hookQ' = <<>>
      BY <2>2
    <2>3. CASE hookQ # <<>> /\ hookQ' = Tail(hookQ)
      <3>1. \A i \in 1 .. Len(hookQ') : i + 1 \in 1 .. Len(hookQ) /\ hookQ'[i] = hookQ[i + 1]
        BY <1>1, <2>3, TailFacts
      <3> QED
        BY <3>1
    <2> QED
      BY <2>1, <2>2, <2>3
  <1>3. OnceInv'
    <2>1. \A i, k \in 1 .. Len(hookQ') : hookQ'[i].job = hookQ'[k].job => i = k
      <3> SUFFICES ASSUME NEW i \in 1 .. Len(hookQ'), NEW k \in 1 .. Len(hookQ'),
                          hookQ'[i].job = hookQ'[k].job
                   PROVE  i = k
        OBVIOUS
      <3>1. i + s = k + s
        BY <1>2 DEF OneDelivery, OnceInv
      <3> QED
        BY <3>1
    <2> QED
      BY <1>2, <2>1 DEF OneDelivery, OnceInv, Busy
  <1>4. UnannouncedInv' /\ FirstCountInv' /\ AttemptsAccountForSends'
    BY <1>2 DEF OneDelivery, UnannouncedInv, FirstCountInv, AttemptsAccountForSends, Busy
  <1>5. CountInv'
    BY <1>2 DEF OneDelivery, CountInv
  <1> QED
    BY <1>3, <1>4, <1>5 DEF OneDelivery

-----------------------------------------------------------------------------
(* Steps of the one worker that holds the delivery                         *)

\* A worker that ends an execution, with a retry or without, hands the job to
\* the scheduled registry at most.
LEMMA ReleaseStep ==
    ASSUME IInv, OneDelivery, NEW h \in HookWorkers, Busy(h),
           NEW a \in Nat, NEW s \in Nat, NEW done \in BOOLEAN,
           UNCHANGED <<hookQ, hookJob, hookLeft, hookSeen, ocrPc, ocrJob, status>>,
           hookPc' = [hookPc EXCEPT ![h] = "idle"],
           \/ sched' = sched
           \/ /\ hookLeft[h] > 0
              /\ sched' = sched \cup {[job |-> hookJob[h], left |-> hookLeft[h] - 1]},
           attempts' = [attempts EXCEPT ![hookJob[h]] = a],
           sends' = [sends EXCEPT ![hookJob[h]] = s],
           delivered' = [delivered EXCEPT ![hookJob[h]] = done],
           a + hookLeft[h] <= MaxRetries + 1, s <= a, done => s > 0
    PROVE  OneDelivery'
  <1>0. TypeOK
    BY DEF IInv
  <1>1. \A d \in sched' : d \in sched \/
          (d.job = hookJob[h] /\ d.left \in Nat /\ d.left + 1 = hookLeft[h]
             /\ \A e \in sched' : e \notin sched => e = d)
    BY <1>0, DeliveryTypes
  <1>2. OnceInv'
    <2>1. \A g \in HookWorkers : Busy(g)' <=> Busy(g) /\ g # h
      BY <1>0, DeliveryTypes DEF Busy
    <2>2. \A d, e \in sched' : d.job = e.job => d = e
      <3>1. \A d \in sched : d.job # hookJob[h]
        BY DEF OneDelivery, OnceInv
      <3> QED
        BY <1>1, <3>1 DEF OneDelivery, OnceInv
    <2>3. \A i \in 1 .. Len(hookQ) : \A d \in sched' : hookQ[i].job # d.job
      BY <1>1 DEF OneDelivery, OnceInv
    <2>4. \A d \in sched' : \A g \in HookWorkers : Busy(g) /\ g # h => d.job # hookJob[g]
      BY <1>1 DEF OneDelivery, OnceInv
    <2> QED
      BY <2>1, <2>2, <2>3, <2>4 DEF OneDelivery, OnceInv
  <1>3. UnannouncedInv'
    BY <1>0, <1>1, DeliveryTypes DEF OneDelivery, UnannouncedInv, Busy
  <1>4. CountInv'
    <2>1. \A i \in 1 .. Len(hookQ) : attempts'[hookQ[i].job] = attempts[hookQ[i].job]
      BY <1>0, DeliveryTypes DEF OneDelivery, OnceInv
    <2>2. \A d \in sched' : attempts'[d.job] + d.left <= MaxRetries
      BY <1>0, <1>1, DeliveryTypes DEF OneDelivery, OnceInv, CountInv
    <2>3. \A g \in HookWorkers : g # h /\ Busy(g) =>
            /\ attempts'[hookJob[g]] = attempts[hookJob[g]]
            /\ sends'[hookJob[g]] = sends[hookJob[g]]
      BY <1>0, DeliveryTypes DEF OneDelivery, OnceInv
    <2> QED
      BY <1>0, <2>1, <2>2, <2>3, DeliveryTypes DEF OneDelivery, CountInv, Busy
  <1>5. FirstCountInv'
    BY <1>0, DeliveryTypes
    DEF OneDelivery, FirstCountInv, UnannouncedInv, IInv, DeliveryInv, Busy
  <1>6. AttemptsAccountForSends'
    BY <1>0, DeliveryTypes DEF OneDelivery, AttemptsAccountForSends
  <1> QED
    BY <1>2, <1>3, <1>4, <1>5, <1>6 DEF OneDelivery

\* A worker that goes on with its execution counts and sends for its job only.
LEMMA InPlaceStep ==
    ASSUME IInv, OneDelivery, NEW h \in HookWorkers, Busy(h),
           NEW p \in {"prepared", "counted", "sent"}, NEW a \in Nat, NEW s \in Nat,
           UNCHANGED <<hookQ, sched, hookJob, hookLeft, ocrPc, ocrJob, status, delivered>>,
           hookPc' = [hookPc EXCEPT ![h] = p],
           \A g \in HookWorkers : g # h => hookSeen'[g] = hookSeen[g],
           attempts' = [attempts EXCEPT ![hookJob[h]] = a],
           sends' = [sends EXCEPT ![hookJob[h]] = s],
           sends[hookJob[h]] <= s, s <= a, a + hookLeft[h] <= MaxRetries + 1,
           p = "prepared" => a + hookLeft[h] <= MaxRetries /\ hookSeen'[h] = a,
           p = "counted" => s < a,
           p = "sent" => s > 0
    PROVE  OneDelivery'
  <1>0. TypeOK
    BY DEF IInv
  <1>1. \A g \in HookWorkers : hookPc'[g] # "idle" <=> Busy(g)
    BY <1>0, DeliveryTypes DEF Busy
  <1>2. OnceInv' /\ UnannouncedInv'
    BY <1>1 DEF OneDelivery, OnceInv, UnannouncedInv, Busy
  <1>3. CountInv'
    <2>1. \A i \in 1 .. Len(hookQ) : attempts'[hookQ[i].job] = attempts[hookQ[i].job]
      BY <1>0, DeliveryTypes DEF OneDelivery, OnceInv
    <2>2. \A d \in sched : attempts'[d.job] = attempts[d.job]
      BY <1>0, DeliveryTypes DEF OneDelivery, OnceInv
    <2>3. \A g \in HookWorkers : g # h /\ Busy(g) =>
            /\ attempts'[hookJob[g]] = attempts[hookJob[g]]
            /\ sends'[hookJob[g]] = sends[hookJob[g]]
      BY <1>0, DeliveryTypes DEF OneDelivery, OnceInv
    <2>4. /\ \A i \in 1 .. Len(hookQ') : attempts'[hookQ'[i].job] + hookQ'[i].left <= MaxRetries
          /\ \A d \in sched' : attempts'[d.job] + d.left <= MaxRetries
      BY <2>1, <2>2 DEF OneDelivery, CountInv
    <2>5. attempts'[hookJob[h]] = a /\ sends'[hookJob[h]] = s /\ hookPc'[h] = p
      BY <1>0, DeliveryTypes
    <2>6. ASSUME NEW g \in HookWorkers, g # h
          PROVE  /\ hookPc'[g] = hookPc[g] /\ hookSeen'[g] = hookSeen[g]
                 /\ hookPc[g] # "idle" =>
                      /\ attempts'[hookJob[g]] = attempts[hookJob[g]]
                      /\ sends'[hookJob[g]] = sends[hookJob[g]]
      BY <1>0, <2>3, <2>6, DeliveryTypes DEF Busy
    <2> QED
      BY <2>4, <2>5, <2>6 DEF OneDelivery, CountInv
  <1>4. FirstCountInv'
    BY <1>0, DeliveryTypes
    DEF OneDelivery, FirstCountInv, UnannouncedInv, IInv, DeliveryInv, Busy
  <1>5. AttemptsAccountForSends'
    BY <1>0, DeliveryTypes DEF OneDelivery, AttemptsAccountForSends
  <1> QED
    BY <1>2, <1>3, <1>4, <1>5 DEF OneDelivery

-----------------------------------------------------------------------------
(* Steps that move a delivery                                              *)

\* The delivery of a job that has no other one is put at the end of the queue, by
\* the execution that announces it or by the scheduler.
LEMMA AppendStep ==
    ASSUME IInv, OneDelivery, NEW e \in Delivery,
           UNCHANGED <<hookPc, hookJob, hookLeft, hookSeen, ocrJob>>,
           UNCHANGED <<status, attempts, sends, delivered>>,
           hookQ' = Append(hookQ, e), sched' \subseteq sched,
           \A i \in 1 .. Len(hookQ) : hookQ[i].job # e.job,
           \A d \in sched' : d.job # e.job,
           \A h \in HookWorkers : Busy(h) => hookJob[h] # e.job,
           \A w \in OcrWorkers : ocrPc'[w] = "enqueue" =>
              ocrPc[w] = "enqueue" /\ ocrJob[w] # e.job,
           attempts[e.job] + e.left <= MaxRetries
    PROVE  OneDelivery'
  <1>1. hookQ \in Seq(Delivery)
    BY DEF IInv, TypeOK, QueueTypeOK
  <1>2. /\ Len(hookQ) \in Nat /\ Len(hookQ') = Len(hookQ) + 1
        /\ \A i \in 1 .. Len(hookQ') :
             \/ i \in 1 .. Len(hookQ) /\ hookQ'[i] = hookQ[i]
             \/ i = Len(hookQ) + 1 /\ hookQ'[i] = e
    BY <1>1, AppendFacts
  <1>3. OnceInv'
    <2>1. \A i, k \in 1 .. Len(hookQ') : hookQ'[i].job = hookQ'[k].job => i = k
      BY <1>2 DEF OneDelivery, OnceInv
    <2>2. \A i \in 1 .. Len(hookQ') : \A d \in sched' : hookQ'[i].job # d.job
      BY <1>2 DEF OneDelivery, OnceInv
    <2>3. \A i \in 1 .. Len(hookQ') : \A h \in HookWorkers : Busy(h) => hookQ'[i].job # hookJob[h]
      BY <1>2 DEF OneDelivery, OnceInv
    <2> QED
      BY <2>1, <2>2, <2>3 DEF OneDelivery, OnceInv, Busy
  <1>4. UnannouncedInv'
    BY <1>2 DEF OneDelivery, UnannouncedInv, Busy
  <1>5. CountInv'
    <2>1. \A i \in 1 .. Len(hookQ') : attempts[hookQ'[i].job] + hookQ'[i].left <= MaxRetries
      BY <1>2 DEF OneDelivery, CountInv
    <2> QED
      BY <2>1 DEF OneDelivery, CountInv
  <1>6. FirstCountInv' /\ AttemptsAccountForSends'
    BY DEF OneDelivery, FirstCountInv, AttemptsAccountForSends
  <1> QED
    BY <1>3, <1>4, <1>5, <1>6 DEF OneDelivery

\* An idle worker takes the delivery at the head of the queue.
LEMMA TakeStep ==
    ASSUME IInv, OneDelivery, NEW h \in HookWorkers, hookPc[h] = "idle",
           UNCHANGED <<sched, hookSeen, ocrPc, ocrJob, status, attempts, sends, delivered>>,
           hookQ # <<>>, hookQ' = Tail(hookQ),
           hookPc' = [hookPc EXCEPT ![h] = "taken"],
           hookJob' = [hookJob EXCEPT ![h] = Head(hookQ).job],
           hookLeft' = [hookLeft EXCEPT ![h] = Head(hookQ).left]
    PROVE  OneDelivery'
  <1>0. TypeOK
    BY DEF IInv
  <1>1. hookQ \in Seq(Delivery)
    BY <1>0, DeliveryTypes
  <1>2. /\ Len(hookQ) \in Nat \ {0} /\ Head(hookQ) = hookQ[1] /\ Len(hookQ') = Len(hookQ) - 1
        /\ \A i \in 1 .. Len(hookQ') :
             i + 1 \in 1 .. Len(hookQ) /\ i + 1 # 1 /\ hookQ'[i] = hookQ[i + 1]
    BY <1>1, TailFacts
  <1>3. 1 \in 1 .. Len(hookQ)
    BY <1>2
  <1>4. /\ hookPc'[h] = "taken" /\ hookJob'[h] = hookQ[1].job /\ hookLeft'[h] = hookQ[1].left
        /\ \A g \in HookWorkers : g # h =>
             /\ hookPc'[g] = hookPc[g] /\ hookJob'[g] = hookJob[g]
             /\ hookLeft'[g] = hookLeft[g]
    BY <1>0, <1>2, DeliveryTypes
  <1>5. \A g \in HookWorkers : hookPc'[g] # "idle" <=> (g = h \/ Busy(g))
    BY <1>4 DEF Busy
  \* What the queue says of the head it now says of the worker.
  <1>6. /\ \A i \in 1 .. Len(hookQ') : hookQ'[i].job # hookQ[1].job
        /\ \A d \in sched : d.job # hookQ[1].job
        /\ \A g \in HookWorkers : Busy(g) => hookJob[g] # hookQ[1].job
    BY <1>2, <1>3 DEF OneDelivery, OnceInv
  <1>7. OnceInv'
    <2>1. \A i, k \in 1 .. Len(hookQ') : hookQ'[i].job = hookQ'[k].job => i = k
      <3> SUFFICES ASSUME NEW i \in 1 .. Len(hookQ'), NEW k \in 1 .. Len(hookQ'),
                          hookQ'[i].job = hookQ'[k].job
                   PROVE  i = k
        OBVIOUS
      <3>1. i + 1 = k + 1
        BY <1>2 DEF OneDelivery, OnceInv
      <3> QED
        BY <3>1
    <2>2. \A f, g \in HookWorkers :
            hookPc'[f] # "idle" /\ hookPc'[g] # "idle" /\ hookJob'[f] = hookJob'[g] => f = g
      BY <1>4, <1>5, <1>6 DEF OneDelivery, OnceInv
    <2>3. \A i \in 1 .. Len(hookQ') : \A d \in sched' : hookQ'[i].job # d.job
      BY <1>2 DEF OneDelivery, OnceInv
    <2>4. \A i \in 1 .. Len(hookQ') : \A g \in HookWorkers :
            hookPc'[g] # "idle" => hookQ'[i].job # hookJob'[g]
      BY <1>2, <1>4, <1>5, <1>6 DEF OneDelivery, OnceInv
    <2>5. \A d \in sched' : \A g \in HookWorkers : hookPc'[g] # "idle" => d.job # hookJob'[g]
      BY <1>4, <1>5, <1>6 DEF OneDelivery, OnceInv
    <2>6. \A d, e \in sched' : d.job = e.job => d = e
      BY DEF OneDelivery, OnceInv
    <2> QED
      BY <2>1, <2>2, <2>3, <2>4, <2>5, <2>6 DEF OnceInv, Busy
  <1>8. UnannouncedInv'
    <2> SUFFICES ASSUME NEW w \in OcrWorkers, ocrPc[w] = "enqueue"
                 PROVE  /\ \A i \in 1 .. Len(hookQ') : hookQ'[i].job # ocrJob[w]
                        /\ \A d \in sched : d.job # ocrJob[w]
                        /\ \A g \in HookWorkers : hookPc'[g] # "idle" => hookJob'[g] # ocrJob[w]
      BY DEF UnannouncedInv, Busy
    <2>1. /\ \A i \in 1 .. Len(hookQ) : hookQ[i].job # ocrJob[w]
          /\ \A d \in sched : d.job # ocrJob[w]
          /\ \A g \in HookWorkers : Busy(g) => hookJob[g] # ocrJob[w]
      BY DEF OneDelivery, UnannouncedInv
    <2>2. \A i \in 1 .. Len(hookQ') : hookQ'[i].job # ocrJob[w]
      BY <1>2, <2>1
    <2>3. \A g \in HookWorkers : hookPc'[g] # "idle" => hookJob'[g] # ocrJob[w]
      BY <1>3, <1>4, <1>5, <2>1
    <2> QED
      BY <2>1, <2>2, <2>3
  <1>9. CountInv'
    <2>1. \A i \in 1 .. Len(hookQ') : attempts[hookQ'[i].job] + hookQ'[i].left <= MaxRetries
      BY <1>2 DEF OneDelivery, CountInv
    <2>2. attempts[hookQ[1].job] + hookQ[1].left <= MaxRetries
      BY <1>3 DEF OneDelivery, CountInv
    <2> QED
      BY <1>4, <2>1, <2>2 DEF OneDelivery, CountInv
  <1>10. FirstCountInv' /\ AttemptsAccountForSends'
    BY DEF OneDelivery, FirstCountInv, AttemptsAccountForSends
  <1> QED
    BY <1>7, <1>8, <1>9, <1>10 DEF OneDelivery

-----------------------------------------------------------------------------
(* deliver_webhook                                                         *)

\* What the invariants say of the job an execution works on.
LEMMA CurrentCount ==
    ASSUME IInv, OneDelivery, NEW h \in HookWorkers, Busy(h)
    PROVE  LET j == hookJob[h] IN
           /\ j \in Jobs /\ status[j] # NoRow
           /\ attempts[j] \in Nat /\ sends[j] \in Nat /\ delivered[j] \in BOOLEAN
           /\ hookLeft[h] \in Nat
           /\ attempts[j] + hookLeft[h] <= MaxRetries + 1
           /\ hookPc[h] \in {"taken", "prepared"} => attempts[j] + hookLeft[h] <= MaxRetries
           /\ hookPc[h] = "prepared" => hookSeen[h] = attempts[j]
           /\ sends[j] <= attempts[j]
           /\ hookPc[h] = "counted" => sends[j] < attempts[j]
           /\ hookPc[h] = "sent" => sends[j] > 0
           /\ delivered[j] => sends[j] > 0
  <1>1. TypeOK
    BY DEF IInv
  <1>2. hookJob[h] \in Jobs /\ hookPc[h] \in {"taken", "prepared", "counted", "sent"}
    BY <1>1, DeliveryTypes DEF HookState, Busy
  <1>3. status[hookJob[h]] # NoRow
    BY DEF IInv, DeliveryInv, Final, NoRow, Busy
  <1> QED
    BY <1>1, <1>2, <1>3, DeliveryTypes DEF OneDelivery, CountInv, AttemptsAccountForSends

\* No step of an execution, ended by whatever failure, makes a second delivery of a
\* job or loses count of its requests.
LEMMA HookDelivery ==
    ASSUME IInv, OneDelivery, NEW h \in HookWorkers, hookFrame,
           \/ deliver_webhook(h) \/ PrepareRaises(h) \/ SendFails(h)
           \/ HookDatabaseRaises(h) \/ KillHook(h)
    PROVE  OneDelivery'
  <1> DEFINE j == hookJob[h]
  <1>0. TypeOK /\ UNCHANGED <<status, ocrPc, ocrJob>>
    BY HookFrame DEF IInv
  <1>1. /\ UNCHANGED attempts => attempts' = [attempts EXCEPT ![j] = attempts[j]]
        /\ UNCHANGED sends => sends' = [sends EXCEPT ![j] = sends[j]]
        /\ UNCHANGED delivered => delivered' = [delivered EXCEPT ![j] = delivered[j]]
    BY <1>0, DeliveryTypes
  <1>2. retry_or_fail(Current(h)) =>
          /\ hookQ' = hookQ
          /\ \/ sched' = sched
             \/ /\ hookLeft[h] > 0
                /\ sched' = sched \cup {[job |-> j, left |-> hookLeft[h] - 1]}
    BY DEF retry_or_fail, Current
  \* An execution that ends may have counted or sent before.
  <1>3. ASSUME Busy(h), hookPc' = [hookPc EXCEPT ![h] = "idle"],
               UNCHANGED <<hookJob, hookLeft, hookSeen>>,
               retry_or_fail(Current(h)) \/ UNCHANGED <<hookQ, sched>>,
               \/ UNCHANGED attempts
               \/ hookPc[h] = "prepared" /\ attempts' = [attempts EXCEPT ![j] = hookSeen[h] + 1],
               \/ UNCHANGED sends
               \/ hookPc[h] = "counted" /\ sends' = [sends EXCEPT ![j] = sends[j] + 1],
               \/ UNCHANGED delivered
               \/ hookPc[h] = "sent" /\ delivered' = [delivered EXCEPT ![j] = TRUE]
        PROVE  OneDelivery'
    <2> USE <1>3, CurrentCount
    <2>1. PICK a \in Nat : /\ attempts' = [attempts EXCEPT ![j] = a]
                           /\ a + hookLeft[h] <= MaxRetries + 1 /\ attempts[j] <= a
      <3>1. CASE UNCHANGED attempts
        <4>1. /\ attempts[j] \in Nat /\ attempts' = [attempts EXCEPT ![j] = attempts[j]]
              /\ attempts[j] + hookLeft[h] <= MaxRetries + 1 /\ attempts[j] <= attempts[j]
          BY <1>1, <3>1
        <4> QED
          BY <4>1
      <3>2. CASE /\ hookPc[h] = "prepared"
                 /\ attempts' = [attempts EXCEPT ![j] = hookSeen[h] + 1]
        <4> DEFINE c == hookSeen[h] + 1
        <4>1. c \in Nat /\ c + hookLeft[h] <= MaxRetries + 1 /\ attempts[j] <= c
          BY <3>2, RetriesAssumption
        <4> QED
          BY <3>2, <4>1
      <3> QED
        BY <3>1, <3>2
    <2>2. PICK s \in Nat : /\ sends' = [sends EXCEPT ![j] = s]
                           /\ s <= attempts[j] /\ sends[j] <= s
      <3>1. CASE UNCHANGED sends
        <4>1. /\ sends[j] \in Nat /\ sends' = [sends EXCEPT ![j] = sends[j]]
              /\ sends[j] <= attempts[j] /\ sends[j] <= sends[j]
          BY <1>1, <3>1
        <4> QED
          BY <4>1
      <3>2. CASE hookPc[h] = "counted" /\ sends' = [sends EXCEPT ![j] = sends[j] + 1]
        <4> DEFINE c == sends[j] + 1
        <4>1. c \in Nat /\ c <= attempts[j] /\ sends[j] <= c
          BY <3>2
        <4> QED
          BY <3>2, <4>1
      <3> QED
        BY <3>1, <3>2
    <2>3. PICK done \in BOOLEAN : /\ delivered' = [delivered EXCEPT ![j] = done]
                                  /\ done => sends[j] > 0
      BY <1>1
    <2>4. s <= a /\ (done => s > 0)
      BY <2>1, <2>2, <2>3
    <2>5. /\ UNCHANGED hookQ
          /\ \/ sched' = sched
             \/ /\ hookLeft[h] > 0
                /\ sched' = sched \cup {[job |-> j, left |-> hookLeft[h] - 1]}
      BY <1>2
    <2> QED
      BY <1>0, <2>1, <2>2, <2>3, <2>4, <2>5, ReleaseStep
  <1> HIDE DEF j
  <1> USE DEF MoveHook, storeVars, rowVars, queueVars, hookQVars, endpointVars, Busy
  <1>4. CASE TakeDelivery(h)
    BY <1>0, <1>4, TakeStep DEF TakeDelivery, take_delivery
  <1>5. CASE PrepareDelivery(h)
    <2>1. /\ hookPc[h] = "taken" /\ hookPc' = [hookPc EXCEPT ![h] = "prepared"]
          /\ hookSeen' = [hookSeen EXCEPT ![h] = attempts[j]]
          /\ UNCHANGED <<hookQ, sched, hookJob, hookLeft, attempts, sends, delivered>>
      BY <1>5, CurrentCount DEF PrepareDelivery, j
    <2>2. /\ hookSeen'[h] = attempts[j]
          /\ \A g \in HookWorkers : g # h => hookSeen'[g] = hookSeen[g]
      BY <1>0, <2>1, DeliveryTypes
    <2>3. /\ attempts[j] \in Nat /\ sends[j] \in Nat
          /\ sends[j] <= sends[j] /\ sends[j] <= attempts[j]
          /\ attempts[j] + hookLeft[h] <= MaxRetries
          /\ attempts[j] + hookLeft[h] <= MaxRetries + 1
      BY <2>1, CurrentCount, RetriesAssumption DEF j
    <2>4. /\ attempts' = [attempts EXCEPT ![j] = attempts[j]]
          /\ sends' = [sends EXCEPT ![j] = sends[j]]
      BY <1>1, <2>1
    <2> QED
      BY <1>0, <2>1, <2>2, <2>3, <2>4, InPlaceStep DEF j
  <1>6. CASE CountAttempt(h)
    <2>1. /\ hookPc[h] = "prepared" /\ hookPc' = [hookPc EXCEPT ![h] = "counted"]
          /\ attempts' = [attempts EXCEPT ![j] = attempts[j] + 1]
          /\ UNCHANGED <<hookQ, sched, hookJob, hookLeft, hookSeen, sends, delivered>>
      BY <1>6, CurrentCount DEF CountAttempt, set_attempts, j
    <2> DEFINE a == attempts[j] + 1
    <2>2. /\ a \in Nat /\ sends[j] \in Nat /\ sends[j] <= a /\ sends[j] < a
          /\ a + hookLeft[h] <= MaxRetries + 1
      BY <2>1, CurrentCount, RetriesAssumption DEF j
    <2> HIDE DEF a
    <2>3. /\ attempts' = [attempts EXCEPT ![j] = a]
          /\ sends' = [sends EXCEPT ![j] = sends[j]] /\ sends[j] <= sends[j]
      BY <1>1, <2>1, <2>2 DEF a
    <2> QED
      BY <1>0, <2>1, <2>2, <2>3, InPlaceStep DEF j
  <1>7. CASE Send(h)
    <2>1. /\ hookPc[h] = "counted" /\ hookPc' = [hookPc EXCEPT ![h] = "sent"]
          /\ sends' = [sends EXCEPT ![j] = sends[j] + 1]
          /\ UNCHANGED <<hookQ, sched, hookJob, hookLeft, hookSeen, attempts, delivered>>
      BY <1>7 DEF Send, Receive, j
    <2> DEFINE s == sends[j] + 1
    <2>2. /\ s \in Nat /\ attempts[j] \in Nat /\ sends[j] <= s /\ s <= attempts[j] /\ s > 0
          /\ attempts[j] + hookLeft[h] <= MaxRetries + 1
      BY <2>1, CurrentCount DEF j
    <2> HIDE DEF s
    <2>3. /\ sends' = [sends EXCEPT ![j] = s]
          /\ attempts' = [attempts EXCEPT ![j] = attempts[j]]
      BY <1>1, <2>1 DEF s
    <2> QED
      BY <1>0, <2>1, <2>2, <2>3, InPlaceStep DEF j
  <1>8. CASE MarkDelivered(h)
    BY <1>3, <1>8 DEF MarkDelivered, set_delivered, j
  <1>9. CASE PrepareRaises(h)
    BY <1>3, <1>9 DEF PrepareRaises, j
  <1>10. CASE SendFails(h)
    BY <1>3, <1>10 DEF SendFails, Receive, j
  <1>11. CASE CountRaises(h)
    BY <1>3, <1>11 DEF CountRaises, set_attempts, j
  <1>12. CASE MarkRaises(h)
    BY <1>3, <1>12 DEF MarkRaises, set_delivered, j
  <1>13. CASE KillHook(h)
    BY <1>3, <1>13 DEF KillHook, Receive, j
  <1> QED
    BY <1>4, <1>5, <1>6, <1>7, <1>8, <1>9, <1>10, <1>11, <1>12, <1>13
    DEF deliver_webhook, HookDatabaseRaises

-----------------------------------------------------------------------------
(* The other processes                                                     *)

\* A request touches no delivery; it inserts a row where there was none.
LEMMA RequestDelivery ==
    ASSUME IInv, OneDelivery, NEW j \in Jobs, apiFrame,
           create_job(j) \/ Reject(j) \/ AbortRequest(j)
    PROVE  OneDelivery'
  <1> USE DEF rowVars, storeVars, queueVars, hookQVars, ocrVars, hookVars, endpointVars, MoveReq
  <1>1. UNCHANGED <<hookQ, sched, hookPc, hookJob, hookLeft, hookSeen, ocrPc, ocrJob, sends>>
    BY DEF apiFrame, create_job, Reject, AbortRequest, InsertJob, SaveUpload, RecordPath,
           EnqueueDocument, InsertAborts, SaveAborts, RecordAborts, EnqueueAborts
  <1>2. UNCHANGED <<attempts, delivered>>
    BY DEF create_job, Reject, AbortRequest, InsertJob, SaveUpload, RecordPath,
           EnqueueDocument, InsertAborts, SaveAborts, RecordAborts, EnqueueAborts,
           insert_job, set_file_path
  <1>3. \A i \in Jobs : status'[i] \notin Final => status[i] \notin Final
    <2>1. CASE UNCHANGED status
      BY <2>1
    <2>2. CASE req[j] = "idle" /\ status' = [status EXCEPT ![j] = "queued"]
      <3>1. status \in [Jobs -> JobStatus \cup {NoRow}] /\ status[j] = NoRow
        BY <2>2 DEF IInv, TypeOK, StoreTypeOK, RequestInv
      <3> QED
        BY <2>2, <3>1 DEF Final, NoRow
    <2> QED
      BY <2>1, <2>2
      DEF create_job, Reject, AbortRequest, InsertJob, SaveUpload, RecordPath,
          EnqueueDocument, InsertAborts, SaveAborts, RecordAborts, EnqueueAborts,
          insert_job, set_file_path
  <1> QED
    BY <1>1, <1>2, <1>3, QuietStep

\* An execution announces the job it has given its result, once.
LEMMA AnnounceStep ==
    ASSUME IInv, OneDelivery, NEW w \in OcrWorkers, ocrPc[w] = "enqueue",
           ocrPc' = [ocrPc EXCEPT ![w] = "idle"], enqueue_delivery(ocrJob[w]),
           UNCHANGED <<hookPc, hookJob, hookLeft, hookSeen, ocrJob>>,
           UNCHANGED <<status, attempts, sends, delivered>>
    PROVE  OneDelivery'
  <1> DEFINE e == [job |-> ocrJob[w], left |-> MaxRetries]
  <1>1. TypeOK
    BY DEF IInv
  <1>2. e \in Delivery /\ e.job = ocrJob[w] /\ e.left = MaxRetries
    BY <1>1, DeliveryTypes DEF Delivery
  <1>3. /\ \A i \in 1 .. Len(hookQ) : hookQ[i].job # e.job
        /\ \A d \in sched : d.job # e.job
        /\ \A h \in HookWorkers : Busy(h) => hookJob[h] # e.job
        /\ attempts[e.job] = 0
    BY <1>2 DEF OneDelivery, UnannouncedInv, FirstCountInv
  <1>4. \A v \in OcrWorkers : ocrPc'[v] = "enqueue" =>
          ocrPc[v] = "enqueue" /\ ocrJob[v] # e.job
    BY <1>1, <1>2, DeliveryTypes DEF IInv, OcrWorkerInv
  <1>5. hookQ' = Append(hookQ, e) /\ sched' = sched
    BY DEF enqueue_delivery
  <1>6. attempts[e.job] + e.left <= MaxRetries
    BY <1>2, <1>3, RetriesAssumption
  <1> HIDE DEF e
  <1> QED
    BY <1>2, <1>3, <1>4, <1>5, <1>6, AppendStep

\* process_document touches no delivery but the one it announces.
LEMMA OcrDelivery ==
    ASSUME IInv, OneDelivery, NEW w \in OcrWorkers, ocrFrame,
           process_document(w) \/ DatabaseRaises(w) \/ KillOcr(w)
    PROVE  OneDelivery'
  <1> DEFINE Quiet == /\ UNCHANGED <<hookQ, sched, attempts, delivered>>
                      /\ \A j \in Jobs : status'[j] \notin Final => status[j] \notin Final
                      /\ \A v \in OcrWorkers : ocrPc'[v] = "enqueue" =>
                           /\ ocrJob'[v] = ocrJob[v]
                           /\ ocrPc[v] = "enqueue" \/ status[ocrJob[v]] \notin Final
  <1>0. UNCHANGED <<hookPc, hookJob, hookLeft, hookSeen, sends>>
    BY DEF ocrFrame, hookVars, endpointVars
  <1>1. Quiet => OneDelivery'
    BY <1>0, QuietStep
  <1>2. /\ ocrPc \in [OcrWorkers -> OcrState] /\ ocrJob \in [OcrWorkers -> Jobs]
        /\ status \in [Jobs -> JobStatus \cup {NoRow}] /\ ocrOutcome[w] \in Final
    BY DEF IInv, TypeOK, OcrTypeOK, StoreTypeOK
  <1>3. /\ ocrPc[w] = "taken" => status[ocrJob[w]] = "queued"
        /\ ocrPc[w] = "saving" => status[ocrJob[w]] = "processing"
    BY DEF IInv, OcrWorkerInv
  <1> USE <1>2, <1>3
      DEF MoveOcr, rowVars, storeVars, queueVars, hookQVars, Final, NoRow,
          set_processing, set_result
  <1>4. CASE TakeDocument(w)
    BY <1>1, <1>4 DEF TakeDocument
  <1>5. CASE StartDocument(w)
    BY <1>1, <1>5 DEF StartDocument
  <1>6. CASE RunPipeline(w) \/ DeleteFiles(w)
    BY <1>1, <1>6 DEF RunPipeline, DeleteFiles
  <1>7. CASE CommitResult(w)
    BY <1>1, <1>7 DEF CommitResult
  <1>8. CASE EnqueueDelivery(w)
    BY <1>0, <1>8, AnnounceStep DEF EnqueueDelivery
  <1>9. CASE StartRaises(w)
    BY <1>1, <1>9 DEF StartRaises
  <1>10. CASE ReloadRaises(w)
    BY <1>1, <1>10 DEF ReloadRaises
  <1>11. CASE ResultRaises(w)
    BY <1>1, <1>11 DEF ResultRaises
  <1>12. CASE KillOcr(w)
    <2>1. CASE ocrPc[w] = "enqueue" /\ enqueue_delivery(ocrJob[w])
      BY <1>0, <1>12, <2>1, AnnounceStep DEF KillOcr
    <2>2. CASE UNCHANGED <<hookQ, sched>>
      BY <1>1, <1>12, <2>2 DEF KillOcr
    <2> QED
      BY <1>12, <2>1, <2>2 DEF KillOcr
  <1> QED
    BY <1>4, <1>5, <1>6, <1>7, <1>8, <1>9, <1>10, <1>11, <1>12
    DEF process_document, DatabaseRaises

-----------------------------------------------------------------------------
(* Theorems                                                                *)

\* Next to IInv, OneDelivery is inductive: every step of the system keeps it.
LEMMA DeliveryStep == IInv /\ OneDelivery /\ [Next]_vars => OneDelivery'
  <1> SUFFICES ASSUME IInv, OneDelivery, [Next]_vars PROVE OneDelivery'
    OBVIOUS
  <1> USE DEF storeVars, rowVars, hookVars, ocrVars, endpointVars, ocrQVars, hookQVars
  <1>1. ASSUME NEW j \in Jobs, HandleRequest(j) \/ RefuseRequest(j) \/ FailRequest(j)
        PROVE  OneDelivery'
    BY <1>1, RequestDelivery DEF HandleRequest, RefuseRequest, FailRequest
  <1>2. ASSUME NEW w \in OcrWorkers, WorkOcr(w) \/ FailOcr(w) PROVE OneDelivery'
    BY <1>2, OcrDelivery DEF WorkOcr, FailOcr
  <1>3. ASSUME NEW h \in HookWorkers, WorkHook(h) \/ FailEndpoint(h) \/ FailHook(h)
        PROVE  OneDelivery'
    BY <1>3, HookDelivery DEF WorkHook, FailEndpoint, FailHook
  <1>4. ASSUME NEW d \in sched, Schedule(d) PROVE OneDelivery'
    <2>1. /\ UNCHANGED <<hookPc, hookJob, hookLeft, hookSeen, ocrPc, ocrJob>>
          /\ UNCHANGED <<status, attempts, sends, delivered>>
          /\ hookQ' = Append(hookQ, d) /\ sched' = sched \ {d}
      BY <1>4 DEF Schedule, Promote, envFrame
    <2>2. d \in Delivery /\ \A w \in OcrWorkers : ocrPc[w] = "enqueue" => ocrJob[w] # d.job
      BY DEF IInv, TypeOK, QueueTypeOK, OneDelivery, UnannouncedInv
    <2>3. /\ \A i \in 1 .. Len(hookQ) : hookQ[i].job # d.job
          /\ \A e \in sched' : e.job # d.job
          /\ \A h \in HookWorkers : Busy(h) => hookJob[h] # d.job
          /\ attempts[d.job] + d.left <= MaxRetries
      BY <2>1 DEF OneDelivery, OnceInv, CountInv
    <2> QED
      BY <2>1, <2>2, <2>3, AppendStep
  <1>5. CASE FailRedis
    <2>1. /\ UNCHANGED <<hookPc, hookJob, hookLeft, hookSeen, ocrPc, ocrJob>>
          /\ UNCHANGED <<status, attempts, sends, delivered>>
      BY <1>5 DEF FailRedis, envFrame
    <2>2. /\ sched' \subseteq sched
          /\ hookQ' = hookQ \/ hookQ' = <<>> \/ (hookQ # <<>> /\ hookQ' = Tail(hookQ))
      BY <1>5 DEF FailRedis, LoseKeys, LoseHead, take_document, take_delivery
    <2> QED
      BY <2>1, <2>2, LossStep
  <1>6. CASE FailStorage
    BY <1>6, QuietStep DEF FailStorage, envFrame, queueVars
  <1>7. CASE UNCHANGED vars
    BY <1>7, QuietStep DEF vars, queueVars
  <1> QED
    BY <1>1, <1>2, <1>3, <1>4, <1>5, <1>6, <1>7 DEF Next, Rest

\* The engine starts without a delivery.
LEMMA DeliveryInit == Init => OneDelivery
  BY RetriesAssumption
  DEF Init, StoreInit, QueueInit, OcrInit, HookInit, OneDelivery, OnceInv, UnannouncedInv,
      CountInv, FirstCountInv, AttemptsAccountForSends, Busy, Final

\* Each job has one delivery at most, in every reachable state.
THEOREM DeliveryInvariance == Spec => [](IInv /\ OneDelivery)
  <1>1. Init => IInv /\ OneDelivery
    BY InvInit, DeliveryInit
  <1>2. IInv /\ OneDelivery /\ [Next]_vars => (IInv /\ OneDelivery)'
    BY InvStep, DeliveryStep
  <1> QED
    BY <1>1, <1>2, PTL DEF Spec

\* Whatever fails, the counter of a job is between the requests its endpoint received
\* and the retries allowed, and a delivery date implies a request (deliver_webhook).
THEOREM AttemptsAccount == Spec => []AttemptsAccountForSends
  <1>1. OneDelivery => AttemptsAccountForSends
    BY DEF OneDelivery
  <1> QED
    BY <1>1, DeliveryInvariance, PTL

\* A set whose members are all equal counts one at most.
LEMMA AtMostOne ==
    ASSUME NEW S, \A x, y \in S : x = y
    PROVE  Cardinality(S) \in {0, 1} /\ (S = {} => Cardinality(S) = 0)
  <1>1. CASE S = {}
    BY <1>1, FS_EmptySet
  <1>2. CASE S # {}
    <2>1. PICK x : S = {x}
      BY <1>2
    <2> QED
      BY <1>2, <2>1, FS_Singleton
  <1> QED
    BY <1>1, <1>2

\* The places of a queue are numbered from 1.
LEMMA QueuePlaces ==
    ASSUME IInv
    PROVE  DOMAIN ocrQ = 1 .. Len(ocrQ) /\ DOMAIN hookQ = 1 .. Len(hookQ)
  BY DEF IInv, TypeOK, QueueTypeOK

\* The document of a job is gone from ocr-jobs when its delivery appears.
LEMMA DocumentThenDelivery ==
    ASSUME IInv, OneDelivery, NEW j \in Jobs, HasDocumentWork(j)
    PROVE  ~HasDeliveryWork(j)
  <1>1. CASE status[j] \notin Final
    BY <1>1, QueuePlaces DEF IInv, DeliveryInv, HasDeliveryWork, DeliverableIn,
                                ScheduledIn, DeliveredBy
  <1>2. CASE status[j] \in Final
    <2>1. QueuedIn(j) = {}
      BY <1>2, QueuePlaces DEF IInv, OcrQueueInv, QueuedIn, Final
    <2>2. PICK w \in OcrWorkers : ocrPc[w] # "idle" /\ ocrJob[w] = j
      BY <2>1 DEF HasDocumentWork, ProcessedBy
    <2>3. ocrPc[w] = "enqueue"
      BY <1>2, <2>2 DEF IInv, TypeOK, OcrTypeOK, OcrState, OcrWorkerInv, Final
    <2> QED
      BY <2>2, <2>3, QueuePlaces
      DEF OneDelivery, UnannouncedInv, HasDeliveryWork, DeliverableIn, ScheduledIn,
          DeliveredBy, Busy
  <1> QED
    BY <1>1, <1>2

\* Whatever fails, a job is never waiting or running twice (process_document,
\* deliver_webhook): this is why the increment of the counter needs no lock.
THEOREM ExecutionsNeverOverlap == Spec => []OneExecution
  <1>1. ASSUME IInv, OneDelivery PROVE OneExecution
    <2> SUFFICES ASSUME NEW j \in Jobs
                 PROVE  Cardinality(QueuedIn(j)) + Cardinality(ProcessedBy(j))
                          + Cardinality(DeliverableIn(j)) + Cardinality(ScheduledIn(j))
                          + Cardinality(DeliveredBy(j)) <= 1
      BY DEF OneExecution
    <2>1. /\ \A x, y \in QueuedIn(j) : x = y
          /\ \A x, y \in ProcessedBy(j) : x = y
          /\ QueuedIn(j) = {} \/ ProcessedBy(j) = {}
      BY <1>1, QueuePlaces DEF IInv, OcrQueueInv, OcrWorkerInv, QueuedIn, ProcessedBy
    <2>2. /\ \A x, y \in DeliverableIn(j) : x = y
          /\ \A x, y \in ScheduledIn(j) : x = y
          /\ \A x, y \in DeliveredBy(j) : x = y
          /\ DeliverableIn(j) = {} \/ ScheduledIn(j) = {}
          /\ DeliverableIn(j) = {} \/ DeliveredBy(j) = {}
          /\ ScheduledIn(j) = {} \/ DeliveredBy(j) = {}
      BY <1>1, QueuePlaces DEF OneDelivery, OnceInv, DeliverableIn, ScheduledIn, DeliveredBy, Busy
    <2>3. QueuedIn(j) \cup ProcessedBy(j) = {} \/
          DeliverableIn(j) \cup ScheduledIn(j) \cup DeliveredBy(j) = {}
      BY <1>1, DocumentThenDelivery DEF HasDocumentWork, HasDeliveryWork
    <2> QED
      BY <2>1, <2>2, <2>3, AtMostOne
  <1> QED
    BY <1>1, DeliveryInvariance, PTL
=============================================================================

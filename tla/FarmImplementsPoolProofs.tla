---------------------- MODULE FarmImplementsPoolProofs ----------------------
(***************************************************************************)
(* The proof, for any number of ranks, particles and evaluations, that the *)
(* task farm implements the work pool: its initial states are the pool's,  *)
(* and under the invariant of TaskFarmProofs every step is a step of the   *)
(* pool or leaves the pool as it is.                                       *)
(***************************************************************************)
EXTENDS FarmImplementsPool, TaskFarmProofs, SequenceTheorems

-----------------------------------------------------------------------------
(* Sequences of items, and of their particles.                             *)

LEMMA UidsType ==
  ASSUME NEW s \in Seq(Item)
  PROVE  /\ Uids(s) \in Seq(Particle) /\ Len(Uids(s)) = Len(s)
         /\ \A k \in 1 .. Len(s) : Uids(s)[k] = s[k].uid
<1>1. Len(s) \in Nat /\ \A k \in 1 .. Len(s) : s[k] \in Item
  BY LenProperties, ElementOfSeq
<1>2. \A k \in 1 .. Len(s) : s[k].uid \in Particle
  BY <1>1 DEF Item
<1>3. Uids(s) \in [1 .. Len(s) -> Particle]
  BY <1>2 DEF Uids
<1>4. Uids(s) \in Seq(Particle)
  BY <1>1, <1>2, IsASeq DEF Uids
<1>5. Len(Uids(s)) = Len(s)
  BY <1>1, <1>3, <1>4, LenProperties
<1>6. \A k \in 1 .. Len(s) : Uids(s)[k] = s[k].uid
  BY DEF Uids
<1> QED BY <1>4, <1>5, <1>6

LEMMA UidsAppend ==
  ASSUME NEW s \in Seq(Item), NEW i \in Item
  PROVE  Uids(Append(s, i)) = Append(Uids(s), i.uid)
<1> DEFINE t == Append(s, i)
           u == Append(Uids(s), i.uid)
<1>1. /\ Len(s) \in Nat /\ Len(t) = Len(s) + 1 /\ t[Len(s) + 1] = i
      /\ \A k \in 1 .. Len(s) : t[k] = s[k]
  BY LenProperties, AppendProperties
<1>2. /\ Uids(s) \in Seq(Particle) /\ Len(Uids(s)) = Len(s)
      /\ \A k \in 1 .. Len(s) : Uids(s)[k] = s[k].uid
  BY UidsType
<1>3. i.uid \in Particle
  BY DEF Item
<1>4. /\ u \in Seq(Particle) /\ Len(u) = Len(s) + 1 /\ u[Len(s) + 1] = i.uid
      /\ \A k \in 1 .. Len(s) : u[k] = s[k].uid
  BY <1>2, <1>3, AppendProperties
<1>5. DOMAIN u = 1 .. Len(s) + 1 /\ u = [k \in DOMAIN u |-> u[k]]
  BY <1>4, LenProperties
<1> HIDE DEF t, u
<1>6. \A k \in 1 .. Len(s) + 1 : t[k].uid = u[k]
  BY <1>1, <1>4
<1>7. Uids(t) = [k \in 1 .. Len(s) + 1 |-> t[k].uid]
  BY <1>1 DEF Uids
<1> QED BY <1>5, <1>6, <1>7 DEF t, u

LEMMA UidsTail ==
  ASSUME NEW s \in Seq(Item), s # <<>>
  PROVE  /\ Uids(s) # <<>> /\ Head(Uids(s)) = Head(s).uid
         /\ Tail(Uids(s)) = Uids(Tail(s))
<1>1. /\ Len(s) \in Nat /\ Len(s) >= 1 /\ Head(s) = s[1]
      /\ Tail(s) \in Seq(Item) /\ Len(Tail(s)) = Len(s) - 1
      /\ \A k \in 1 .. Len(s) - 1 : Tail(s)[k] = s[k + 1]
  BY HeadTailProperties, LenProperties, EmptySeq
<1> DEFINE u == Uids(s)
<1>2. /\ u \in Seq(Particle) /\ Len(u) = Len(s)
      /\ \A k \in 1 .. Len(s) : u[k] = s[k].uid
  BY UidsType
<1> HIDE DEF u
<1>3. u # <<>>
  <2>1. Len(<<>>) = 0
    OBVIOUS
  <2> QED BY <1>1, <1>2, <2>1
<1>4. /\ Head(u) = u[1] /\ Tail(u) \in Seq(Particle) /\ Len(Tail(u)) = Len(s) - 1
      /\ \A k \in 1 .. Len(s) - 1 : Tail(u)[k] = u[k + 1]
  BY <1>2, <1>3, HeadTailProperties
<1> DEFINE tu == Tail(u)
           ts == Tail(s)
<1>5. DOMAIN tu = 1 .. Len(s) - 1 /\ tu = [k \in DOMAIN tu |-> tu[k]]
  BY <1>4, LenProperties
<1>6. \A k \in 1 .. Len(s) - 1 : tu[k] = ts[k].uid
  <2> SUFFICES ASSUME NEW k \in 1 .. Len(s) - 1 PROVE tu[k] = ts[k].uid
    OBVIOUS
  <2>1. k + 1 \in 1 .. Len(s)
    BY <1>1
  <2> QED BY <1>1, <1>2, <1>4, <2>1
<1>7. Uids(ts) = [k \in 1 .. Len(s) - 1 |-> ts[k].uid]
  BY <1>1 DEF Uids
<1> HIDE DEF ts, tu
<1>8. tu = Uids(ts)
  BY <1>5, <1>6, <1>7
<1> QED BY <1>1, <1>2, <1>3, <1>4, <1>8 DEF u, ts, tu

-----------------------------------------------------------------------------
(* The items that wait.                                                    *)

LEMMA EmptyHand == ASSUME TypeOK, item = NULL PROVE Waiting = queue
BY ConcatEmptySeq DEF Waiting, TypeOK

LEMMA FullHand ==
  ASSUME TypeOK, item # NULL
  PROVE  /\ item \in Item /\ Waiting \in Seq(Item) /\ Waiting # <<>>
         /\ Head(Waiting) = item /\ Tail(Waiting) = queue
<1>1. item \in Item /\ queue \in Seq(Item)
  BY DEF TypeOK, ItemOrNull
<1>2. Waiting = <<item>> \o queue
  BY DEF Waiting
<1> HIDE DEF Waiting
<1>3. <<item>> \in Seq(Item) /\ Len(<<item>>) = 1 /\ <<item>>[1] = item
  BY <1>1
<1>4. /\ Waiting \in Seq(Item) /\ Len(Waiting) = Len(queue) + 1 /\ Len(queue) \in Nat
      /\ Waiting[1] = item
      /\ \A k \in 1 .. Len(queue) : Waiting[k + 1] = queue[k]
  <2> DEFINE one == <<item>>
  <2> HIDE DEF one
  <2>1. /\ Waiting \in Seq(Item) /\ Len(Waiting) = Len(one) + Len(queue)
        /\ \A k \in 1 .. Len(one) + Len(queue) :
             Waiting[k] = IF k <= Len(one) THEN one[k] ELSE queue[k - Len(one)]
    BY <1>1, <1>2, <1>3, ConcatProperties DEF one
  <2>2. Len(one) = 1 /\ one[1] = item /\ Len(queue) \in Nat
    BY <1>1, <1>3, LenProperties DEF one
  <2> QED BY <2>1, <2>2
<1>5. Waiting # <<>>
  <2>1. Len(<<>>) = 0
    OBVIOUS
  <2> QED BY <1>4, <2>1
<1>6. /\ Head(Waiting) = Waiting[1] /\ Tail(Waiting) \in Seq(Item)
      /\ Len(Tail(Waiting)) = Len(queue)
      /\ \A k \in 1 .. Len(queue) : Tail(Waiting)[k] = Waiting[k + 1]
  BY <1>4, <1>5, HeadTailProperties
<1>7. Tail(Waiting) = queue
  <2> DEFINE rest == Tail(Waiting)
  <2>1. \A k \in 1 .. Len(queue) : rest[k] = queue[k]
    BY <1>4, <1>6
  <2>2. rest \in Seq(Item) /\ Len(rest) = Len(queue)
    BY <1>6
  <2> HIDE DEF rest
  <2>3. rest = queue
    BY <1>1, <2>1, <2>2, SeqEqual
  <2> QED BY <2>3 DEF rest
<1> QED BY <1>1, <1>4, <1>5, <1>6, <1>7

\* Popping into the hand leaves what waits behind it.
LEMMA PopWaits == ASSUME TypeOK, TypeOK', Pop PROVE Waiting' = queue
<1>1. queue \in Seq(Item)
  BY DEF TypeOK
<1>2. CASE queue = <<>>
  <2>1. item' = NULL /\ queue' = <<>>
    BY <1>2 DEF Pop
  <2> QED BY <1>2, <2>1 DEF Waiting
<1>3. CASE queue # <<>>
  <2>1. item' = Head(queue) /\ queue' = Tail(queue) /\ Head(queue) \in Item
    BY <1>1, <1>3, HeadTailProperties DEF Pop
  <2>2. item' # NULL
    BY <2>1, NullUid
  <2>3. Waiting' = <<Head(queue)>> \o Tail(queue)
    BY <2>1, <2>2 DEF Waiting
  <2>4. <<Head(queue)>> \o Tail(queue) = queue
    BY <1>1, <1>3
  <2> QED BY <2>3, <2>4
<1> QED BY <1>2, <1>3

\* Pushing appends to what waits.
LEMMA PushWaits ==
  ASSUME TypeOK, NEW i \in Item, queue' = Append(queue, i), item' = item
  PROVE  Uids(Waiting)' = Append(Uids(Waiting), i.uid)
<1>1. queue \in Seq(Item)
  BY DEF TypeOK
<1>2. Waiting \in Seq(Item) /\ Waiting' = Append(Waiting, i)
  <2> DEFINE hand == IF item = NULL THEN <<>> ELSE <<item>>
  <2>1. hand \in Seq(Item) /\ hand' = hand
    BY DEF TypeOK, ItemOrNull
  <2>2. Waiting = hand \o queue /\ Waiting' = hand \o Append(queue, i)
    BY DEF Waiting
  <2> HIDE DEF hand
  <2>3. Append(queue, i) = queue \o <<i>> /\ <<i>> \in Seq(Item)
    BY <1>1, AppendIsConcat
  <2>4. hand \o (queue \o <<i>>) = (hand \o queue) \o <<i>>
    BY <1>1, <2>1, <2>3, ConcatAssociative
  <2>5. hand \o queue \in Seq(Item)
    BY <1>1, <2>1, ConcatProperties
  <2>6. Append(hand \o queue, i) = (hand \o queue) \o <<i>>
    BY <2>5, AppendIsConcat
  <2> QED BY <2>2, <2>3, <2>4, <2>5, <2>6
<1>3. Uids(Append(Waiting, i)) = Append(Uids(Waiting), i.uid)
  BY <1>2, UidsAppend
<1>4. Uids(Waiting)' = Uids(Waiting')
  BY DEF Uids
<1> QED BY <1>2, <1>3, <1>4

-----------------------------------------------------------------------------
(* Steps of the farm and steps of the pool.                                *)

LEMMA SameWaits == UNCHANGED <<item, queue>> => Uids(Waiting)' = Uids(Waiting)
BY DEF Waiting, Uids

LEMMA SameEvaluating == UNCHANGED working_on => Evaluating' = Evaluating
BY DEF Evaluating

\* An empty hand is filled.
LEMMA PopStutters ==
  ASSUME TypeOK, TypeOK', item = NULL, Pop
  PROVE  Uids(Waiting)' = Uids(Waiting)
<1>1. Waiting' = queue /\ Waiting = queue
  BY PopWaits, EmptyHand
<1>2. Uids(Waiting)' = Uids(Waiting')
  BY DEF Uids
<1> QED BY <1>1, <1>2

\* The item in hand is sent to a rank that has none: the pool's Assign.
LEMMA Assigning ==
  ASSUME TypeOK, TypeOK', item # NULL, Pop, NEW r \in Worker, working_on[r] = NULL,
         working_on' = [working_on EXCEPT ![r] = item], UNCHANGED <<evals, spso_stop_flag>>
  PROVE  Pool!Assign
<1>1. /\ item \in Item /\ Waiting \in Seq(Item) /\ Waiting # <<>>
      /\ Head(Waiting) = item /\ Tail(Waiting) = queue
  BY FullHand
<1>2. /\ Uids(Waiting) # <<>> /\ Head(Uids(Waiting)) = item.uid
      /\ Tail(Uids(Waiting)) = Uids(queue)
  <2> DEFINE s == Waiting
  <2> HIDE DEF s
  <2>1. /\ Uids(s) # <<>> /\ Head(Uids(s)) = Head(s).uid /\ Tail(Uids(s)) = Uids(Tail(s))
    BY <1>1, UidsTail DEF s
  <2>2. Head(s).uid = item.uid /\ Uids(Tail(s)) = Uids(queue)
    BY <1>1 DEF s
  <2> QED BY <2>1, <2>2 DEF s
<1>3. Uids(Waiting)' = Uids(queue)
  <2>1. Waiting' = queue
    BY PopWaits
  <2>2. Uids(Waiting)' = Uids(Waiting')
    BY DEF Uids
  <2> QED BY <2>1, <2>2
<1>4. Evaluating' = Evaluating \cup {item.uid}
  <2>1. working_on \in [Worker -> ItemOrNull]
    BY DEF TypeOK
  <2>2. /\ working_on'[r] = item
        /\ \A v \in Worker : v # r => working_on'[v] = working_on[v]
    BY <2>1
  <2> QED BY <2>2 DEF Evaluating
<1> QED BY <1>2, <1>3, <1>4 DEF Pool!Assign

\* A rank's result is credited: its particle is not being evaluated any more.
LEMMA Crediting ==
  ASSUME TypeOK, NoDuplicate, NEW w \in Worker, working_on[w] # NULL,
         working_on' = [working_on EXCEPT ![w] = NULL]
  PROVE  /\ working_on[w].uid \in Evaluating /\ working_on[w].uid \in Particle
         /\ Evaluating' = Evaluating \ {working_on[w].uid}
<1>1. working_on \in [Worker -> ItemOrNull] /\ working_on[w] \in Item
  BY DEF TypeOK, ItemOrNull
<1>2. working_on[w].uid \in Evaluating /\ working_on[w].uid \in Particle
  BY <1>1 DEF Evaluating, Item
<1>3. /\ working_on'[w] = NULL
      /\ \A v \in Worker : v # w => working_on'[v] = working_on[v]
  BY <1>1
<1>4. \A v \in Worker : v # w /\ working_on[v] # NULL => working_on[v].uid # working_on[w].uid
  BY DEF NoDuplicate
<1>5. Evaluating' = Evaluating \ {working_on[w].uid}
  BY <1>3, <1>4 DEF Evaluating
<1> QED BY <1>2, <1>5

\* A pushed item waits behind the others.
LEMMA Pushing ==
  ASSUME TypeOK, NEW p \in Particle, NEW dead, Push(p, dead), item' = item
  PROVE  /\ Uids(Waiting)' = Append(Uids(Waiting), p)
         /\ evals' = [evals EXCEPT ![p] = @ + 1] /\ spso_stop_flag' = spso_stop_flag
<1> DEFINE work == [uid |-> p, n |-> evals[p] + 1]
<1>1. evals[p] \in 0 .. MaxEvals /\ evals[p] < MaxEvals /\ MaxEvals \in Nat
  BY FarmAssumption DEF TypeOK, Push
<1>2. evals[p] + 1 \in 1 .. MaxEvals
  BY <1>1
<1>3. work \in Item /\ work.uid = p
  BY <1>2 DEF Item
<1>4. queue' = Append(queue, work)
  BY DEF Push
<1> HIDE DEF work
<1> QED BY <1>3, <1>4, PushWaits DEF Push

LEMMA StepIsPoolStep == IInv /\ IInv' /\ [Next]_vars => [Pool!Next]_(Pool!poolVars)
<1> SUFFICES ASSUME IInv, IInv', [Next]_vars PROVE [Pool!Next]_(Pool!poolVars)
  OBVIOUS
<1> DEFINE Stutters == /\ Uids(Waiting)' = Uids(Waiting) /\ Evaluating' = Evaluating
                       /\ evals' = evals /\ spso_stop_flag' = spso_stop_flag
           Halts == /\ Uids(Waiting)' = Uids(Waiting) /\ Evaluating' = Evaluating
                    /\ evals' = evals /\ spso_stop_flag' = TRUE
<1>0. /\ TypeOK /\ TypeOK' /\ Protocol /\ NoDuplicate /\ Fresh /\ StopFlags
  BY DEF IInv, Items
<1>1. Stutters => [Pool!Next]_(Pool!poolVars)
  BY DEF Pool!poolVars
<1>2. Halts => [Pool!Next]_(Pool!poolVars)
  BY DEF Pool!Next, Pool!Halt
<1>3. CASE UNCHANGED vars
  <2>1. Stutters
    BY <1>3, SameWaits, SameEvaluating DEF vars, memory, loop, swarm
  <2> QED BY <1>1, <2>1
<1>4. CASE StartParticle
  <2>1. UNCHANGED <<item, working_on>> /\ started \in Particle /\ mpc = "start"
    BY <1>0, <1>4, FarmAssumption DEF StartParticle, loop, TypeOK, Particle
  <2>2. Evaluating' = Evaluating
    BY <2>1, SameEvaluating
  <2>3. CASE Push(started, {})
    <3>1. /\ Uids(Waiting)' = Append(Uids(Waiting), started)
          /\ evals' = [evals EXCEPT ![started] = @ + 1] /\ spso_stop_flag' = spso_stop_flag
      BY <1>0, <2>1, <2>3, Pushing
    <3>2. evals[started] = 0 /\ started \in 0 .. SwarmSize
      BY <1>0, <2>1, FarmAssumption DEF Fresh, TypeOK
    <3>3. Pool!Submit(started)
      BY <2>2, <3>1, <3>2 DEF Pool!Submit
    <3> QED BY <2>1, <3>3 DEF Pool!Next
  <2>4. CASE Settle({})
    <3>1. Stutters
      BY <2>1, <2>2, <2>4, SameWaits DEF Settle
    <3> QED BY <1>1, <3>1
  <2>5. CASE Converge({})
    <3>1. Halts
      BY <2>1, <2>2, <2>5, SameWaits DEF Converge
    <3> QED BY <1>2, <3>1
  <2> QED BY <1>4, <2>3, <2>4, <2>5 DEF StartParticle
<1>5. CASE StartDestroyedParticle
  <2>1. Stutters
    BY <1>5, SameWaits, SameEvaluating DEF StartDestroyedParticle, memory, swarm
  <2> QED BY <1>1, <2>1
<1>6. CASE EnterMaster
  <2>1. item = NULL /\ Pop /\ UNCHANGED <<swarm, working_on>>
    BY <1>0, <1>6 DEF EnterMaster, Protocol
  <2>2. Stutters
    BY <1>0, <2>1, PopStutters, SameEvaluating DEF swarm
  <2> QED BY <1>1, <2>2
<1>7. CASE FirstBatch
  <2>1. /\ item # NULL /\ Pop /\ worker \in Worker /\ UNCHANGED <<evals, spso_stop_flag>>
        /\ working_on' = [working_on EXCEPT ![worker] = item]
    BY <1>7 DEF FirstBatch, SendWork, swarm
  <2>2. working_on[worker] = NULL
    <3>1. mpc = "first" /\ worker \in Worker /\ worker >= worker
      BY <1>7 DEF FirstBatch, Worker
    <3> QED BY <1>0, <3>1 DEF Protocol, Ready
  <2>3. Pool!Assign
    BY <1>0, <2>1, <2>2, Assigning
  <2> QED BY <2>3 DEF Pool!Next
<1>8. CASE FirstBatchDone
  <2>1. Stutters
    BY <1>8, SameWaits, SameEvaluating DEF FirstBatchDone, memory, swarm
  <2> QED BY <1>1, <2>1
<1>9. ASSUME NEW w \in Worker, RecvFitness(w) PROVE [Pool!Next]_(Pool!poolVars)
  <2> DEFINE i == working_on[w]
  <2>1. i # NULL
    <3>1. outbox[w] # <<>>
      BY <1>9 DEF RecvFitness
    <3> QED BY <1>0, <3>1 DEF Protocol, Ready, ToldToStop, Assigned
  <2>2. /\ ReportFitness(i) /\ working_on' = [working_on EXCEPT ![w] = NULL]
        /\ item' = item
    BY <1>9, <2>1 DEF RecvFitness
  <2>3. /\ i.uid \in Evaluating /\ i.uid \in Particle
        /\ Evaluating' = Evaluating \ {i.uid}
    BY <1>0, <2>1, <2>2, Crediting
  <2> HIDE DEF i
  <2>4. CASE Settle({i}) /\ (already_stopped \/ spso_stop_flag)
    <3>1. /\ Uids(Waiting)' = Uids(Waiting) /\ evals' = evals /\ spso_stop_flag' = TRUE
      BY <1>0, <2>2, <2>4, SameWaits DEF Settle, StopFlags, TypeOK
    <3>2. Pool!Retire(i.uid)
      BY <2>3, <3>1 DEF Pool!Retire
    <3> QED BY <2>3, <3>2 DEF Pool!Next
  <2>5. CASE Push(i.uid, {i}) /\ ~spso_stop_flag
    <3>1. /\ Uids(Waiting)' = Append(Uids(Waiting), i.uid)
          /\ evals' = [evals EXCEPT ![i.uid] = @ + 1] /\ spso_stop_flag' = spso_stop_flag
      BY <1>0, <2>2, <2>3, <2>5, Pushing
    <3>2. Pool!Requeue(i.uid)
      BY <2>3, <2>5, <3>1 DEF Pool!Requeue
    <3> QED BY <2>3, <3>2 DEF Pool!Next
  <2>6. CASE Converge({i})
    <3>1. /\ Uids(Waiting)' = Uids(Waiting) /\ evals' = evals /\ spso_stop_flag' = TRUE
      BY <2>2, <2>6, SameWaits DEF Converge
    <3>2. Pool!Retire(i.uid)
      BY <2>3, <3>1 DEF Pool!Retire
    <3> QED BY <2>3, <3>2 DEF Pool!Next
  <2> QED BY <2>2, <2>4, <2>5, <2>6 DEF ReportFitness
<1>10. CASE FindIdle
  <2>1. Stutters
    BY <1>10, SameWaits, SameEvaluating DEF FindIdle, memory, swarm
  <2> QED BY <1>1, <2>1
<1>11. CASE StopWorker
  <2>1. UNCHANGED <<item, queue, evals>>
    BY <1>11 DEF StopWorker, memory
  <2>2. working_on' = working_on
    <3>1. CASE worker # 0
      <4>1. Ready(worker) /\ worker \in Worker
        <5>1. mpc = "act"
          BY <1>11 DEF StopWorker
        <5> QED BY <1>0, <3>1, <5>1, FarmAssumption DEF Protocol, TypeOK, Rank, Worker
      <4>2. working_on' = [working_on EXCEPT ![worker] = NULL]
        BY <1>11, <3>1 DEF StopWorker, SendStop
      <4> QED BY <1>0, <4>1, <4>2 DEF Ready, TypeOK
    <3>2. CASE worker = 0
      BY <1>11, <3>2 DEF StopWorker
    <3> QED BY <3>1, <3>2
  <2>3. Uids(Waiting)' = Uids(Waiting) /\ Evaluating' = Evaluating
    BY <2>1, <2>2, SameWaits, SameEvaluating
  <2>4. spso_stop_flag' = TRUE \/ spso_stop_flag' = spso_stop_flag
    BY <1>11 DEF StopWorker
  <2>5. Stutters \/ Halts
    BY <2>1, <2>3, <2>4
  <2> QED BY <1>1, <1>2, <2>5
<1>12. CASE Dispatch
  <2>1. /\ item # NULL /\ Pop /\ mpc = "act" /\ worker # 0
        /\ UNCHANGED <<evals, spso_stop_flag>>
        /\ working_on' = [working_on EXCEPT ![worker] = item]
    BY <1>12 DEF Dispatch, SendWork, swarm
  <2>2. working_on[worker] = NULL /\ worker \in Worker
    BY <1>0, <2>1, FarmAssumption DEF Protocol, Ready, TypeOK, Rank, Worker
  <2>3. Pool!Assign
    BY <1>0, <2>1, <2>2, Assigning
  <2> QED BY <2>3 DEF Pool!Next
<1>13. CASE Starve
  <2>1. item = NULL /\ Pop /\ UNCHANGED <<swarm, working_on>>
    BY <1>13 DEF Starve
  <2>2. Stutters
    BY <1>0, <2>1, PopStutters, SameEvaluating DEF swarm
  <2> QED BY <1>1, <2>2
<1>14. CASE KeepItem
  <2>1. Stutters
    BY <1>14, SameWaits, SameEvaluating DEF KeepItem, memory, swarm
  <2> QED BY <1>1, <2>1
<1>15. ASSUME NEW w \in Worker, WorkerStep(w) \/ SignalWorker(w)
       PROVE  [Pool!Next]_(Pool!poolVars)
  <2>1. UNCHANGED <<swarm, memory, loop>>
    BY <1>15 DEF WorkerStep, ReceiveWork, SendFitness, DropFitness, SignalWorker
  <2>2. Stutters
    BY <2>1, SameWaits, SameEvaluating DEF memory, loop, swarm
  <2> QED BY <1>1, <2>2
<1>16. CASE SignalMaster
  <2>1. Halts
    BY <1>16, SameWaits, SameEvaluating DEF SignalMaster, memory, loop
  <2> QED BY <1>2, <2>1
<1>17. CASE Finished
  BY <1>3, <1>17 DEF Finished
<1> HIDE DEF Stutters, Halts
<1> QED
  BY <1>3, <1>4, <1>5, <1>6, <1>7, <1>8, <1>9, <1>10, <1>11, <1>12, <1>13, <1>14, <1>15,
     <1>16, <1>17 DEF Next, MasterStep

LEMMA InitIsPoolInit == Init => Pool!Init
<1> SUFFICES ASSUME Init PROVE Pool!Init
  OBVIOUS
<1>1. /\ item = NULL /\ queue = <<>> /\ evals = [p \in Particle |-> 0] /\ spso_stop_flag = FALSE
      /\ working_on = [w \in Worker |-> NULL]
  BY DEF Init
<1>2. Waiting = <<>>
  BY <1>1 DEF Waiting
<1>3. Uids(<<>>) = <<>>
  BY DEF Uids
<1>4. Evaluating = {}
  BY <1>1 DEF Evaluating
<1> QED BY <1>1, <1>2, <1>3, <1>4 DEF Pool!Init

\* Every step of the farm is a step of the pool or none: in particular particles are
\* evaluated in the order in which they were queued, whatever the ranks do
\* (taskfarm.c:176-226, 286-437, 455-583).
THEOREM FarmRefinesPool == Spec => ImplementsPool
<1>1. IInv /\ IInv' /\ [Next]_vars => [Pool!Next]_(Pool!poolVars)
  BY StepIsPoolStep
<1> QED BY <1>1, Inductive, InitIsPoolInit, PTL DEF Spec, ImplementsPool, Pool!Spec
=============================================================================

--------------------------- MODULE TaskFarmProofs ---------------------------
(***************************************************************************)
(* Proofs, for any number of ranks, particles and evaluations, of the      *)
(* safety properties of TaskFarm.  TypeStep, ProtocolStep and ItemsStep    *)
(* say that each part of the inductive invariant is preserved by every     *)
(* action; the theorems at the end follow from the invariant.  Liveness is *)
(* left to the model checker.                                              *)
(***************************************************************************)
EXTENDS TaskFarmInvariant, TLAPS

\* Taking the only message of a channel leaves the channel empty.
LEMMA TailOfOne == ASSUME NEW x PROVE Tail(<<x>>) = <<>>
  OBVIOUS

\* The variables have their types when the ranks start.
LEMMA TypeInit == Init => TypeOK
<1> SUFFICES ASSUME Init PROVE TypeOK
  OBVIOUS
<1> USE FarmAssumption DEF Init
<1>1. started \in 0 .. SwarmSize /\ evals \in [Particle -> 0 .. MaxEvals]
  OBVIOUS
<1>2. already_stopped \in BOOLEAN /\ spso_stop_flag \in BOOLEAN /\ stop_work \in [Rank -> BOOLEAN]
  OBVIOUS
<1>3. queue \in Seq(Item) /\ queue_back \in ItemOrNull /\ heap \subseteq Item /\ item \in ItemOrNull
  BY DEF ItemOrNull
<1>4. worker \in 0 .. NumWorkers + 1 /\ mpc = "start"
  OBVIOUS
<1>5. /\ working_on \in [Worker -> ItemOrNull] /\ worker_state \in [Worker -> States]
      /\ wpc \in [Worker -> {"recv", "run", "done"}] /\ witem \in [Worker -> ItemOrNull]
      /\ inbox \in [Worker -> Seq(Message)] /\ outbox \in [Worker -> Seq(ItemOrNull)]
  BY DEF ItemOrNull, States
<1> QED BY <1>1, <1>2, <1>3, <1>4, <1>5 DEF TypeOK

\* Every action keeps the types.
LEMMA TypeStep == TypeOK /\ [Next]_vars => TypeOK'
<1> SUFFICES ASSUME TypeOK, [Next]_vars PROVE TypeOK'
  OBVIOUS
<1> USE FarmAssumption
<1>0. ASSUME NEW S, NEW q \in Seq(S), q # <<>>
      PROVE  Head(q) \in S /\ Tail(q) \in Seq(S)
  BY <1>0
<1>1. Pop => item' \in ItemOrNull /\ queue' \in Seq(Item)
  <2>1. queue # <<>> => Head(queue) \in Item /\ Tail(queue) \in Seq(Item)
    BY <1>0 DEF TypeOK
  <2> QED BY <2>1 DEF Pop, TypeOK, ItemOrNull
<1>2. ASSUME NEW w \in Worker, SendWork(w)
      PROVE  /\ inbox' \in [Worker -> Seq(Message)]
             /\ working_on' \in [Worker -> ItemOrNull]
             /\ worker_state' \in [Worker -> States]
  <2>1. Work(item) \in Message
    BY DEF TypeOK, Work, Message
  <2>2. Append(inbox[w], Work(item)) \in Seq(Message)
    BY <2>1 DEF TypeOK
  <2> QED BY <1>2, <2>2 DEF SendWork, TypeOK, States
<1>3. ASSUME NEW w \in Worker, SendStop(w)
      PROVE  /\ inbox' \in [Worker -> Seq(Message)]
             /\ working_on' \in [Worker -> ItemOrNull]
             /\ worker_state' \in [Worker -> States]
  <2>1. Stop \in Message
    BY DEF Stop, Message, ItemOrNull
  <2>2. Append(inbox[w], Stop) \in Seq(Message)
    BY <2>1 DEF TypeOK
  <2> QED BY <1>3, <2>2 DEF SendStop, TypeOK, States, ItemOrNull
<1>4. ASSUME NEW p \in Particle, NEW dead, Push(p, dead)
      PROVE  /\ evals' \in [Particle -> 0 .. MaxEvals]
             /\ queue' \in Seq(Item) /\ queue_back' \in ItemOrNull
             /\ heap' \subseteq Item
             /\ spso_stop_flag' \in BOOLEAN /\ stop_work' \in [Rank -> BOOLEAN]
  <2>1. [uid |-> p, n |-> evals[p] + 1] \in Item
    BY <1>4 DEF Push, TypeOK, Item
  <2>2. evals' \in [Particle -> 0 .. MaxEvals]
    BY <1>4 DEF Push, TypeOK
  <2> QED BY <1>4, <2>1, <2>2 DEF Push, TypeOK, ItemOrNull
<1>5. ASSUME NEW dead, Settle(dead) \/ Converge(dead)
      PROVE  /\ evals' \in [Particle -> 0 .. MaxEvals]
             /\ queue' \in Seq(Item) /\ queue_back' \in ItemOrNull
             /\ heap' \subseteq Item
             /\ spso_stop_flag' \in BOOLEAN /\ stop_work' \in [Rank -> BOOLEAN]
  BY <1>5 DEF Settle, Converge, TypeOK
<1>6. CASE StartParticle
  <2>1. started \in Particle /\ started' \in 0 .. SwarmSize
    BY <1>6 DEF StartParticle, TypeOK, Particle
  <2> QED BY <1>6, <2>1, <1>4, <1>5 DEF StartParticle, TypeOK, loop, workers
<1>7. CASE StartDestroyedParticle
  BY <1>7 DEF StartDestroyedParticle, TypeOK, swarm, memory, workers
<1>8. CASE EnterMaster
  BY <1>8, <1>1 DEF EnterMaster, TypeOK, swarm, workers, Master, Rank
<1>9. CASE FirstBatch
  <2>1. worker' \in 0 .. NumWorkers + 1
    BY <1>9 DEF FirstBatch, Worker
  <2> QED BY <1>9, <1>1, <1>2, <2>1 DEF FirstBatch, TypeOK, swarm
<1>10. CASE FirstBatchDone
  BY <1>10 DEF FirstBatchDone, TypeOK, swarm, memory, workers, Rank
<1>11. ASSUME NEW w \in Worker, RecvFitness(w) PROVE TypeOK'
  <2>1. outbox' \in [Worker -> Seq(ItemOrNull)]
    <3>1. Tail(outbox[w]) \in Seq(ItemOrNull)
      BY <1>11, <1>0 DEF RecvFitness, TypeOK
    <3> QED BY <1>11, <3>1 DEF RecvFitness, TypeOK
  <2>2. working_on' \in [Worker -> ItemOrNull]
    BY <1>11 DEF RecvFitness, TypeOK, ItemOrNull
  <2>3. /\ evals' \in [Particle -> 0 .. MaxEvals]
        /\ queue' \in Seq(Item) /\ queue_back' \in ItemOrNull
        /\ heap' \subseteq Item
        /\ spso_stop_flag' \in BOOLEAN /\ stop_work' \in [Rank -> BOOLEAN]
    <3>1. CASE working_on[w] = NULL
      BY <1>11, <1>5, <3>1 DEF RecvFitness
    <3>2. CASE working_on[w] # NULL
      <4>1. working_on[w].uid \in Particle
        BY <3>2 DEF TypeOK, ItemOrNull, Item
      <4> QED BY <1>11, <1>4, <1>5, <3>2, <4>1 DEF RecvFitness, ReportFitness
    <3> QED BY <3>1, <3>2
  <2> QED BY <1>11, <2>1, <2>2, <2>3 DEF RecvFitness, TypeOK, Worker, Rank
<1>12. CASE FindIdle
  BY <1>12 DEF FindIdle, TypeOK, swarm, memory, workers, Rank
<1>13. CASE StopWorker
  <2>1. /\ inbox' \in [Worker -> Seq(Message)]
        /\ working_on' \in [Worker -> ItemOrNull]
        /\ worker_state' \in [Worker -> States]
    <3>1. CASE worker = 0
      BY <1>13, <3>1 DEF StopWorker, TypeOK
    <3>2. CASE worker # 0
      <4>1. PICK r \in Worker : r = worker
        BY <1>13, <3>2 DEF StopWorker, TypeOK, Rank, Worker
      <4>2. SendStop(r)
        BY <1>13, <3>2, <4>1 DEF StopWorker
      <4> QED BY <1>3, <4>2
    <3> QED BY <3>1, <3>2
  <2>2. worker' \in Rank /\ worker' \in 0 .. NumWorkers + 1
    BY <1>13 DEF StopWorker, Rank
  <2>3. mpc' \in {"poll", "done"} /\ already_stopped' \in BOOLEAN /\ spso_stop_flag' \in BOOLEAN
    BY <1>13, Zenon DEF StopWorker, TypeOK
  <2>4. UNCHANGED <<started, evals, queue, queue_back, heap, item, stop_work, wpc, witem, outbox>>
    BY <1>13 DEF StopWorker, memory
  <2> QED BY <2>1, <2>2, <2>3, <2>4 DEF TypeOK
<1>14. CASE Dispatch
  <2>1. worker \in Worker
    BY <1>14 DEF Dispatch, TypeOK, Rank, Worker
  <2> QED BY <1>14, <1>1, <1>2, <2>1 DEF Dispatch, TypeOK, swarm, Rank
<1>15. CASE Starve
  <2>1. worker # 0 => worker \in Worker
    BY <1>15 DEF Starve, TypeOK, Rank, Worker
  <2> QED BY <1>15, <1>1, <2>1 DEF Starve, TypeOK, swarm, workers, Rank, States
<1>16. CASE KeepItem
  BY <1>16 DEF KeepItem, TypeOK, swarm, memory, workers
<1>17. ASSUME NEW w \in Worker, ReceiveWork(w) PROVE TypeOK'
  <2>1. Head(inbox[w]) \in Message /\ Tail(inbox[w]) \in Seq(Message)
    BY <1>17, <1>0 DEF ReceiveWork, TypeOK
  <2>2. witem' \in [Worker -> ItemOrNull]
    BY <1>17, <2>1 DEF ReceiveWork, TypeOK, Message
  <2>3. stop_work' \in [Rank -> BOOLEAN]
    BY <1>17, <2>1 DEF ReceiveWork, TypeOK, Worker, Rank
  <2>4. wpc' \in [Worker -> {"recv", "run", "done"}]
    BY <1>17 DEF ReceiveWork, TypeOK
  <2>5. inbox' \in [Worker -> Seq(Message)]
    BY <1>17, <2>1 DEF ReceiveWork, TypeOK
  <2> QED BY <1>17, <2>2, <2>3, <2>4, <2>5 DEF ReceiveWork, TypeOK, swarm, memory, loop
<1>18. ASSUME NEW w \in Worker, SendFitness(w) PROVE TypeOK'
  <2>1. Append(outbox[w], witem[w]) \in Seq(ItemOrNull)
    BY DEF TypeOK
  <2> QED BY <2>1, <1>18 DEF SendFitness, TypeOK, swarm, memory, loop
<1>19. ASSUME NEW w \in Worker, DropFitness(w) PROVE TypeOK'
  BY <1>19 DEF DropFitness, TypeOK, swarm, memory, loop
<1>20. CASE SignalMaster
  BY <1>20 DEF SignalMaster, TypeOK, memory, loop, workers
<1>21. ASSUME NEW w \in Worker, SignalWorker(w) PROVE TypeOK'
  BY <1>21 DEF SignalWorker, TypeOK, swarm, memory, loop, workers
<1>22. CASE UNCHANGED vars
  BY <1>22 DEF TypeOK, vars, swarm, memory, loop, workers
<1> QED
  BY <1>6, <1>7, <1>8, <1>9, <1>10, <1>11, <1>12, <1>13, <1>14, <1>15, <1>16,
     <1>17, <1>18, <1>19, <1>20, <1>21, <1>22
     DEF Next, MasterStep, WorkerStep, Finished

-----------------------------------------------------------------------------
\* At the start every rank waits for its first message.
LEMMA ProtocolInit == Init => Protocol
  BY DEF Init, Protocol, Ready

\* Every action leaves each rank ready, told to stop or assigned.
LEMMA ProtocolStep == TypeOK /\ Protocol /\ [Next]_vars => Protocol'
<1> SUFFICES ASSUME TypeOK, Protocol, [Next]_vars PROVE Protocol'
  OBVIOUS
<1> USE FarmAssumption
<1>1. ASSUME UNCHANGED <<working_on, worker_state, wpc, witem, inbox, outbox>>
      PROVE  \A w \in Worker : /\ Ready(w) => Ready(w)'
                               /\ ToldToStop(w) => ToldToStop(w)'
                               /\ Assigned(w) => Assigned(w)'
  BY <1>1 DEF Ready, ToldToStop, Assigned
<1>2. ASSUME NEW w \in Worker, SendWork(w), Ready(w), item # NULL, UNCHANGED <<wpc, witem, outbox>>
      PROVE  \A v \in Worker : /\ v = w => Assigned(v)'
                               /\ v # w /\ Ready(v) => Ready(v)'
                               /\ v # w /\ ToldToStop(v) => ToldToStop(v)'
                               /\ v # w /\ Assigned(v) => Assigned(v)'
  <2>1. inbox'[w] = <<Work(item)>> /\ working_on'[w] = item /\ worker_state'[w] = "BUSY"
    BY <1>2 DEF SendWork, TypeOK, Ready
  <2>2. \A v \in Worker : v = w => Assigned(v)'
    BY <1>2, <2>1 DEF Assigned, Ready
  <2>3. \A v \in Worker \ {w} : /\ inbox'[v] = inbox[v] /\ working_on'[v] = working_on[v]
                              /\ worker_state'[v] = worker_state[v]
    BY <1>2 DEF SendWork, TypeOK
  <2> QED BY <1>2, <2>2, <2>3 DEF Ready, ToldToStop, Assigned
<1>3. ASSUME NEW w \in Worker, SendStop(w), Ready(w), UNCHANGED <<wpc, witem, outbox>>
      PROVE  \A v \in Worker : /\ v = w => ToldToStop(v)'
                               /\ v # w /\ Ready(v) => Ready(v)'
                               /\ v # w /\ ToldToStop(v) => ToldToStop(v)'
                               /\ v # w /\ Assigned(v) => Assigned(v)'
  <2>1. inbox'[w] = <<Stop>> /\ working_on'[w] = NULL /\ worker_state'[w] = "STOPPED"
    BY <1>3 DEF SendStop, TypeOK, Ready
  <2>2. \A v \in Worker : v = w => ToldToStop(v)'
    BY <1>3, <2>1 DEF ToldToStop, Ready
  <2>3. \A v \in Worker \ {w} : /\ inbox'[v] = inbox[v] /\ working_on'[v] = working_on[v]
                              /\ worker_state'[v] = worker_state[v]
    BY <1>3 DEF SendStop, TypeOK
  <2> QED BY <1>3, <2>2, <2>3 DEF Ready, ToldToStop, Assigned
<1>4. CASE StartParticle
  BY <1>1, <1>4 DEF StartParticle, Protocol, loop, workers
<1>5. CASE StartDestroyedParticle
  BY <1>1, <1>5 DEF StartDestroyedParticle, Protocol, workers
<1>6. CASE EnterMaster
  <2>1. \A w \in Worker : Ready(w)'
    BY <1>6 DEF EnterMaster, Protocol, workers, Ready
  <2> QED BY <1>6, <2>1 DEF EnterMaster, Protocol
<1>7. CASE FirstBatch
  <2>1. PICK r \in Worker : r = worker
    BY <1>7 DEF FirstBatch
  <2>2. Ready(r) /\ SendWork(r)
    BY <1>7, <2>1 DEF FirstBatch, Protocol, Worker
  <2>3. worker' >= 1 /\ \A w \in Worker : w >= worker' => w # r /\ w >= worker
    BY <1>7, <2>1 DEF FirstBatch, Worker
  <2>4. mpc = "first" /\ mpc' = "first" /\ item # NULL /\ UNCHANGED <<wpc, witem, outbox>>
    BY <1>7 DEF FirstBatch
  <2>5. \A v \in Worker : /\ v = r => Assigned(v)'
                          /\ v # r /\ Ready(v) => Ready(v)'
                          /\ v # r /\ ToldToStop(v) => ToldToStop(v)'
                          /\ v # r /\ Assigned(v) => Assigned(v)'
    BY <1>2, <2>2, <2>4
  <2>6. \A w \in Worker : Ready(w)' \/ ToldToStop(w)' \/ Assigned(w)'
    BY <2>5 DEF Protocol
  <2>7. \A w \in Worker : w >= worker' => Ready(w)'
    BY <2>3, <2>4, <2>5 DEF Protocol
  <2> QED BY <2>3, <2>4, <2>6, <2>7 DEF Protocol
<1>8. CASE FirstBatchDone
  BY <1>1, <1>8 DEF FirstBatchDone, Protocol, workers
<1>9. ASSUME NEW w \in Worker, RecvFitness(w) PROVE Protocol'
  <2>1. Assigned(w) /\ inbox[w] = <<>> /\ outbox[w] = <<working_on[w]>> /\ wpc[w] = "recv"
    BY <1>9 DEF RecvFitness, Protocol, Ready, ToldToStop, Assigned
  <2>2. Ready(w)'
    <3>1. outbox'[w] = <<>> /\ working_on'[w] = NULL
      BY <1>9, <2>1 DEF RecvFitness, TypeOK
    <3> QED BY <1>9, <2>1, <3>1 DEF RecvFitness, Ready
  <2>3. \A v \in Worker \ {w} : outbox'[v] = outbox[v] /\ working_on'[v] = working_on[v]
    BY <1>9 DEF RecvFitness, TypeOK
  <2>4. \A v \in Worker \ {w} : Ready(v)' \/ ToldToStop(v)' \/ Assigned(v)'
    BY <1>9, <2>3 DEF RecvFitness, Protocol, Ready, ToldToStop, Assigned
  <2> QED BY <1>9, <2>2, <2>4 DEF RecvFitness, Protocol
<1>10. CASE FindIdle
  <2>1. worker' # 0 => worker' \in Worker /\ Idle(worker')
    BY <1>10 DEF FindIdle, NextIdleWorker, Rank, Worker
  <2>2. worker' # 0 => Ready(worker')
    BY <2>1 DEF Idle, Protocol, ToldToStop, Assigned
  <2> QED BY <1>1, <1>10, <2>1, <2>2 DEF FindIdle, Protocol, workers
<1>11. CASE StopWorker
  <2>2. \A w \in Worker : Ready(w)' \/ ToldToStop(w)' \/ Assigned(w)'
    <3>1. CASE worker = 0
      BY <1>1, <1>11, <3>1 DEF StopWorker, Protocol
    <3>2. CASE worker # 0
      <4>1. PICK r \in Worker : r = worker
        BY <1>11, <3>2 DEF StopWorker, TypeOK, Rank, Worker
      <4>2. Ready(r) /\ SendStop(r) /\ UNCHANGED <<wpc, witem, outbox>>
        BY <1>11, <3>2, <4>1 DEF StopWorker, Protocol, Ready
      <4>3. \A v \in Worker : /\ v = r => ToldToStop(v)'
                              /\ v # r /\ Ready(v) => Ready(v)'
                              /\ v # r /\ ToldToStop(v) => ToldToStop(v)'
                              /\ v # r /\ Assigned(v) => Assigned(v)'
        BY <1>3, <4>2
      <4> QED BY <4>3 DEF Protocol
    <3> QED BY <3>1, <3>2
  <2> QED BY <1>11, <2>2 DEF StopWorker, Protocol
<1>12. CASE Dispatch
  <2>1. PICK r \in Worker : r = worker
    BY <1>12 DEF Dispatch, TypeOK, Rank, Worker
  <2>2. Ready(r) /\ SendWork(r) /\ item # NULL /\ UNCHANGED <<wpc, witem, outbox>>
    BY <1>12, <2>1 DEF Dispatch, Protocol, Ready
  <2>3. \A v \in Worker : /\ v = r => Assigned(v)'
                          /\ v # r /\ Ready(v) => Ready(v)'
                          /\ v # r /\ ToldToStop(v) => ToldToStop(v)'
                          /\ v # r /\ Assigned(v) => Assigned(v)'
    BY <1>2, <2>2
  <2>4. \A w \in Worker : Ready(w)' \/ ToldToStop(w)' \/ Assigned(w)'
    BY <2>3 DEF Protocol
  <2> QED BY <1>12, <2>4 DEF Dispatch, Protocol
<1>13. CASE Starve
  <2>1. \A w \in Worker : worker_state'[w] = worker_state[w] \/ w = worker
    BY <1>13 DEF Starve, TypeOK
  <2>2. worker # 0 => Ready(worker)
    BY <1>13 DEF Starve, Protocol
  <2>3. \A w \in Worker : Ready(w)' \/ ToldToStop(w)' \/ Assigned(w)'
    BY <1>13, <2>1, <2>2 DEF Starve, Protocol, workers, Ready, ToldToStop, Assigned, Worker
  <2> QED BY <1>13, <2>3 DEF Starve, Protocol
<1>14. CASE KeepItem
  BY <1>1, <1>14 DEF KeepItem, Protocol, workers
<1>15. ASSUME NEW w \in Worker, WorkerStep(w),
              Ready(w)' \/ ToldToStop(w)' \/ Assigned(w)', ~Ready(w),
              UNCHANGED <<loop>>,
              \A v \in Worker \ {w} : /\ inbox'[v] = inbox[v] /\ outbox'[v] = outbox[v]
                                     /\ wpc'[v] = wpc[v] /\ witem'[v] = witem[v]
       PROVE  Protocol'
  <2>1. \A v \in Worker : Ready(v)' \/ ToldToStop(v)' \/ Assigned(v)'
    BY <1>15 DEF Protocol, Ready, ToldToStop, Assigned, loop
  <2>2. \A v \in Worker : Ready(v) => Ready(v)'
    BY <1>15 DEF Ready, loop
  <2>3. mpc = "act" /\ worker # 0 => worker \in Worker
    BY DEF TypeOK, Rank, Worker
  <2>4. mpc = "act" /\ worker # 0 => Ready(worker)'
    BY <1>15, <2>3 DEF Protocol, Ready, loop
  <2> QED BY <1>15, <2>1, <2>2, <2>4 DEF Protocol, loop
<1>16. ASSUME NEW w \in Worker, ReceiveWork(w) PROVE Protocol'
  <2>1. ~Ready(w) /\ (ToldToStop(w) \/ Assigned(w))
    BY <1>16 DEF ReceiveWork, Ready, Protocol
  <2>2. inbox[w] = <<Stop>> \/ inbox[w] = <<Work(working_on[w])>>
    BY <1>16, <2>1 DEF ReceiveWork, ToldToStop, Assigned
  <2>0. Tail(inbox[w]) = <<>>
    BY <2>2, TailOfOne
  <2>3. inbox'[w] = <<>> /\ outbox'[w] = outbox[w] /\ UNCHANGED loop
    BY <1>16, <2>0 DEF ReceiveWork, TypeOK
  <2>4. CASE inbox[w] = <<Stop>>
    <3>1. ToldToStop(w)
      BY <2>1, <2>4 DEF Assigned, Stop, Work
    <3>2. wpc'[w] = "done"
      BY <1>16, <2>4 DEF ReceiveWork, TypeOK, Stop
    <3> QED BY <1>15, <1>16, <2>1, <2>3, <3>1, <3>2
         DEF WorkerStep, ReceiveWork, TypeOK, ToldToStop, loop
  <2>5. CASE inbox[w] = <<Work(working_on[w])>>
    <3>1. Assigned(w)
      BY <2>1, <2>5 DEF ToldToStop, Stop, Work
    <3>2. witem'[w] = working_on[w] /\ wpc'[w] \in {"run", "done"}
      BY <1>16, <2>5 DEF ReceiveWork, TypeOK, Work
    <3> QED BY <1>15, <1>16, <2>1, <2>3, <2>5, <3>1, <3>2
         DEF WorkerStep, ReceiveWork, TypeOK, Assigned, loop
  <2> QED BY <2>2, <2>4, <2>5
<1>17. ASSUME NEW w \in Worker, SendFitness(w) PROVE Protocol'
  <2>1. Assigned(w) /\ ~Ready(w) /\ witem[w] = working_on[w] /\ inbox[w] = <<>> /\ outbox[w] = <<>>
    BY <1>17 DEF SendFitness, Protocol, Ready, ToldToStop, Assigned
  <2>2. outbox'[w] = <<working_on[w]>> /\ wpc'[w] = "recv"
    BY <1>17, <2>1 DEF SendFitness, TypeOK
  <2> QED BY <1>15, <1>17, <2>1, <2>2 DEF WorkerStep, SendFitness, TypeOK, Assigned, loop
<1>18. ASSUME NEW w \in Worker, DropFitness(w) PROVE Protocol'
  <2>1. Assigned(w) /\ ~Ready(w) /\ inbox[w] = <<>> /\ outbox[w] = <<>>
    BY <1>18 DEF DropFitness, Protocol, Ready, ToldToStop, Assigned
  <2>2. wpc'[w] = "done"
    BY <1>18 DEF DropFitness, TypeOK
  <2> QED BY <1>15, <1>18, <2>1, <2>2 DEF WorkerStep, DropFitness, TypeOK, Assigned, loop
<1>19. CASE SignalMaster
  BY <1>19 DEF SignalMaster, Protocol, loop, workers, Ready, ToldToStop, Assigned
<1>20. ASSUME NEW w \in Worker, SignalWorker(w) PROVE Protocol'
  BY <1>20 DEF SignalWorker, Protocol, loop, workers, Ready, ToldToStop, Assigned
<1>21. CASE UNCHANGED vars
  BY <1>21 DEF Protocol, vars, loop, workers, Ready, ToldToStop, Assigned
<1> QED
  BY <1>4, <1>5, <1>6, <1>7, <1>8, <1>9, <1>10, <1>11, <1>12, <1>13, <1>14, <1>16,
     <1>17, <1>18, <1>19, <1>20, <1>21
     DEF Next, MasterStep, WorkerStep, Finished

-----------------------------------------------------------------------------
\* What it means to be outstanding, place by place.
LEMMA OutstandingPlaces ==
  \A x : x \in Outstanding <=>
    /\ x # NULL
    /\ \/ x = item
       \/ \E k \in 1 .. Len(queue) : queue[k] = x
       \/ \E w \in Worker : working_on[w] = x
  BY DEF Outstanding

\* opt_queue_pop takes the front item and shifts the rest.
LEMMA PopShifts ==
  ASSUME queue \in Seq(Item), Pop
  PROVE  \/ queue = <<>> /\ queue' = queue /\ item' = NULL /\ Len(queue) = 0
         \/ /\ Len(queue) \in Nat /\ Len(queue) > 0
            /\ item' = queue[1]
            /\ Len(queue') = Len(queue) - 1
            /\ \A k \in 1 .. Len(queue') : queue'[k] = queue[k + 1]
<1>1. CASE queue = <<>>
  BY <1>1 DEF Pop
<1>2. CASE queue # <<>>
  <2>1. Len(queue) \in Nat /\ Len(queue) > 0 /\ Head(queue) = queue[1]
    BY <1>2
  <2> QED BY <1>2, <2>1 DEF Pop
<1> QED BY <1>1, <1>2

\* Appending leaves the old elements where they were.
LEMMA AppendKeeps ==
  ASSUME queue \in Seq(Item), NEW x \in Item, queue' = Append(queue, x)
  PROVE  /\ Len(queue) \in Nat
         /\ Len(queue') = Len(queue) + 1
         /\ queue'[Len(queue) + 1] = x
         /\ \A k \in 1 .. Len(queue) : queue'[k] = queue[k]
  OBVIOUS

\* An item differs from the null pointer in its particle and its round.
LEMMA NullUid == \A i \in Item : i.uid # NULL.uid /\ i # NULL /\ i.uid \in Particle /\ i.n >= 1
  BY FarmAssumption DEF Item, NULL, Particle

\* Popping into the empty hand moves an item and loses none.
LEMMA PopIntoHand ==
  ASSUME TypeOK, NoDuplicate, item = NULL, Pop, UNCHANGED working_on
  PROVE  NoDuplicate' /\ Outstanding' = Outstanding
<1>0. /\ queue \in Seq(Item)
      /\ \A k \in 1 .. Len(queue) : queue[k] \in Item
      /\ \A w \in Worker : working_on[w] = NULL \/ working_on[w] \in Item
  BY DEF TypeOK, ItemOrNull
<1>1. CASE queue = <<>> /\ queue' = queue /\ item' = NULL
  BY <1>1 DEF NoDuplicate, Outstanding
<1>2. CASE /\ Len(queue) \in Nat /\ Len(queue) > 0
           /\ item' = queue[1]
           /\ Len(queue') = Len(queue) - 1
           /\ \A k \in 1 .. Len(queue') : queue'[k] = queue[k + 1]
  <2>0. 1 \in 1 .. Len(queue) /\ \A k \in 1 .. Len(queue') : k + 1 \in 1 .. Len(queue) /\ k + 1 # 1
    BY <1>2
  <2>1. NoDuplicate'
    <3>1. \A j, k \in 1 .. Len(queue') : queue'[j].uid = queue'[k].uid => j = k
      <4> SUFFICES ASSUME NEW j \in 1 .. Len(queue'), NEW k \in 1 .. Len(queue'),
                          queue'[j].uid = queue'[k].uid
                   PROVE  j = k
        OBVIOUS
      <4>1. queue[j + 1].uid = queue[k + 1].uid
        BY <1>2
      <4>2. j + 1 \in 1 .. Len(queue) /\ k + 1 \in 1 .. Len(queue)
        BY <2>0
      <4>3. j + 1 = k + 1
        BY <4>1, <4>2 DEF NoDuplicate
      <4> QED BY <4>3
    <3>2. \A k \in 1 .. Len(queue') : queue'[k].uid # item'.uid
      BY <1>2, <2>0 DEF NoDuplicate
    <3>3. \A k \in 1 .. Len(queue'), w \in Worker : queue'[k].uid # working_on'[w].uid
      <4> SUFFICES ASSUME NEW k \in 1 .. Len(queue'), NEW w \in Worker
                   PROVE  queue'[k].uid # working_on'[w].uid
        OBVIOUS
      <4>1. queue[k + 1].uid # working_on[w].uid
        BY <2>0 DEF NoDuplicate
      <4> QED BY <1>2, <4>1
    <3>4. \A w \in Worker : working_on'[w] # NULL => working_on'[w].uid # item'.uid
      BY <1>2, <2>0 DEF NoDuplicate
    <3> QED BY <3>1, <3>2, <3>3, <3>4 DEF NoDuplicate
  <2>2. \A x : (\E k \in 1 .. Len(queue) : queue[k] = x)
             <=> x = item' \/ \E k \in 1 .. Len(queue') : queue'[k] = x
    <3>1. \A k \in 1 .. Len(queue) : k = 1 \/ (k - 1 \in 1 .. Len(queue') /\ queue'[k - 1] = queue[k])
      BY <1>2
    <3>2. \A k \in 1 .. Len(queue') : k + 1 \in 1 .. Len(queue) /\ queue[k + 1] = queue'[k]
      BY <1>2
    <3>3. ASSUME NEW x, NEW k \in 1 .. Len(queue), queue[k] = x
          PROVE  x = item' \/ \E j \in 1 .. Len(queue') : queue'[j] = x
      BY <1>2, <3>1, <3>3
    <3>4. ASSUME NEW x, x = item' \/ \E j \in 1 .. Len(queue') : queue'[j] = x
          PROVE  \E k \in 1 .. Len(queue) : queue[k] = x
      BY <1>2, <2>0, <3>2, <3>4
    <3> QED BY <3>3, <3>4
  <2>3. item' # NULL
    BY <1>0, <1>2, NullUid
  <2>4. \A x : x \in Outstanding' <=> x \in Outstanding
    BY <2>2, <2>3 DEF Outstanding
  <2> QED BY <2>1, <2>4
<1> QED BY <1>0, <1>1, <1>2, PopShifts

\* Sending the item in hand to a rank that has none, and popping the next.
LEMMA SendAndPop ==
  ASSUME TypeOK, NoDuplicate, item # NULL, Pop,
         NEW r \in Worker, working_on[r] = NULL,
         working_on' = [working_on EXCEPT ![r] = item]
  PROVE  NoDuplicate' /\ Outstanding' = Outstanding
<1>0. /\ queue \in Seq(Item)
      /\ \A k \in 1 .. Len(queue) : queue[k] \in Item
      /\ \A w \in Worker : working_on[w] = NULL \/ working_on[w] \in Item
      /\ item \in Item
  BY DEF TypeOK, ItemOrNull
<1>1. working_on'[r] = item /\ \A w \in Worker : w # r => working_on'[w] = working_on[w]
  BY DEF TypeOK
<1>2. \A x : x # NULL => ((\E w \in Worker : working_on'[w] = x)
                       <=> x = item \/ \E w \in Worker : working_on[w] = x)
  BY <1>1
<1>3. \A v, w \in Worker : working_on'[v] # NULL /\ working_on'[v].uid = working_on'[w].uid => v = w
  <2> SUFFICES ASSUME NEW v \in Worker, NEW w \in Worker,
                      working_on'[v] # NULL, working_on'[v].uid = working_on'[w].uid
               PROVE  v = w
    OBVIOUS
  <2>1. CASE v = r /\ w # r
    <3>1. working_on[w].uid = item.uid
      BY <1>1, <2>1
    <3>2. working_on[w] # NULL
      BY <1>0, <3>1, NullUid
    <3> QED BY <3>1, <3>2 DEF NoDuplicate
  <2>2. CASE v # r /\ w = r
    BY <1>1, <2>2 DEF NoDuplicate
  <2>3. CASE v # r /\ w # r
    BY <1>1, <2>3 DEF NoDuplicate
  <2> QED BY <2>1, <2>2, <2>3
<1>4. CASE queue = <<>> /\ queue' = queue /\ item' = NULL /\ Len(queue) = 0
  <2>1. \A w \in Worker : working_on'[w] # NULL => working_on'[w].uid # item'.uid
    BY <1>0, <1>1, <1>4, NullUid
  <2>2. NoDuplicate'
    BY <1>3, <1>4, <2>1 DEF NoDuplicate
  <2>3. \A x : x \in Outstanding' <=> x \in Outstanding
    BY <1>0, <1>2, <1>4, NullUid DEF Outstanding
  <2> QED BY <2>2, <2>3
<1>5. CASE /\ Len(queue) \in Nat /\ Len(queue) > 0
           /\ item' = queue[1]
           /\ Len(queue') = Len(queue) - 1
           /\ \A k \in 1 .. Len(queue') : queue'[k] = queue[k + 1]
  <2>0. 1 \in 1 .. Len(queue) /\ \A k \in 1 .. Len(queue') : k + 1 \in 1 .. Len(queue) /\ k + 1 # 1
    BY <1>5
  <2>1. NoDuplicate'
    <3>1. \A j, k \in 1 .. Len(queue') : queue'[j].uid = queue'[k].uid => j = k
      <4> SUFFICES ASSUME NEW j \in 1 .. Len(queue'), NEW k \in 1 .. Len(queue'),
                          queue'[j].uid = queue'[k].uid
                   PROVE  j = k
        OBVIOUS
      <4>1. queue[j + 1].uid = queue[k + 1].uid
        BY <1>5
      <4>2. j + 1 \in 1 .. Len(queue) /\ k + 1 \in 1 .. Len(queue)
        BY <2>0
      <4>3. j + 1 = k + 1
        BY <4>1, <4>2 DEF NoDuplicate
      <4> QED BY <4>3
    <3>2. \A k \in 1 .. Len(queue') : queue'[k].uid # item'.uid
      BY <1>5, <2>0 DEF NoDuplicate
    <3>3. \A k \in 1 .. Len(queue'), w \in Worker : queue'[k].uid # working_on'[w].uid
      <4> SUFFICES ASSUME NEW k \in 1 .. Len(queue'), NEW w \in Worker
                   PROVE  queue'[k].uid # working_on'[w].uid
        OBVIOUS
      <4>1. queue[k + 1].uid # working_on[w].uid /\ queue[k + 1].uid # item.uid
        BY <2>0 DEF NoDuplicate
      <4> QED BY <1>1, <1>5, <4>1
    <3>4. \A w \in Worker : working_on'[w] # NULL => working_on'[w].uid # item'.uid
      <4> SUFFICES ASSUME NEW w \in Worker PROVE working_on'[w].uid # item'.uid
        OBVIOUS
      <4>1. queue[1].uid # working_on[w].uid /\ queue[1].uid # item.uid
        BY <2>0 DEF NoDuplicate
      <4> QED BY <1>1, <1>5, <4>1
    <3> QED BY <1>3, <3>1, <3>2, <3>3, <3>4 DEF NoDuplicate
  <2>2. \A x : (\E k \in 1 .. Len(queue) : queue[k] = x)
             <=> x = item' \/ \E k \in 1 .. Len(queue') : queue'[k] = x
    <3>1. \A k \in 1 .. Len(queue) : k = 1 \/ (k - 1 \in 1 .. Len(queue') /\ queue'[k - 1] = queue[k])
      BY <1>5
    <3>2. \A k \in 1 .. Len(queue') : k + 1 \in 1 .. Len(queue) /\ queue[k + 1] = queue'[k]
      BY <1>5
    <3>3. ASSUME NEW x, NEW k \in 1 .. Len(queue), queue[k] = x
          PROVE  x = item' \/ \E j \in 1 .. Len(queue') : queue'[j] = x
      BY <1>5, <3>1, <3>3
    <3>4. ASSUME NEW x, x = item' \/ \E j \in 1 .. Len(queue') : queue'[j] = x
          PROVE  \E k \in 1 .. Len(queue) : queue[k] = x
      BY <1>5, <2>0, <3>2, <3>4
    <3> QED BY <3>3, <3>4
  <2>3. item' # NULL
    BY <1>0, <1>5, <2>0, NullUid
  <2>4. \A x : x \in Outstanding' <=> x \in Outstanding
    <3> SUFFICES ASSUME NEW x, x # NULL
                 PROVE  x \in Outstanding' <=> x \in Outstanding
      BY DEF Outstanding
    <3>1. x \in Outstanding <=>
            x = item \/ (\E k \in 1 .. Len(queue) : queue[k] = x) \/ \E w \in Worker : working_on[w] = x
      BY OutstandingPlaces
    <3>2. x \in Outstanding' <=>
            x = item' \/ (\E k \in 1 .. Len(queue') : queue'[k] = x) \/ \E w \in Worker : working_on'[w] = x
      BY DEF Outstanding
    <3>3. (\E w \in Worker : working_on'[w] = x) <=> x = item \/ \E w \in Worker : working_on[w] = x
      BY <1>2
    <3>4. (\E k \in 1 .. Len(queue) : queue[k] = x)
            <=> x = item' \/ \E k \in 1 .. Len(queue') : queue'[k] = x
      BY <2>2
    <3> QED BY <3>1, <3>2, <3>3, <3>4
  <2> QED BY <2>1, <2>4
<1> QED BY <1>0, <1>4, <1>5, PopShifts

\* Pushing an item for a particle that has none under way.
LEMMA PushAdds ==
  ASSUME TypeOK, NoDuplicate, NEW x \in Item, queue' = Append(queue, x),
         \A i \in Outstanding : i.uid # x.uid,
         UNCHANGED <<item, working_on>>
  PROVE  NoDuplicate' /\ Outstanding' = Outstanding \cup {x}
<1>0. /\ queue \in Seq(Item)
      /\ \A k \in 1 .. Len(queue) : queue[k] \in Item
      /\ \A w \in Worker : working_on[w] = NULL \/ working_on[w] \in Item
      /\ item = NULL \/ item \in Item
  BY DEF TypeOK, ItemOrNull
<1>1. /\ Len(queue) \in Nat
      /\ Len(queue') = Len(queue) + 1
      /\ queue'[Len(queue) + 1] = x
      /\ \A k \in 1 .. Len(queue) : queue'[k] = queue[k]
  BY <1>0, AppendKeeps
<1>2. \A k \in 1 .. Len(queue') : k \in 1 .. Len(queue) \/ k = Len(queue) + 1
  BY <1>1
<1>3. /\ \A k \in 1 .. Len(queue) : queue[k].uid # x.uid
      /\ item.uid # x.uid
      /\ \A w \in Worker : working_on[w].uid # x.uid
  BY <1>0, NullUid, OutstandingPlaces
<1>4. \A j, k \in 1 .. Len(queue') : queue'[j].uid = queue'[k].uid => j = k
  <2> SUFFICES ASSUME NEW j \in 1 .. Len(queue'), NEW k \in 1 .. Len(queue'),
                      queue'[j].uid = queue'[k].uid
               PROVE  j = k
    OBVIOUS
  <2>1. CASE j \in 1 .. Len(queue) /\ k \in 1 .. Len(queue)
    <3>1. queue[j].uid = queue[k].uid
      BY <1>1, <2>1
    <3> QED BY <2>1, <3>1 DEF NoDuplicate
  <2>2. CASE j = Len(queue) + 1 \/ k = Len(queue) + 1
    BY <1>1, <1>2, <1>3, <2>2
  <2> QED BY <1>2, <2>1, <2>2
<1>5. NoDuplicate'
  BY <1>1, <1>2, <1>3, <1>4 DEF NoDuplicate
<1>6. \A y : (\E k \in 1 .. Len(queue') : queue'[k] = y)
           <=> y = x \/ \E k \in 1 .. Len(queue) : queue[k] = y
  <2>1. \A k \in 1 .. Len(queue) : k \in 1 .. Len(queue')
    BY <1>1
  <2>2. Len(queue) + 1 \in 1 .. Len(queue')
    BY <1>1
  <2> QED BY <1>1, <1>2, <2>1, <2>2
<1>7. \A y : y \in Outstanding' <=> y \in Outstanding \/ y = x
  BY <1>6, NullUid DEF Outstanding
<1> QED BY <1>5, <1>7

\* Crediting the result of a rank takes its item out of circulation.
LEMMA CreditRemoves ==
  ASSUME TypeOK, NoDuplicate, NEW r \in Worker, working_on[r] # NULL,
         working_on' = [working_on EXCEPT ![r] = NULL], UNCHANGED <<item, queue>>
  PROVE  /\ NoDuplicate'
         /\ Outstanding' = Outstanding \ {working_on[r]}
         /\ \A i \in Outstanding' : i.uid # working_on[r].uid
<1>0. /\ \A k \in 1 .. Len(queue) : queue[k] \in Item
      /\ \A w \in Worker : working_on[w] = NULL \/ working_on[w] \in Item
      /\ item = NULL \/ item \in Item
  BY DEF TypeOK, ItemOrNull
<1>1. working_on'[r] = NULL /\ \A w \in Worker : w # r => working_on'[w] = working_on[w]
  BY DEF TypeOK
<1>2. NoDuplicate'
  BY <1>0, <1>1, NullUid DEF NoDuplicate
<1>3. /\ \A k \in 1 .. Len(queue) : queue[k].uid # working_on[r].uid
      /\ item.uid # working_on[r].uid
      /\ \A w \in Worker : w # r => working_on[w].uid # working_on[r].uid
  BY <1>0, NullUid DEF NoDuplicate
<1>4. \A i \in Outstanding' : i.uid # working_on[r].uid
  BY <1>1, <1>3 DEF Outstanding
<1>5. \A i : i \in Outstanding' <=> i \in Outstanding /\ i # working_on[r]
  BY <1>1, <1>3 DEF Outstanding
<1> QED BY <1>2, <1>4, <1>5

\* Crediting a result and pushing the next evaluation of the same particle.
LEMMA CreditAndPush ==
  ASSUME TypeOK, NoDuplicate, NEW r \in Worker, working_on[r] # NULL,
         working_on' = [working_on EXCEPT ![r] = NULL],
         NEW x \in Item, x.uid = working_on[r].uid,
         queue' = Append(queue, x), UNCHANGED item
  PROVE  /\ NoDuplicate'
         /\ Outstanding' = (Outstanding \ {working_on[r]}) \cup {x}
         /\ \A i \in Outstanding' : i # x => i.uid # x.uid
<1>0. /\ queue \in Seq(Item)
      /\ \A k \in 1 .. Len(queue) : queue[k] \in Item
      /\ \A w \in Worker : working_on[w] = NULL \/ working_on[w] \in Item
      /\ item = NULL \/ item \in Item
  BY DEF TypeOK, ItemOrNull
<1>1. working_on'[r] = NULL /\ \A w \in Worker : w # r => working_on'[w] = working_on[w]
  BY DEF TypeOK
<1>2. /\ Len(queue) \in Nat
      /\ Len(queue') = Len(queue) + 1
      /\ queue'[Len(queue) + 1] = x
      /\ \A k \in 1 .. Len(queue) : queue'[k] = queue[k]
  BY <1>0, AppendKeeps
<1>3. \A k \in 1 .. Len(queue') : k \in 1 .. Len(queue) \/ k = Len(queue) + 1
  BY <1>2
<1>4. /\ \A k \in 1 .. Len(queue) : queue[k].uid # x.uid
      /\ item.uid # x.uid
      /\ \A w \in Worker : w # r => working_on[w].uid # x.uid
  BY <1>0, NullUid DEF NoDuplicate
<1>5. NoDuplicate'
  <2>1. \A j, k \in 1 .. Len(queue') : queue'[j].uid = queue'[k].uid => j = k
    <3> SUFFICES ASSUME NEW j \in 1 .. Len(queue'), NEW k \in 1 .. Len(queue'),
                        queue'[j].uid = queue'[k].uid
                 PROVE  j = k
      OBVIOUS
    <3>1. CASE j \in 1 .. Len(queue) /\ k \in 1 .. Len(queue)
      <4>1. queue[j].uid = queue[k].uid
        BY <1>2, <3>1
      <4> QED BY <3>1, <4>1 DEF NoDuplicate
    <3>2. CASE j = Len(queue) + 1 \/ k = Len(queue) + 1
      BY <1>2, <1>3, <1>4, <3>2
    <3> QED BY <1>3, <3>1, <3>2
  <2>2. \A k \in 1 .. Len(queue') : queue'[k].uid # item'.uid
    BY <1>2, <1>3, <1>4 DEF NoDuplicate
  <2>3. \A k \in 1 .. Len(queue'), w \in Worker : queue'[k].uid # working_on'[w].uid
    <3> SUFFICES ASSUME NEW k \in 1 .. Len(queue'), NEW w \in Worker
                 PROVE  queue'[k].uid # working_on'[w].uid
      OBVIOUS
    <3>1. queue'[k] \in Item
      BY <1>0, <1>2, <1>3
    <3>2. CASE w = r
      BY <1>1, <3>1, <3>2, NullUid
    <3>3. CASE w # r /\ k \in 1 .. Len(queue)
      BY <1>1, <1>2, <3>3 DEF NoDuplicate
    <3>4. CASE w # r /\ k = Len(queue) + 1
      BY <1>1, <1>2, <1>4, <3>4
    <3> QED BY <1>3, <3>2, <3>3, <3>4
  <2>4. \A w \in Worker : working_on'[w] # NULL => working_on'[w].uid # item'.uid
    BY <1>1 DEF NoDuplicate
  <2>5. \A v, w \in Worker : working_on'[v] # NULL /\ working_on'[v].uid = working_on'[w].uid => v = w
    <3> SUFFICES ASSUME NEW v \in Worker, NEW w \in Worker,
                        working_on'[v] # NULL, working_on'[v].uid = working_on'[w].uid
                 PROVE  v = w
      OBVIOUS
    <3>1. v # r /\ working_on'[v] = working_on[v] /\ working_on[v] \in Item
      BY <1>0, <1>1
    <3>2. w # r
      BY <1>1, <3>1, NullUid
    <3> QED BY <1>1, <3>1, <3>2 DEF NoDuplicate
  <2> QED BY <2>1, <2>2, <2>3, <2>4, <2>5 DEF NoDuplicate
<1>6. \A y : (\E k \in 1 .. Len(queue') : queue'[k] = y)
           <=> y = x \/ \E k \in 1 .. Len(queue) : queue[k] = y
  <2>1. \A k \in 1 .. Len(queue) : k \in 1 .. Len(queue')
    BY <1>2
  <2>2. Len(queue) + 1 \in 1 .. Len(queue')
    BY <1>2
  <2> QED BY <1>2, <1>3, <2>1, <2>2
<1>7. \A y : (y # NULL /\ \E w \in Worker : working_on'[w] = y)
           <=> (y # NULL /\ y # working_on[r] /\ \E w \in Worker : working_on[w] = y)
  BY <1>1, <1>4
<1>8. \A y : y \in Outstanding' <=> (y \in Outstanding /\ y # working_on[r]) \/ y = x
  <2>1. item # working_on[r] /\ \A k \in 1 .. Len(queue) : queue[k] # working_on[r]
    BY <1>4
  <2> SUFFICES ASSUME NEW y, y # NULL
               PROVE  y \in Outstanding' <=> (y \in Outstanding /\ y # working_on[r]) \/ y = x
    BY NullUid DEF Outstanding
  <2>2. y \in Outstanding <=>
          y = item \/ (\E k \in 1 .. Len(queue) : queue[k] = y) \/ \E w \in Worker : working_on[w] = y
    BY OutstandingPlaces
  <2>3. y \in Outstanding' <=>
          y = item' \/ (\E k \in 1 .. Len(queue') : queue'[k] = y) \/ \E w \in Worker : working_on'[w] = y
    BY DEF Outstanding
  <2>4. (\E w \in Worker : working_on'[w] = y)
          <=> y # working_on[r] /\ \E w \in Worker : working_on[w] = y
    BY <1>7
  <2>5. (\E k \in 1 .. Len(queue') : queue'[k] = y) <=> y = x \/ \E k \in 1 .. Len(queue) : queue[k] = y
    BY <1>6
  <2> QED BY <2>1, <2>2, <2>3, <2>4, <2>5
<1>9. \A i \in Outstanding' : i # x => i.uid # x.uid
  BY <1>4, <1>8 DEF Outstanding
<1> QED BY <1>5, <1>8, <1>9

-----------------------------------------------------------------------------
\* At the start nothing is under way.
LEMMA ItemsInit == Init => Items
<1> SUFFICES ASSUME Init PROVE Items
  OBVIOUS
<1> USE FarmAssumption
<1>1. Len(queue) = 0 /\ item = NULL /\ \A w \in Worker : working_on[w] = NULL
  BY DEF Init
<1>2. Outstanding = {}
  BY <1>1 DEF Outstanding
<1>3. NoDuplicate
  BY <1>1 DEF NoDuplicate
<1>4. LatestRound /\ HeapIsReachable
  BY <1>2 DEF Init, LatestRound, HeapIsReachable
<1>5. NoLoss /\ Fresh /\ BackIsLive /\ StopFlags
  BY DEF Init, NoLoss, Fresh, BackIsLive, StopFlags
<1> QED BY <1>3, <1>4, <1>5 DEF Items

\* A step that neither pushes nor frees keeps everything, wherever it moves
\* the items to.
LEMMA ItemsMove ==
  ASSUME Items, NoDuplicate', Outstanding' = Outstanding,
         UNCHANGED <<started, evals, heap, queue_back>>,
         spso_stop_flag => spso_stop_flag',
         already_stopped' => already_stopped \/ spso_stop_flag',
         \/ mpc' = mpc
         \/ mpc' # "start" /\ (mpc' = "crashed" \/ started = SwarmSize)
  PROVE  Items'
<1>1. LatestRound'
  BY DEF Items, LatestRound
<1>2. NoLoss'
  BY DEF Items, NoLoss
<1>3. HeapIsReachable'
  BY DEF Items, HeapIsReachable
<1>4. Fresh'
  BY DEF Items, Fresh
<1>5. BackIsLive'
  BY DEF Items, BackIsLive
<1>6. StopFlags'
  BY DEF Items, StopFlags
<1> QED BY <1>1, <1>2, <1>3, <1>4, <1>5, <1>6 DEF Items

\* In particular one that moves none.
LEMMA ItemsKeep ==
  ASSUME Items, UNCHANGED <<queue, item, working_on, started, evals, heap, queue_back>>,
         spso_stop_flag => spso_stop_flag',
         already_stopped' => already_stopped \/ spso_stop_flag',
         \/ mpc' = mpc
         \/ mpc' # "start" /\ (mpc' = "crashed" \/ started = SwarmSize)
  PROVE  Items'
<1>1. NoDuplicate'
  BY DEF Items, NoDuplicate
<1>2. Outstanding' = Outstanding
  BY DEF Outstanding
<1> QED BY <1>1, <1>2, ItemsMove

\* Every action keeps the items in order.
LEMMA ItemsStep == TypeOK /\ Protocol /\ Items /\ [Next]_vars => Items'
<1> SUFFICES ASSUME TypeOK, Protocol, Items, [Next]_vars PROVE Items'
  OBVIOUS
<1> USE FarmAssumption
<1>0. NoDuplicate
  BY DEF Items
<1>1. CASE StartParticle
  <2>0. /\ started \in Particle /\ started' = started + 1 /\ mpc = "start"
        /\ UNCHANGED <<already_stopped, item, working_on, mpc>>
    BY <1>1 DEF StartParticle, TypeOK, Particle, loop
  <2>1. CASE Push(started, {})
    <3> DEFINE x == [uid |-> started, n |-> evals[started] + 1]
    <3>1. /\ evals' = [evals EXCEPT ![started] = @ + 1]
          /\ queue' = Append(queue, x) /\ queue_back' = x /\ heap' = heap \cup {x}
          /\ UNCHANGED spso_stop_flag
      BY <2>1 DEF Push
    <3>2. x \in Item /\ x.uid = started /\ x.n = evals[started] + 1 /\ evals[started] \in Nat
      BY <2>0, <2>1 DEF Push, TypeOK, Item
    <3> HIDE DEF x
    <3>3. \A i \in Outstanding : i \in Item
      BY DEF Outstanding, TypeOK, ItemOrNull
    <3>4. \A i \in Outstanding : i.uid # x.uid
      <4> SUFFICES ASSUME NEW i \in Outstanding, i.uid = started PROVE FALSE
        BY <3>2
      <4>1. i.n = evals[started] /\ evals[started] = 0
        BY <2>0 DEF Items, LatestRound, Fresh, Particle
      <4> QED BY <3>3, <4>1, NullUid
    <3>5. NoDuplicate' /\ Outstanding' = Outstanding \cup {x}
      BY <1>0, <2>0, <3>1, <3>2, <3>4, PushAdds
    <3>6. LatestRound'
      <4> SUFFICES ASSUME NEW i \in Outstanding' PROVE i.n = evals'[i.uid]
        BY DEF LatestRound
      <4>1. CASE i = x
        BY <2>0, <3>1, <3>2, <4>1 DEF TypeOK
      <4>2. CASE i \in Outstanding
        <5>1. i.n = evals[i.uid] /\ i.uid # started /\ i.uid \in Particle
          BY <3>2, <3>3, <3>4, <4>2, NullUid DEF Items, LatestRound
        <5> QED BY <3>1, <5>1 DEF TypeOK
      <4> QED BY <3>5, <4>1, <4>2
    <3>7. NoLoss'
      <4> SUFFICES ASSUME ~spso_stop_flag, NEW p \in 0 .. started
                   PROVE  \E i \in Outstanding' : i.uid = p
        BY <2>0, <3>1 DEF NoLoss, TypeOK
      <4>1. CASE p = started
        BY <3>2, <3>5, <4>1
      <4>2. CASE p # started
        <5>1. p \in 0 .. (started - 1)
          BY <4>2 DEF TypeOK
        <5> QED BY <3>5, <5>1 DEF Items, NoLoss
      <4> QED BY <4>1, <4>2
    <3>8. HeapIsReachable'
      BY <3>1, <3>5 DEF Items, HeapIsReachable
    <3>9. Fresh'
      BY <2>0, <3>1 DEF Items, Fresh, Particle, TypeOK
    <3>10. BackIsLive' /\ StopFlags'
      BY <2>0, <3>1 DEF Items, BackIsLive, StopFlags
    <3> QED BY <3>5, <3>6, <3>7, <3>8, <3>9, <3>10 DEF Items
  <2>2. CASE (spso_stop_flag /\ Settle({})) \/ Converge({})
    <3>1. /\ UNCHANGED <<evals, queue, queue_back, item, working_on>> /\ heap' = heap
          /\ spso_stop_flag' = TRUE
      BY <2>0, <2>2, Zenon DEF Settle, Converge, TypeOK
    <3>2. Outstanding' = Outstanding
      BY <3>1 DEF Outstanding
    <3>3. NoDuplicate' /\ LatestRound' /\ HeapIsReachable'
      BY <3>1, <3>2 DEF Items, NoDuplicate, LatestRound, HeapIsReachable
    <3>4. NoLoss' /\ BackIsLive' /\ StopFlags'
      BY <2>0, <3>1 DEF Items, NoLoss, BackIsLive, StopFlags
    <3>5. Fresh'
      BY <2>0, <3>1 DEF Items, Fresh, Particle
    <3> QED BY <3>3, <3>4, <3>5 DEF Items
  <2> QED BY <1>1, <2>1, <2>2 DEF StartParticle
<1>2. CASE StartDestroyedParticle
  BY <1>2, ItemsKeep DEF StartDestroyedParticle, swarm, memory
<1>3. CASE EnterMaster
  <2>1. item = NULL /\ Pop /\ UNCHANGED working_on
    BY <1>3 DEF EnterMaster, Protocol
  <2>2. NoDuplicate' /\ Outstanding' = Outstanding
    BY <1>0, <2>1, PopIntoHand
  <2> QED BY <1>3, <2>2, ItemsMove DEF EnterMaster, swarm
<1>4. CASE FirstBatch
  <2>1. PICK r \in Worker : r = worker
    BY <1>4 DEF FirstBatch
  <2>2. /\ item # NULL /\ Pop /\ working_on' = [working_on EXCEPT ![r] = item]
        /\ working_on[r] = NULL
    BY <1>4, <2>1 DEF FirstBatch, SendWork, Protocol, Ready, Worker
  <2>3. NoDuplicate' /\ Outstanding' = Outstanding
    BY <1>0, <2>2, SendAndPop
  <2> QED BY <1>4, <2>3, ItemsMove DEF FirstBatch, swarm
<1>5. CASE FirstBatchDone
  <2>1. started = SwarmSize
    BY <1>5 DEF FirstBatchDone, Items, Fresh
  <2> QED BY <1>5, <2>1, ItemsKeep DEF FirstBatchDone, swarm, memory
<1>6. ASSUME NEW w \in Worker, RecvFitness(w) PROVE Items'
  <2> DEFINE i == working_on[w]
  <2>0. /\ mpc = "poll" /\ mpc' = "act" /\ started = SwarmSize
        /\ UNCHANGED <<started, already_stopped, item>>
        /\ working_on' = [working_on EXCEPT ![w] = NULL]
    BY <1>6 DEF RecvFitness, Items, Fresh
  <2>1. i # NULL /\ i \in Item
    <3>1. i # NULL
      BY <1>6 DEF RecvFitness, Protocol, Ready, ToldToStop, Assigned
    <3> QED BY <3>1 DEF TypeOK, ItemOrNull
  <2>2. i \in Outstanding
    BY <2>1 DEF Outstanding
  <2>3. ReportFitness(i)
    BY <1>6, <2>1 DEF RecvFitness
  <2>4. CASE (spso_stop_flag /\ Settle({i})) \/ Converge({i})
    <3>1. UNCHANGED <<evals, queue, queue_back>> /\ heap' = heap \ {i} /\ spso_stop_flag' = TRUE
      BY <2>4, Zenon DEF Settle, Converge, TypeOK
    <3>2. /\ NoDuplicate' /\ Outstanding' = Outstanding \ {i}
      BY <1>0, <2>0, <2>1, <3>1, CreditRemoves
    <3>3. LatestRound' /\ HeapIsReachable'
      BY <3>1, <3>2 DEF Items, LatestRound, HeapIsReachable
    <3>4. NoLoss' /\ BackIsLive' /\ StopFlags'
      BY <2>0, <3>1 DEF NoLoss, BackIsLive, StopFlags
    <3>5. Fresh'
      BY <2>0, <3>1 DEF Items, Fresh
    <3> QED BY <3>2, <3>3, <3>4, <3>5 DEF Items
  <2>5. CASE Push(i.uid, {i})
    <3> DEFINE x == [uid |-> i.uid, n |-> evals[i.uid] + 1]
    <3>1. /\ evals' = [evals EXCEPT ![i.uid] = @ + 1]
          /\ queue' = Append(queue, x) /\ queue_back' = x /\ heap' = (heap \ {i}) \cup {x}
          /\ UNCHANGED spso_stop_flag
      BY <2>5 DEF Push
    <3>2. /\ x \in Item /\ x.uid = i.uid /\ x.n = evals[i.uid] + 1
          /\ i.uid \in Particle /\ evals[i.uid] \in Nat
      BY <2>1, <2>5 DEF Push, TypeOK, Item
    <3> HIDE DEF x
    <3>3. /\ NoDuplicate' /\ Outstanding' = (Outstanding \ {i}) \cup {x}
          /\ \A j \in Outstanding' : j # x => j.uid # x.uid
      BY <1>0, <2>0, <2>1, <3>1, <3>2, CreditAndPush
    <3>4. \A j \in Outstanding : j \in Item
      BY DEF Outstanding, TypeOK, ItemOrNull
    <3>5. LatestRound'
      <4> SUFFICES ASSUME NEW j \in Outstanding' PROVE j.n = evals'[j.uid]
        BY DEF LatestRound
      <4>1. CASE j = x
        BY <3>1, <3>2, <4>1 DEF TypeOK
      <4>2. CASE j # x
        <5>1. j.n = evals[j.uid] /\ j.uid # i.uid /\ j.uid \in Particle
          BY <3>2, <3>3, <3>4, <4>2, NullUid DEF Items, LatestRound
        <5> QED BY <3>1, <5>1 DEF TypeOK
      <4> QED BY <4>1, <4>2
    <3>6. NoLoss'
      <4> SUFFICES ASSUME ~spso_stop_flag, NEW p \in 0 .. (started - 1)
                   PROVE  \E j \in Outstanding' : j.uid = p
        BY <2>0, <3>1 DEF NoLoss
      <4>1. PICK j \in Outstanding : j.uid = p
        BY DEF Items, NoLoss
      <4>2. CASE j = i
        BY <3>2, <3>3, <4>1, <4>2
      <4>3. CASE j # i
        BY <3>3, <4>1, <4>3
      <4> QED BY <4>2, <4>3
    <3>7. HeapIsReachable'
      BY <3>1, <3>3 DEF Items, HeapIsReachable
    <3>8. Fresh'
      BY <2>0, <3>1 DEF Items, Fresh, Particle
    <3>9. BackIsLive' /\ StopFlags'
      BY <2>0, <3>1 DEF Items, BackIsLive, StopFlags
    <3> QED BY <3>3, <3>5, <3>6, <3>7, <3>8, <3>9 DEF Items
  <2> QED BY <2>3, <2>4, <2>5 DEF ReportFitness, Items, StopFlags
<1>7. CASE FindIdle
  <2>1. started = SwarmSize
    BY <1>7 DEF FindIdle, Items, Fresh
  <2> QED BY <1>7, <2>1, ItemsKeep DEF FindIdle, swarm, memory
<1>8. CASE StopWorker
  <2>1. started = SwarmSize
    BY <1>8 DEF StopWorker, Items, Fresh
  <2>2. UNCHANGED working_on
    <3>1. CASE worker = 0
      BY <1>8, <3>1 DEF StopWorker
    <3>2. CASE worker # 0
      <4>1. PICK r \in Worker : r = worker
        BY <1>8, <3>2 DEF StopWorker, TypeOK, Rank, Worker
      <4>2. working_on[r] = NULL /\ working_on' = [working_on EXCEPT ![r] = NULL]
        BY <1>8, <3>2, <4>1 DEF StopWorker, SendStop, Protocol, Ready
      <4> QED BY <4>2 DEF TypeOK
    <3> QED BY <3>1, <3>2
  <2>3. (spso_stop_flag => spso_stop_flag') /\ (already_stopped' => already_stopped \/ spso_stop_flag')
    BY <1>8, Zenon DEF StopWorker
  <2>4. mpc' # "start" /\ UNCHANGED <<queue, item, started, evals, heap, queue_back>>
    BY <1>8 DEF StopWorker, memory
  <2> QED BY <2>1, <2>2, <2>3, <2>4, ItemsKeep
<1>9. CASE Dispatch
  <2>1. PICK r \in Worker : r = worker
    BY <1>9 DEF Dispatch, TypeOK, Rank, Worker
  <2>2. /\ item # NULL /\ Pop /\ working_on' = [working_on EXCEPT ![r] = item]
        /\ working_on[r] = NULL
    BY <1>9, <2>1 DEF Dispatch, SendWork, Protocol, Ready
  <2>3. NoDuplicate' /\ Outstanding' = Outstanding
    BY <1>0, <2>2, SendAndPop
  <2>4. started = SwarmSize
    BY <1>9 DEF Dispatch, Items, Fresh
  <2> QED BY <1>9, <2>3, <2>4, ItemsMove DEF Dispatch, swarm
<1>10. CASE Starve
  <2>1. NoDuplicate' /\ Outstanding' = Outstanding
    BY <1>0, <1>10, PopIntoHand DEF Starve
  <2>2. started = SwarmSize
    BY <1>10 DEF Starve, Items, Fresh
  <2> QED BY <1>10, <2>1, <2>2, ItemsMove DEF Starve, swarm
<1>11. CASE KeepItem
  <2>1. started = SwarmSize
    BY <1>11 DEF KeepItem, Items, Fresh
  <2> QED BY <1>11, <2>1, ItemsKeep DEF KeepItem, swarm, memory
<1>12. ASSUME NEW w \in Worker, WorkerStep(w) PROVE Items'
  BY <1>12, ItemsKeep
     DEF WorkerStep, ReceiveWork, SendFitness, DropFitness, swarm, memory, loop
<1>13. CASE SignalMaster
  BY <1>13, ItemsKeep DEF SignalMaster, memory, loop
<1>14. ASSUME NEW w \in Worker, SignalWorker(w) PROVE Items'
  BY <1>14, ItemsKeep DEF SignalWorker, swarm, memory, loop
<1>15. CASE UNCHANGED vars
  BY <1>15, ItemsKeep DEF vars, swarm, memory, loop
<1> QED
  BY <1>1, <1>2, <1>3, <1>4, <1>5, <1>6, <1>7, <1>8, <1>9, <1>10, <1>11, <1>12,
     <1>13, <1>14, <1>15 DEF Next, MasterStep, Finished
-----------------------------------------------------------------------------
(* The theorems.                                                           *)

\* The invariant holds in every reachable state: types, the protocol with each
\* rank and the whereabouts of the items (taskfarm.c:176-583, 674-765).
THEOREM Inductive == Spec => []IInv
<1>1. Init => IInv
  BY TypeInit, ProtocolInit, ItemsInit DEF IInv
<1>2. IInv /\ [Next]_vars => IInv'
  BY TypeStep, ProtocolStep, ItemsStep DEF IInv
<1> QED BY <1>1, <1>2, PTL DEF Spec

\* Every variable keeps its type; in particular the master never addresses a
\* rank that does not exist (taskfarm.c:479-495, 511).
THEOREM TypeCorrect == Spec => []TypeOK
<1>1. IInv => TypeOK
  BY DEF IInv
<1> QED BY <1>1, Inductive, PTL

\* A result is credited to the evaluation it was computed for, although the
\* message says only which rank sent it (taskfarm.c:398-420, 756).
THEOREM Attribution == Spec => []ResultAttribution
<1>1. IInv => ResultAttribution
  <2> SUFFICES ASSUME IInv, NEW w \in Worker, outbox[w] # <<>>
               PROVE  /\ working_on[w] # NULL
                      /\ outbox[w] = <<working_on[w]>>
                      /\ working_on[w].n = evals[working_on[w].uid]
    BY DEF ResultAttribution
  <2>1. Assigned(w)
    BY DEF IInv, Protocol, Ready, ToldToStop
  <2>2. working_on[w] # NULL /\ outbox[w] = <<working_on[w]>>
    BY <2>1 DEF Assigned
  <2>3. working_on[w] \in Outstanding
    BY <2>2 DEF Outstanding
  <2> QED BY <2>2, <2>3 DEF IInv, Items, LatestRound
<1> QED BY <1>1, Inductive, PTL

\* No particle is being evaluated twice (taskfarm.c:176-226, 455-583).
THEOREM Unique == Spec => []NoDuplicate
<1>1. IInv => NoDuplicate
  BY DEF IInv, Items
<1> QED BY <1>1, Inductive, PTL

\* No particle is forgotten while the search goes on (taskfarm.c:481-487,
\* 555-574; optimiser.c:236-354).
THEOREM Conserved == Spec => []NoLoss
<1>1. IInv => NoLoss
  BY DEF IInv, Items
<1> QED BY <1>1, Inductive, PTL

\* Work items do not leak, and none is used after it was freed
\* (taskfarm.c:188-226, 426-433).
THEOREM NoLeakNoDangling == Spec => []HeapIsReachable
<1>1. IInv => HeapIsReachable
  BY DEF IInv, Items
<1> QED BY <1>1, Inductive, PTL

\* opt_queue_push never writes through a pointer to a freed item, although
\* opt_queue_pop leaves queue_back dangling (taskfarm.c:176-226, 430).
THEOREM LivePointer == Spec => PushThroughLivePointer
<1>1. IInv /\ [Next]_vars => [evals' # evals => queue_back \in heap \cup {NULL}]_vars
  <2> SUFFICES ASSUME IInv, [Next]_vars, evals' # evals
               PROVE  queue_back \in heap \cup {NULL}
    OBVIOUS
  <2>0. TypeOK /\ Protocol /\ BackIsLive /\ StopFlags
    BY DEF IInv, Items
  <2>1. CASE StartParticle
    BY <2>0, <2>1 DEF StartParticle, BackIsLive
  <2>2. ASSUME NEW w \in Worker, RecvFitness(w)
        PROVE  queue_back \in heap \cup {NULL}
    <3>1. CASE spso_stop_flag
      <4>1. working_on[w] # NULL
        BY <2>0, <2>2 DEF RecvFitness, Protocol, Ready, ToldToStop, Assigned
      <4> QED BY <2>2, <3>1, <4>1 DEF RecvFitness, ReportFitness, Settle
    <3>2. CASE ~spso_stop_flag
      BY <2>0, <3>2 DEF BackIsLive
    <3> QED BY <3>1, <3>2
  <2>3. StartParticle \/ \E w \in Worker : RecvFitness(w)
    BY DEF Next, MasterStep, WorkerStep, Finished, vars, swarm, memory, loop, workers,
           StartDestroyedParticle, EnterMaster, FirstBatch, FirstBatchDone, FindIdle,
           StopWorker, Dispatch, Starve, KeepItem, ReceiveWork, SendFitness, DropFitness,
           SignalMaster, SignalWorker
  <2> QED BY <2>1, <2>2, <2>3
<1> QED BY <1>1, Inductive, PTL DEF Spec, PushThroughLivePointer

\* The deadlock feared at taskfarm.c:753-755 cannot happen.
THEOREM NoDeadlockOnSend == Spec => []NoSendSendDeadlock
<1>1. IInv => NoSendSendDeadlock
  <2> SUFFICES ASSUME IInv,
                      \/ mpc = "act" /\ worker # 0
                      \/ mpc = "first" /\ worker \in Worker
               PROVE  wpc[worker] = "recv" /\ inbox[worker] = <<>> /\ outbox[worker] = <<>>
    BY DEF NoSendSendDeadlock
  <2>1. PICK r \in Worker : r = worker
    BY FarmAssumption DEF IInv, TypeOK, Rank, Worker
  <2>2. Ready(r)
    BY <2>1 DEF IInv, Protocol, Worker, Ready
  <2> QED BY <2>1, <2>2 DEF Ready
<1> QED BY <1>1, Inductive, PTL

-----------------------------------------------------------------------------
(* When the loop ends.                                                     *)

LEMMA DealingInit == Init => Dealing
BY DEF Init, Dealing

\* What popping does to the stock.
LEMMA PopTakesOne ==
  ASSUME TypeOK, Pop
  PROVE  /\ item' = NULL => queue' = <<>>
         /\ Len(queue') \in Nat
         /\ Len(queue') + (IF item' = NULL THEN 0 ELSE 1) = Len(queue)
<1>1. queue \in Seq(Item)
  BY DEF TypeOK
<1>2. CASE queue = <<>>
  BY <1>2 DEF Pop
<1>3. CASE queue # <<>>
  <2>1. Head(queue) \in Item /\ Len(Tail(queue)) = Len(queue) - 1 /\ Len(queue) \in Nat \ {0}
    BY <1>1, <1>3
  <2>2. item' # NULL
    BY <1>3, <2>1, NullUid DEF Pop
  <2>3. queue' = Tail(queue)
    BY <1>3 DEF Pop
  <2> QED BY <2>1, <2>2, <2>3
<1> QED BY <1>2, <1>3

\* The first batch leaves no rank out that there is an item for.
LEMMA DealingStep == TypeOK /\ Protocol /\ Dealing /\ [Next]_vars => Dealing'
<1> SUFFICES ASSUME TypeOK, Protocol, Dealing, [Next]_vars PROVE Dealing'
  OBVIOUS
<1> USE FarmAssumption
<1>0. queue \in Seq(Item) /\ Len(queue) \in Nat /\ started \in Nat
  BY DEF TypeOK
<1>1. CASE StartParticle
  <2>1. mpc' = "start"
    BY <1>1 DEF StartParticle, loop
  <2>2. WorkForAll => Len(queue') = Len(queue) + 1 /\ started' = started + 1
    BY <1>0, <1>1 DEF StartParticle, Push, WorkForAll
  <2> QED BY <1>0, <1>1, <2>1, <2>2 DEF Dealing, StartParticle
<1>2. CASE EnterMaster
  <2>1. started = SwarmSize /\ mpc = "start" /\ mpc' = "first" /\ worker' = 1 /\ Pop
    BY <1>2 DEF EnterMaster
  <2>2. /\ item' = NULL => queue' = <<>>
        /\ Len(queue') + (IF item' = NULL THEN 0 ELSE 1) = Len(queue)
    BY <2>1, PopTakesOne
  <2>3. WorkForAll => Len(queue) >= NumWorkers
    BY <2>1 DEF Dealing, WorkForAll
  <2>4. WorkForAll => InStock' >= NumWorkers + 1 - worker'
    BY <1>0, <2>1, <2>2, <2>3 DEF InStock
  <2>5. \A w \in Worker : ~(w < worker') /\ worker_state'[w] \in Leftover
    BY <1>2, <2>1 DEF EnterMaster, Worker
  <2> QED BY <2>1, <2>2, <2>4, <2>5 DEF Dealing
<1>3. CASE FirstBatch
  <2>1. /\ mpc = "first" /\ mpc' = "first" /\ item # NULL /\ worker \in Worker
        /\ worker' = worker + 1 /\ Pop /\ SendWork(worker)
    BY <1>3 DEF FirstBatch
  <2>2. /\ item' = NULL => queue' = <<>>
        /\ Len(queue') + (IF item' = NULL THEN 0 ELSE 1) = Len(queue)
    BY <2>1, PopTakesOne
  <2>3. WorkForAll => InStock' >= NumWorkers + 1 - worker'
    BY <1>0, <2>1, <2>2 DEF InStock, Dealing, Worker
  <2>4. ASSUME NEW w \in Worker
        PROVE  IF w < worker' THEN worker_state'[w] = "BUSY" ELSE worker_state'[w] \in Leftover
    <3>1. worker_state'[w] = IF w = worker THEN "BUSY" ELSE worker_state[w]
      BY <2>1 DEF SendWork, TypeOK
    <3> QED BY <2>1, <3>1 DEF Dealing, Worker
  <2> QED BY <2>1, <2>2, <2>3, <2>4 DEF Dealing
<1>4. CASE \/ StartDestroyedParticle \/ FirstBatchDone \/ FindIdle \/ StopWorker
           \/ Dispatch \/ Starve \/ KeepItem \/ \E w \in Worker : RecvFitness(w)
  <2>1. mpc' \in {"crashed", "poll", "act", "done"}
    BY <1>4 DEF StartDestroyedParticle, FirstBatchDone, FindIdle, StopWorker, Dispatch, Starve,
                KeepItem, RecvFitness
  <2> QED BY <2>1 DEF Dealing
<1>5. CASE \/ SignalMaster \/ UNCHANGED vars
           \/ \E w \in Worker : WorkerStep(w) \/ SignalWorker(w)
  <2>1. UNCHANGED <<started, queue, item, mpc, worker, worker_state>>
    BY <1>5 DEF SignalMaster, vars, swarm, memory, loop, WorkerStep, ReceiveWork, SendFitness,
                DropFitness, SignalWorker
  <2> QED BY <2>1 DEF Dealing, InStock
<1> QED BY <1>1, <1>2, <1>3, <1>4, <1>5 DEF Next, MasterStep, Finished

\* A rank that is told to stop is never told anything else.
LEMMA StoppedStep ==
  ASSUME WorkForAll \/ "STOPPED" \notin Leftover,
         TypeOK, Protocol, Protocol', StopInv, [Next]_vars
  PROVE  StoppedWereTold'
<1> USE FarmAssumption
<1>0. mpc' = "done" => \A w \in Worker : worker_state'[w] = "STOPPED"
  <2>1. CASE StopWorker
    BY <2>1 DEF StopWorker, AllStopped
  <2>2. CASE UNCHANGED <<mpc, worker_state>>
    BY <2>2 DEF StopInv, StoppedWereTold
  <2>3. CASE mpc' # "done"
    BY <2>3
  <2> QED BY <2>1, <2>2, <2>3
          DEF Next, MasterStep, WorkerStep, Finished, vars, loop, StartParticle,
              StartDestroyedParticle, EnterMaster, FirstBatch, FirstBatchDone, RecvFitness,
              FindIdle, Dispatch, Starve, KeepItem, ReceiveWork, SendFitness, DropFitness,
              SignalMaster, SignalWorker
<1>1. SUFFICES ASSUME mpc' \in {"poll", "act", "done"}, NEW w \in Worker,
                      worker_state'[w] = "STOPPED"
               PROVE  ~Ready(w)'
  BY <1>0 DEF StoppedWereTold, Protocol, Assigned
<1>2. ASSUME worker_state[w] = "STOPPED", mpc \in {"poll", "act", "done"}
      PROVE  inbox[w] # <<>> \/ wpc[w] = "done"
  <2>1. ToldToStop(w)
    BY <1>2 DEF StopInv, StoppedWereTold
  <2>2. inbox[w] = <<Stop>> \/ wpc[w] = "done"
    BY <2>1 DEF ToldToStop
  <2>3. <<Stop>> # <<>>
    OBVIOUS
  <2> QED BY <2>2, <2>3
<1>3. ASSUME mpc \in {"poll", "act", "done"}, UNCHANGED <<worker_state, inbox, wpc>>
      PROVE  ~Ready(w)'
  <2>1. worker_state[w] = "STOPPED"
    BY <1>1, <1>3
  <2>2. inbox[w] # <<>> \/ wpc[w] = "done"
    BY <1>2, <1>3, <2>1
  <2>3. inbox'[w] # <<>> \/ wpc'[w] = "done"
    BY <1>3, <2>2
  <2> QED BY <2>3 DEF Ready
<1>4. CASE FirstBatchDone
  <2>1. mpc = "first" /\ worker_state' = worker_state /\ (item = NULL \/ worker \notin Worker)
    BY <1>4 DEF FirstBatchDone
  <2>2. worker_state[w] \in {"BUSY"} \cup Leftover
    BY <2>1 DEF StopInv, Dealing
  <2>3. CASE WorkForAll
    <3>1. worker \in 1 .. NumWorkers + 1
      BY <2>1 DEF TypeOK, Protocol
    <3>2. worker = NumWorkers + 1
      <4>1. CASE item = NULL
        <5>1. InStock = 0
          BY <2>1, <4>1 DEF StopInv, Dealing, InStock
        <5> QED BY <2>1, <2>3, <3>1, <5>1 DEF StopInv, Dealing
      <4>2. CASE worker \notin Worker
        BY <3>1, <4>2 DEF Worker
      <4> QED BY <2>1, <4>1, <4>2
    <3>3. worker_state[w] = "BUSY"
      BY <2>1, <3>2 DEF StopInv, Dealing, Worker
    <3> QED BY <1>1, <2>1, <3>3
  <2>4. CASE "STOPPED" \notin Leftover
    BY <1>1, <2>1, <2>2, <2>4
  <2> QED BY <2>3, <2>4
<1>5. ASSUME NEW v \in Worker, RecvFitness(v)
      PROVE  ~Ready(w)'
  BY <1>3, <1>5 DEF RecvFitness
<1>6. CASE FindIdle \/ KeepItem
  BY <1>3, <1>6 DEF FindIdle, KeepItem, workers
<1>7. CASE StopWorker
  <2>1. mpc = "act" /\ wpc' = wpc
    BY <1>7 DEF StopWorker
  <2>2. CASE worker = 0
    BY <1>3, <1>7, <2>1, <2>2 DEF StopWorker
  <2>3. CASE worker # 0
    <3>1. SendStop(worker) /\ worker \in Worker
      BY <1>7, <2>3 DEF StopWorker, TypeOK, Rank, Worker
    <3>2. CASE w = worker
      <4>1. inbox'[w] = Append(inbox[w], Stop)
        BY <3>1, <3>2 DEF SendStop, TypeOK
      <4>2. inbox[w] \in Seq(Message) /\ Stop \in Message
        BY DEF TypeOK, Message, Stop, ItemOrNull
      <4> QED BY <4>1, <4>2 DEF Ready
    <3>3. CASE w # worker
      <4>1. inbox'[w] = inbox[w] /\ worker_state'[w] = worker_state[w]
        BY <3>1, <3>3 DEF SendStop, TypeOK
      <4> QED BY <1>1, <1>2, <2>1, <4>1 DEF Ready
    <3> QED BY <3>2, <3>3
  <2> QED BY <2>2, <2>3
<1>8. CASE Dispatch
  <2>1. mpc = "act" /\ wpc' = wpc /\ SendWork(worker) /\ worker \in Worker
    BY <1>8 DEF Dispatch, TypeOK, Rank, Worker
  <2>2. w # worker
    BY <1>1, <2>1 DEF SendWork, TypeOK
  <2>3. inbox'[w] = inbox[w] /\ worker_state'[w] = worker_state[w]
    BY <2>1, <2>2 DEF SendWork, TypeOK
  <2> QED BY <1>1, <1>2, <2>1, <2>3 DEF Ready
<1>9. CASE Starve
  <2>1. mpc = "act" /\ UNCHANGED <<wpc, inbox>>
    BY <1>9 DEF Starve, workers
  <2>2. worker_state'[w] = worker_state[w]
    BY <1>1, <1>9 DEF Starve, TypeOK
  <2> QED BY <1>1, <1>2, <2>1, <2>2 DEF Ready
<1>10. ASSUME NEW v \in Worker, WorkerStep(v)
       PROVE  ~Ready(w)'
  <2>1. UNCHANGED <<mpc, worker_state>>
    BY <1>10 DEF WorkerStep, ReceiveWork, SendFitness, DropFitness, loop
  <2>0. ToldToStop(w)
    BY <1>1, <2>1 DEF StopInv, StoppedWereTold
  <2>2. \/ inbox[w] = <<Stop>> /\ wpc[w] = "recv"
        \/ inbox[w] = <<>> /\ wpc[w] = "done"
    BY <2>0 DEF ToldToStop
  <2>3. CASE v = w
    <3>1. ReceiveWork(w) /\ inbox[w] = <<Stop>>
      BY <1>10, <2>2, <2>3 DEF WorkerStep, ReceiveWork, SendFitness, DropFitness
    <3>2. wpc'[w] = "done"
      BY <3>1 DEF ReceiveWork, Stop, TypeOK
    <3> QED BY <3>2 DEF Ready
  <2>4. CASE v # w
    <3>1. inbox'[w] = inbox[w] /\ wpc'[w] = wpc[w]
      <4>1. CASE ReceiveWork(v)
        BY <2>4, <4>1 DEF ReceiveWork, TypeOK
      <4>2. CASE SendFitness(v) \/ DropFitness(v)
        BY <2>4, <4>2 DEF SendFitness, DropFitness, TypeOK
      <4> QED BY <1>10, <4>1, <4>2 DEF WorkerStep
    <3>2. inbox'[w] = <<Stop>> \/ wpc'[w] = "done"
      BY <2>2, <3>1
    <3>3. <<Stop>> # <<>>
      OBVIOUS
    <3> QED BY <3>2, <3>3 DEF Ready
  <2> QED BY <2>3, <2>4
<1>11. CASE SignalMaster \/ UNCHANGED vars \/ \E v \in Worker : SignalWorker(v)
  <2>1. UNCHANGED <<mpc, worker_state, inbox, wpc>>
    BY <1>11 DEF SignalMaster, SignalWorker, vars, loop, workers
  <2> QED BY <1>1, <1>3, <2>1
<1>12. CASE StartParticle \/ StartDestroyedParticle \/ EnterMaster \/ FirstBatch
  BY <1>1, <1>12 DEF StartParticle, StartDestroyedParticle, EnterMaster, FirstBatch, loop
<1> QED BY <1>4, <1>5, <1>6, <1>7, <1>8, <1>9, <1>10, <1>11, <1>12
        DEF Next, MasterStep, Finished

\* The master ends its loop only when every rank has been told to stop and no
\* result is left unread, provided that every rank gets an item in the first batch
\* or that the memory does not happen to hold STOPPED (taskfarm.c:455-583).
THEOREM LoopEndsWhenAllAreTold ==
  ASSUME WorkForAll \/ "STOPPED" \notin Leftover
  PROVE  Spec => []DoneMeansAllStopped
<1>1. Init => StopInv
  BY DealingInit DEF StopInv, StoppedWereTold, Init
<1>2. IInv /\ IInv' /\ StopInv /\ [Next]_vars => StopInv'
  BY DealingStep, StoppedStep DEF IInv, StopInv
<1>3. IInv /\ StopInv => DoneMeansAllStopped
  <2> SUFFICES ASSUME IInv, StopInv, mpc = "done", NEW w \in Worker
               PROVE  /\ wpc[w] = "done" \/ Stop \in {inbox[w][k] : k \in DOMAIN inbox[w]}
                      /\ outbox[w] = <<>>
    BY DEF DoneMeansAllStopped
  <2>1. ToldToStop(w)
    BY DEF StopInv, StoppedWereTold
  <2>2. inbox[w] = <<Stop>> => inbox[w][1] = Stop /\ 1 \in DOMAIN inbox[w]
    OBVIOUS
  <2> QED BY <2>1, <2>2 DEF ToldToStop
<1> QED BY <1>1, <1>2, <1>3, Inductive, PTL DEF Spec
=============================================================================

------------------------------ MODULE TaskFarm ------------------------------
(***************************************************************************)
(* The MPI task farm of src/src/taskfarm.c, with the parts of optimiser.c  *)
(* and spso.c that feed it and stop it.  Rank 0 (Master) keeps a queue of  *)
(* work items, one per evaluation of a particle, and deals them to ranks   *)
(* 1..NumWorkers, each of which runs the item and answers with a bare      *)
(* double.  The answer does not say which item it belongs to: the master   *)
(* credits it to the particle it remembers in working_on_item.             *)
(*                                                                         *)
(* A step is the code between two points where other ranks' messages or a  *)
(* signal can make a difference.  Fitness values, commands, the database   *)
(* and sleep() are left out; a reported fitness either makes the swarm     *)
(* converge or moves the particle on.                                      *)
(*                                                                         *)
(* A definition marked "A fault" is used by no action: it is the operator  *)
(* after it with a plausible bug, which some property must detect.         *)
(***************************************************************************)
EXTENDS Integers, Sequences, FiniteSets

CONSTANTS
  NumWorkers,   \* MPI ranks other than the master
  SwarmSize,    \* spso_swarm->size
  MaxEvals,     \* bound: evaluations of one particle before the swarm converges
  Resume,       \* the database held a previous run (OPT_DB_RESUME)
  Signalled,    \* ranks the scheduler may send the quit signal to
  Leftover      \* what the uninitialised worker_state[] of master() may read as

States == {"STOPPED", "BUSY", "WAITING"}

ASSUME FarmAssumption ==
  /\ NumWorkers \in Nat \ {0}
  /\ SwarmSize \in Nat
  /\ MaxEvals \in Nat \ {0}
  /\ Resume \in BOOLEAN
  /\ Signalled \subseteq 0 .. NumWorkers
  /\ Leftover \subseteq States
  /\ Leftover # {}

Master == 0
Rank == 0 .. NumWorkers
Worker == 1 .. NumWorkers
Particle == 0 .. (SwarmSize - 1)

\* A work item is the n-th evaluation of particle uid; NULL is no item.
Item == [uid : Particle, n : 1 .. MaxEvals]
NULL == [uid |-> -1, n |-> 0]
ItemOrNull == Item \cup {NULL}

\* Header and body of opt_task_send_to_worker travel on one ordered channel.
Message == [type : {"WORK", "STOP"}, item : ItemOrNull]
Work(i) == [type |-> "WORK", item |-> i]
Stop == [type |-> "STOP", item |-> NULL]

VARIABLES
  \* the master's optimiser and swarm
  started,          \* particles handled so far by spso_start_search
  evals,            \* work items pushed for each particle
  already_stopped,  \* a stop was requested from outside the swarm
  spso_stop_flag,
  \* the master's queue and the memory its items live in
  queue,
  queue_back,       \* the pointer, which opt_queue_pop leaves as it was
  heap,             \* items allocated and not freed
  \* the master's loop
  mpc, item, worker, working_on, worker_state,
  \* all ranks: each process has its own stop_work
  stop_work,
  \* the workers and their channels
  wpc, witem, inbox, outbox

swarm == <<started, evals, already_stopped, spso_stop_flag>>
memory == <<queue, queue_back, heap>>
loop == <<mpc, item, worker, working_on, worker_state>>
workers == <<wpc, witem, inbox, outbox>>
vars == <<swarm, memory, loop, stop_work, workers>>

Init ==
  /\ started = 0
  /\ evals = [p \in Particle |-> 0]
  /\ already_stopped = FALSE
  /\ spso_stop_flag = FALSE
  /\ queue = <<>>
  /\ queue_back = NULL
  /\ heap = {}
  /\ mpc = "start"
  /\ item = NULL
  /\ worker = 0
  /\ working_on = [w \in Worker |-> NULL]
  /\ worker_state = [w \in Worker |-> "WAITING"]
  /\ stop_work = [r \in Rank |-> FALSE]
  /\ wpc = [w \in Worker |-> "recv"]
  /\ witem = [w \in Worker |-> NULL]
  /\ inbox = [w \in Worker |-> <<>>]
  /\ outbox = [w \in Worker |-> <<>>]

-----------------------------------------------------------------------------
(* Pushing an item, and what a reported fitness does to the queue.         *)

\* opt_queue_push for particle p while the items `dead` are freed.
Push(p, dead) ==
  LET work == [uid |-> p, n |-> evals[p] + 1]
  IN  /\ evals[p] < MaxEvals
      /\ evals' = [evals EXCEPT ![p] = @ + 1]
      /\ queue' = Append(queue, work)
      /\ queue_back' = work
      /\ heap' = (heap \ dead) \cup {work}
      /\ UNCHANGED <<spso_stop_flag, stop_work>>

\* A fault: the item is not freed when nothing is pushed.
SettleLeaks(dead) == UNCHANGED <<heap, evals, queue, queue_back, spso_stop_flag, stop_work>>

\* The fitness is recorded and the particle is not moved on.
Settle(dead) ==
  /\ heap' = heap \ dead
  /\ UNCHANGED <<evals, queue, queue_back, spso_stop_flag, stop_work>>

\* spso_should_stop decides that the swarm has converged: spso_stop.
Converge(dead) ==
  /\ spso_stop_flag' = TRUE
  /\ stop_work' = [stop_work EXCEPT ![Master] = TRUE]
  /\ heap' = heap \ dead
  /\ UNCHANGED <<evals, queue, queue_back>>

\* A fault: results that arrive after the stop still move their particle.
ReportFitnessAfterStop(i) == Push(i.uid, {i}) \/ Converge({i})

\* A fault: a fitness may be recorded without the particle being queued again.
ReportFitnessOnly(i) ==
  IF already_stopped \/ spso_stop_flag
  THEN Settle({i})
  ELSE Push(i.uid, {i}) \/ Converge({i}) \/ Settle({i})

\* opt_report_fitness for the particle of item i, then free(item).  A position
\* that is already known is reported again at once, so however long that
\* recursion is it ends in one push or in convergence.
ReportFitness(i) ==
  IF already_stopped \/ spso_stop_flag
  THEN Settle({i})
  ELSE Push(i.uid, {i}) \/ Converge({i})

-----------------------------------------------------------------------------
(* The master before its loop.                                             *)

\* spso_start_search, one particle.  In a resumed run the position may be
\* known, and reporting it may find the swarm converged.
StartParticle ==
  /\ mpc = "start"
  /\ started < SwarmSize
  /\ ~already_stopped
  /\ started' = started + 1
  /\ \/ Push(started, {})
     \/ Resume /\ spso_stop_flag /\ Settle({})
     \/ Resume /\ ~spso_stop_flag /\ Converge({})
  /\ UNCHANGED <<already_stopped, loop, workers>>

\* The signal handler has set every swarm->particles[i] to NULL, and the
\* loop of spso_start_search reads particles[i]->uid.
StartDestroyedParticle ==
  /\ mpc = "start"
  /\ started < SwarmSize
  /\ already_stopped
  /\ mpc' = "crashed"
  /\ UNCHANGED <<swarm, memory, item, worker, working_on, worker_state, stop_work, workers>>

\* A fault: queue_front is not advanced.
PopKeepsFront ==
  IF queue = <<>>
  THEN item' = NULL /\ UNCHANGED queue
  ELSE item' = Head(queue) /\ UNCHANGED queue

\* A fault: the newest item is taken.
PopNewest ==
  IF queue = <<>>
  THEN item' = NULL /\ UNCHANGED queue
  ELSE item' = queue[Len(queue)] /\ queue' = SubSeq(queue, 1, Len(queue) - 1)

\* item = opt_queue_pop()
Pop ==
  IF queue = <<>>
  THEN item' = NULL /\ UNCHANGED queue
  ELSE item' = Head(queue) /\ queue' = Tail(queue)

\* master() up to its first loop: a fresh worker_state, stop_work reset.
EnterMaster ==
  /\ mpc = "start"
  /\ started = SwarmSize
  /\ mpc' = "first"
  /\ worker' = 1
  /\ worker_state' \in [Worker -> Leftover]
  /\ stop_work' = [stop_work EXCEPT ![Master] = FALSE]
  /\ Pop
  /\ UNCHANGED <<swarm, queue_back, heap, working_on, workers>>

\* A fault: working_on_item[worker] is not set.
SendWorkUnrecorded(w) ==
  /\ inbox' = [inbox EXCEPT ![w] = Append(@, Work(item))]
  /\ worker_state' = [worker_state EXCEPT ![w] = "BUSY"]
  /\ UNCHANGED working_on

\* opt_task_send_to_worker with a work item
SendWork(w) ==
  /\ inbox' = [inbox EXCEPT ![w] = Append(@, Work(item))]
  /\ working_on' = [working_on EXCEPT ![w] = item]
  /\ worker_state' = [worker_state EXCEPT ![w] = "BUSY"]

\* A fault: the stopped worker is marked as waiting.
SendStopAsWaiting(w) ==
  /\ inbox' = [inbox EXCEPT ![w] = Append(@, Stop)]
  /\ working_on' = [working_on EXCEPT ![w] = NULL]
  /\ worker_state' = [worker_state EXCEPT ![w] = "WAITING"]

\* opt_task_send_to_worker with OPT_TASK_STOP_MSG
SendStop(w) ==
  /\ inbox' = [inbox EXCEPT ![w] = Append(@, Stop)]
  /\ working_on' = [working_on EXCEPT ![w] = NULL]
  /\ worker_state' = [worker_state EXCEPT ![w] = "STOPPED"]

\* The first batch: ranks in order while there are items.
FirstBatch ==
  /\ mpc = "first"
  /\ item # NULL
  /\ worker \in Worker
  /\ SendWork(worker)
  /\ Pop
  /\ worker' = worker + 1
  /\ UNCHANGED <<swarm, queue_back, heap, mpc, stop_work, wpc, witem, outbox>>

\* A fault: worker is not reset before the loop.
FirstBatchDoneNoReset ==
  /\ mpc = "first"
  /\ item = NULL \/ worker \notin Worker
  /\ mpc' = "poll"
  /\ UNCHANGED <<swarm, memory, item, worker, working_on, worker_state, stop_work, workers>>

FirstBatchDone ==
  /\ mpc = "first"
  /\ item = NULL \/ worker \notin Worker
  /\ mpc' = "poll"
  /\ worker' = 0
  /\ UNCHANGED <<swarm, memory, item, working_on, worker_state, stop_work, workers>>

-----------------------------------------------------------------------------
(* The master's loop: look for a result or an idle worker, then act.       *)

\* MPI_Iprobe found a message, opt_recv_fitness_from_worker takes one.
RecvFitness(w) ==
  /\ mpc = "poll"
  /\ outbox[w] # <<>>
  /\ outbox' = [outbox EXCEPT ![w] = Tail(@)]
  /\ IF working_on[w] = NULL
     THEN Settle({})
     ELSE ReportFitness(working_on[w])
  /\ working_on' = [working_on EXCEPT ![w] = NULL]
  /\ worker' = w
  /\ mpc' = "act"
  /\ UNCHANGED <<started, already_stopped, item, worker_state, wpc, witem, inbox>>

\* A fault: the worker's state is not looked at.
IdleByItem(w) == working_on[w] = NULL

Idle(w) == working_on[w] = NULL /\ worker_state[w] = "WAITING"

\* A fault: the loop ends one rank early.
NextIdleWorkerButLast(w) ==
  IF w = 0
  THEN \A v \in 1 .. (NumWorkers - 1) : ~Idle(v)
  ELSE w < NumWorkers /\ Idle(w) /\ \A v \in 1 .. (w - 1) : ~Idle(v)

\* opt_task_get_next_idle_worker: the lowest idle rank, 0 if there is none.
NextIdleWorker(w) ==
  IF w = 0
  THEN \A v \in Worker : ~Idle(v)
  ELSE Idle(w) /\ \A v \in 1 .. (w - 1) : ~Idle(v)

\* MPI_Iprobe found nothing, which it may do while a message is on its way.
FindIdle ==
  /\ mpc = "poll"
  /\ \E w \in Rank : NextIdleWorker(w) /\ worker' = w
  /\ mpc' = "act"
  /\ UNCHANGED <<swarm, memory, item, working_on, worker_state, stop_work, workers>>

\* A fault: the loop ends one rank early.
AllStoppedButLast == \A w \in 1 .. (NumWorkers - 1) : worker_state'[w] = "STOPPED"

\* all_finished, after this round's stop message
AllStopped == \A w \in Worker : worker_state'[w] = "STOPPED"

\* stop_work is set: stop the worker at hand, finish when all are stopped.
\* After the loop opt_stop_search raises both stop flags.
StopWorker ==
  /\ mpc = "act"
  /\ stop_work[Master]
  /\ IF worker # 0
     THEN SendStop(worker)
     ELSE UNCHANGED <<inbox, working_on, worker_state>>
  /\ worker' = 0
  /\ IF AllStopped
     THEN mpc' = "done" /\ already_stopped' = TRUE /\ spso_stop_flag' = TRUE
     ELSE mpc' = "poll" /\ UNCHANGED <<already_stopped, spso_stop_flag>>
  /\ UNCHANGED <<started, evals, memory, item, stop_work, wpc, witem, outbox>>

Dispatch ==
  /\ mpc = "act"
  /\ ~stop_work[Master]
  /\ item # NULL
  /\ worker # 0
  /\ SendWork(worker)
  /\ Pop
  /\ mpc' = "poll"
  /\ worker' = 0
  /\ UNCHANGED <<swarm, queue_back, heap, stop_work, wpc, witem, outbox>>

\* A fault: the queue is not tried again.
StarveForever ==
  /\ mpc = "act"
  /\ ~stop_work[Master]
  /\ item = NULL
  /\ worker_state' = IF worker # 0
                     THEN [worker_state EXCEPT ![worker] = "WAITING"]
                     ELSE worker_state
  /\ mpc' = "poll"
  /\ worker' = 0
  /\ UNCHANGED <<swarm, memory, item, working_on, stop_work, workers>>

\* No item at hand: the worker starves, and the queue is tried again.
Starve ==
  /\ mpc = "act"
  /\ ~stop_work[Master]
  /\ item = NULL
  /\ worker_state' = IF worker # 0
                     THEN [worker_state EXCEPT ![worker] = "WAITING"]
                     ELSE worker_state
  /\ Pop
  /\ mpc' = "poll"
  /\ worker' = 0
  /\ UNCHANGED <<swarm, queue_back, heap, working_on, stop_work, workers>>

\* An item and nobody to give it to.
KeepItem ==
  /\ mpc = "act"
  /\ ~stop_work[Master]
  /\ item # NULL
  /\ worker = 0
  /\ mpc' = "poll"
  /\ UNCHANGED <<swarm, memory, item, worker, working_on, worker_state, stop_work, workers>>

-----------------------------------------------------------------------------
(* The workers.                                                            *)

\* opt_task_receive_work and the test of the while loop after it.
ReceiveWork(w) ==
  /\ wpc[w] = "recv"
  /\ inbox[w] # <<>>
  /\ LET m == Head(inbox[w])
         stop == stop_work[w] \/ m.type = "STOP"
     IN  /\ witem' = IF m.type = "STOP" THEN witem ELSE [witem EXCEPT ![w] = m.item]
         /\ stop_work' = [stop_work EXCEPT ![w] = stop]
         /\ wpc' = [wpc EXCEPT ![w] = IF stop THEN "done" ELSE "run"]
  /\ inbox' = [inbox EXCEPT ![w] = Tail(@)]
  /\ UNCHANGED <<swarm, memory, loop, outbox>>

\* The commands have run (run_command always returns): answer and wait.
SendFitness(w) ==
  /\ wpc[w] = "run"
  /\ ~stop_work[w]
  /\ outbox' = [outbox EXCEPT ![w] = Append(@, witem[w])]
  /\ wpc' = [wpc EXCEPT ![w] = "recv"]
  /\ UNCHANGED <<swarm, memory, loop, stop_work, witem, inbox>>

\* The commands have run or were skipped, and the worker was told to stop.
DropFitness(w) ==
  /\ wpc[w] = "run"
  /\ stop_work[w]
  /\ wpc' = [wpc EXCEPT ![w] = "done"]
  /\ UNCHANGED <<swarm, memory, loop, stop_work, witem, inbox, outbox>>

-----------------------------------------------------------------------------
(* The quit signal: opt_sig_handler runs opt_stop_search.                  *)

SignalMaster ==
  /\ Master \in Signalled
  /\ mpc \notin {"done", "crashed"}
  /\ stop_work' = [stop_work EXCEPT ![Master] = TRUE]
  /\ already_stopped' = TRUE
  /\ spso_stop_flag' = TRUE
  /\ UNCHANGED <<started, evals, memory, loop, workers>>

SignalWorker(w) ==
  /\ w \in Signalled
  /\ wpc[w] # "done"
  /\ stop_work' = [stop_work EXCEPT ![w] = TRUE]
  /\ UNCHANGED <<swarm, memory, loop, workers>>

-----------------------------------------------------------------------------
AllDone == mpc = "done" /\ \A w \in Worker : wpc[w] = "done"

\* MPI_Finalize has returned everywhere, or mpirun has killed the ranks.
Finished == (AllDone \/ mpc = "crashed") /\ UNCHANGED vars

MasterStep ==
  \/ StartParticle \/ StartDestroyedParticle
  \/ EnterMaster \/ FirstBatch \/ FirstBatchDone
  \/ \E w \in Worker : RecvFitness(w)
  \/ FindIdle \/ StopWorker \/ Dispatch \/ Starve \/ KeepItem

WorkerStep(w) == ReceiveWork(w) \/ SendFitness(w) \/ DropFitness(w)

Next ==
  \/ MasterStep
  \/ \E w \in Worker : WorkerStep(w) \/ SignalWorker(w)
  \/ SignalMaster
  \/ Finished

Spec == Init /\ [][Next]_vars

\* Every rank keeps running, commands are killed when they time out, and an
\* MPI_Iprobe that is repeated eventually sees a message that was sent.
Fairness ==
  /\ WF_vars(MasterStep)
  /\ \A w \in Worker : WF_vars(WorkerStep(w)) /\ SF_vars(RecvFitness(w))

FairSpec == Spec /\ Fairness

-----------------------------------------------------------------------------
(* What the farm promises.                                                 *)

\* Types of the variables.
TypeOK ==
  /\ started \in 0 .. SwarmSize
  /\ evals \in [Particle -> 0 .. MaxEvals]
  /\ already_stopped \in BOOLEAN
  /\ spso_stop_flag \in BOOLEAN
  /\ queue \in Seq(Item)
  /\ queue_back \in ItemOrNull
  /\ heap \subseteq Item
  /\ mpc \in {"start", "first", "poll", "act", "done", "crashed"}
  /\ item \in ItemOrNull
  /\ worker \in 0 .. NumWorkers + 1
  /\ mpc \in {"poll", "act"} => worker \in Rank
  /\ working_on \in [Worker -> ItemOrNull]
  /\ worker_state \in [Worker -> States]
  /\ stop_work \in [Rank -> BOOLEAN]
  /\ wpc \in [Worker -> {"recv", "run", "done"}]
  /\ witem \in [Worker -> ItemOrNull]
  /\ inbox \in [Worker -> Seq(Message)]
  /\ outbox \in [Worker -> Seq(ItemOrNull)]

\* Items the master can still reach.
Outstanding ==
  ({queue[k] : k \in 1 .. Len(queue)} \cup {item} \cup {working_on[w] : w \in Worker}) \ {NULL}

\* The double in flight from a rank was computed for the very evaluation the
\* master will credit it to (taskfarm.c:410, the message names no particle),
\* and that evaluation is the newest one of its particle.
ResultAttribution ==
  \A w \in Worker :
    outbox[w] # <<>> =>
      /\ working_on[w] # NULL
      /\ outbox[w] = <<working_on[w]>>
      /\ working_on[w].n = evals[working_on[w].uid]

\* No particle has two evaluations under way, wherever the items are: in the
\* queue, in the master's hand or with a worker.
NoDuplicate ==
  /\ \A j, k \in 1 .. Len(queue) : queue[j].uid = queue[k].uid => j = k
  /\ \A k \in 1 .. Len(queue) : queue[k].uid # item.uid
  /\ \A k \in 1 .. Len(queue), w \in Worker : queue[k].uid # working_on[w].uid
  /\ \A w \in Worker : working_on[w] # NULL => working_on[w].uid # item.uid
  /\ \A v, w \in Worker :
       working_on[v] # NULL /\ working_on[v].uid = working_on[w].uid => v = w

\* Until the search is stopping every particle that was started has an
\* evaluation under way: the pop into the master's hand, the first batch and
\* the starving branch lose none.
NoLoss ==
  ~spso_stop_flag => \A p \in 0 .. (started - 1) : \E i \in Outstanding : i.uid = p

\* Every item allocated and not freed can still be reached, and nothing that
\* was freed can.
HeapIsReachable == heap = Outstanding

\* opt_queue_pop leaves queue_back pointing at the popped item, which is freed
\* once reported; the next opt_queue_push writes through it.  It does so only
\* while the item is still allocated.
PushThroughLivePointer ==
  [][evals' # evals => queue_back \in heap \cup {NULL}]_vars

\* Whenever the master is about to send to a rank, that rank is waiting in (or
\* on its way to) MPI_Recv and has nothing unread from or for the master: even
\* if both MPI_Send calls were synchronous they could not wait for each other
\* (the deadlock feared at taskfarm.c:753).
NoSendSendDeadlock ==
  \/ mpc = "act" /\ worker # 0
  \/ mpc = "first" /\ worker \in Worker
  => wpc[worker] = "recv" /\ inbox[worker] = <<>> /\ outbox[worker] = <<>>

\* The master leaves its loop only when each worker has been told to stop and
\* no result is left unread.
DoneMeansAllStopped ==
  mpc = "done" => \A w \in Worker :
    /\ wpc[w] = "done" \/ Stop \in {inbox[w][k] : k \in DOMAIN inbox[w]}
    /\ outbox[w] = <<>>

\* A stop request that reaches the master's loop ends every rank.
StopEndsAllRanks == (mpc \in {"poll", "act"} /\ stop_work[Master]) ~> AllDone

\* A stop requested when the search has been set up, but before the master
\* enters its loop, ends every rank as well ("On receipt of signal (defined in
\* the config), shut down cleanly", taskfarm.c:57).  It does not: master() sets
\* stop_work to false at taskfarm.c:475.
StopIsHonoured == (started = SwarmSize /\ stop_work[Master]) ~> AllDone

\* Every evaluation is answered and its particle moved on, or the search stops.
EvaluationsAnswered ==
  \A p \in Particle, n \in 1 .. MaxEvals :
    evals[p] = n ~> (evals[p] # n \/ spso_stop_flag)
=============================================================================

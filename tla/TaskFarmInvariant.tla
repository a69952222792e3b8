------------------------- MODULE TaskFarmInvariant -------------------------
(***************************************************************************)
(* The inductive invariant of the task farm, in three parts: the types,    *)
(* the protocol between the master and each rank, and where the work items *)
(* are.  TaskFarmProofs proves that every step preserves it.               *)
(***************************************************************************)
EXTENDS TaskFarm

-----------------------------------------------------------------------------
(* At any time the master and a rank are in one of three relations.        *)

\* The rank waits, or is about to wait, for a message that was not sent yet.
Ready(w) ==
  working_on[w] = NULL /\ inbox[w] = <<>> /\ outbox[w] = <<>> /\ wpc[w] = "recv"

\* It was sent the stop message, and nothing after it.
ToldToStop(w) ==
  /\ working_on[w] = NULL /\ worker_state[w] = "STOPPED" /\ outbox[w] = <<>>
  /\ \/ inbox[w] = <<Stop>> /\ wpc[w] = "recv"
     \/ inbox[w] = <<>> /\ wpc[w] = "done"

\* It was given an item: the item is on its way, being run, answered, or the
\* rank was signalled and gave it up.
Assigned(w) ==
  /\ working_on[w] # NULL /\ worker_state[w] = "BUSY"
  /\ \/ inbox[w] = <<Work(working_on[w])>> /\ outbox[w] = <<>> /\ wpc[w] = "recv"
     \/ inbox[w] = <<>> /\ outbox[w] = <<>> /\ wpc[w] = "run" /\ witem[w] = working_on[w]
     \/ inbox[w] = <<>> /\ outbox[w] = <<working_on[w]>> /\ wpc[w] = "recv"
     \/ inbox[w] = <<>> /\ outbox[w] = <<>> /\ wpc[w] = "done"

\* One of the three always holds, and the rank the master turns to is Ready.
Protocol ==
  /\ \A w \in Worker : Ready(w) \/ ToldToStop(w) \/ Assigned(w)
  /\ mpc = "start" => item = NULL /\ \A w \in Worker : Ready(w)
  /\ mpc = "first" => worker >= 1 /\ \A w \in Worker : w >= worker => Ready(w)
  /\ mpc = "act" /\ worker # 0 => Ready(worker)

-----------------------------------------------------------------------------
(* The items under way.                                                    *)

\* Every item under way is the newest evaluation of its particle.
LatestRound == \A i \in Outstanding : i.n = evals[i.uid]

\* Particles spso_start_search has not reached have not been evaluated.
Fresh ==
  /\ \A p \in Particle : p >= started => evals[p] = 0
  /\ mpc \notin {"start", "crashed"} => started = SwarmSize

\* queue_back dangles only when nothing will be pushed any more.
BackIsLive ==
  queue_back = NULL \/ queue_back \in heap \/ (spso_stop_flag /\ mpc # "start")

\* A stop from outside also raises the swarm's own flag.
StopFlags == already_stopped => spso_stop_flag

\* The items in order: where they are, how old, reachable, none lost.
Items ==
  /\ NoDuplicate /\ LatestRound /\ NoLoss /\ HeapIsReachable
  /\ Fresh /\ BackIsLive /\ StopFlags

\* The inductive invariant: types, protocol (taskfarm.c:286-437, 455-583,
\* 674-765) and items (taskfarm.c:176-226, optimiser.c:236-354).
IInv == TypeOK /\ Protocol /\ Items

-----------------------------------------------------------------------------
(* When the master can tell which ranks have stopped.  worker_state of a   *)
(* rank that gets nothing in the first batch is what memory happened to    *)
(* hold, so that the master may take the rank for stopped.                 *)

\* Every rank gets an item in the first batch: there are enough particles, and
\* each of them is queued because no position is known.
WorkForAll == SwarmSize >= NumWorkers /\ ~Resume

\* The items that are left for the first batch.
InStock == Len(queue) + (IF item = NULL THEN 0 ELSE 1)

\* While the first batch is dealt the ranks behind the master's turn have an item,
\* and those before it whatever the memory held; there is stock for these when
\* there is work for all.
Dealing ==
  /\ mpc = "start" /\ WorkForAll => Len(queue) = started
  /\ mpc = "first" =>
       /\ item = NULL => queue = <<>>
       /\ WorkForAll => InStock >= NumWorkers + 1 - worker
       /\ \A w \in Worker : IF w < worker THEN worker_state[w] = "BUSY"
                                          ELSE worker_state[w] \in Leftover

\* A rank that the master takes for stopped was told to stop, and in the end it
\* takes every rank for stopped.
StoppedWereTold ==
  /\ mpc \in {"poll", "act", "done"} =>
       \A w \in Worker : worker_state[w] = "STOPPED" => ToldToStop(w)
  /\ mpc = "done" => \A w \in Worker : worker_state[w] = "STOPPED"

\* What it takes that the loop ends with every rank stopped (taskfarm.c:455-583).
StopInv == Dealing /\ StoppedWereTold
=============================================================================

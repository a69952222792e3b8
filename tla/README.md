# OptSearch in TLA+

OptSearch tunes compiler flags with a particle swarm. It is one MPI program:
rank 0 (the *master*) runs the swarm (SPSO), keeps every position and fitness in
an SQLite file, and deals evaluations to ranks 1..W (the *workers*), which run
shell commands (clean, build, test, benchmark) under a timeout and answer with
one double. A run ends when the swarm converges or a quit signal arrives, and a
later run may resume from the SQLite file.

This directory holds TLA+ modules of that program, TLC configurations that check
them on small instances, and proofs that TLAPS checks. Line numbers refer to
`src/src/`.

## 1. Inventory

| Component | State | Operations | Talks to |
|---|---|---|---|
| Task farm (`taskfarm.c`) | work queue (`queue_front/back`), `working_on_item[]`, `worker_state[]`, `stop_work` (one per process) | `opt_queue_push/pop`, `opt_task_send_to_worker`, `opt_recv_fitness_from_worker`, `opt_task_get_next_idle_worker`, `master`, `worker`, `opt_task_receive_work`, `opt_task_stop` | MPI messages between ranks; calls `opt_report_fitness`; is called by it to push |
| Optimiser (`optimiser.c`) | `already_stopped`, search space | `opt_start_search`, `opt_report_fitness`, `opt_add_to_fitness_queue`, `opt_checkpoint`, `opt_stop_search`, `opt_sig_handler` | glue: farm -> SPSO -> store -> farm, signal handler |
| SPSO (`spso.c`) | swarm, global best and two predecessors, `no_movement_counter`, `spso_stop_flag` | `spso_start_search`, `spso_update_particle`, `spso_should_stop`, `spso_update_global_best`, `spso_stop`, `spso_destroy_swarm` | fitness callback, stop listener, global-best listeners |
| Store (`data.c`) | SQLite tables: singletons, position, particle and their histories | `opt_db_store_*`, `opt_db_get_*`, `opt_db_update_*`, `opt_db_init` | every statement is a transaction of its own |
| Benchmark (`taskfarm.c` 585-761, `stats.c`) | `time`, `retval`, repeat times | `prologue`, `benchmark`, the loop of `worker` | command runner; answers the master |
| Command runner (`common.c`) | the shell, the time that is left, the next sleep | `run_command`, `waitid_timeout` | kernel: vfork, waitid, poll, killpg |
| Configuration (`config.c`) | `opt_config_t`; while reading: state, key, flag pointer | `read_config`, `opt_share_config` | libyaml's events; MPI broadcasts; flags become dimensions in `optimiser.c` |
| Random numbers (`random.c`) | generator state | `opt_rand_int_range`, ... | vendored WELL512a |
| Logging, `main`, scripts | - | - | I/O only |

What is hard about it:

* **Ordering and attribution.** The answer of a worker names no particle; the
  master credits it to what it *remembers* having sent to that rank.
* **Conservation.** An evaluation moves between the queue, the master's local
  variable `item`, `working_on_item[]` and the report that frees it and pushes
  the next one. Nothing but the branch structure of `master()` keeps it from
  being dropped, doubled or freed too early.
* **Starvation and idling.** The queue runs dry; ranks go idle and must be found.
* **Stopping.** A stop comes from convergence inside a report or from a signal
  at any rank at any instant, and must reach every rank exactly once while
  results are still in flight.
* **Blocking sends in both directions.**
* **Crash and resume.** A checkpoint is several autocommitted statements, and the
  signal handler runs one of its own between any two of them.
* **Timeouts.** A child may finish while it is being killed, be killed by somebody
  else, leave processes behind, or never end.
* **A reader without a stack.** The YAML reader follows a nested file with six
  states, one key and one pointer.
* **Starting on all ranks or none.** Each rank may find at a moment of its own that
  the program cannot run, while others wait in a broadcast or for work.
* **Off by one.** A flag's values, the coordinates of its dimension, the random
  integers in between and the options printed at the end are four encodings, each
  with bounds of its own.

`PROJECT.json` lists each hazard at its line.

What makes each component correct:

* *farm*: results go to the evaluation they were computed for; each started
  particle has exactly one evaluation under way until the search stops; memory
  of items is exactly what is reachable; no deadlock of sends; a stop ends every
  rank; a master that is done has stopped everybody;
* *optimiser and SPSO*: the best only improves, the history of bests is the
  real one, the stopping rule is the documented one, nothing moves after a stop;
* *store*: what a resumed run reads is a state the previous run was in, the
  fitness of a position is one that was measured there;
* *runner and benchmark*: a command that timed out is reported as failed and is
  gone in time, a time is close to the real one, a fitness is earned by the item it
  is sent for and is the mean of what was measured, every item is answered;
* *configuration and search space*: what the program works with is what the file
  says; a search starts on every rank or on none, and on exactly the files it can
  run on; every value of a flag has a coordinate and no coordinate means anything
  else.

## 2. Modules

| Module | What it is |
|---|---|
| `TaskFarm` | the master, the workers and their channels, together with what the optimiser and SPSO do to the queue and the stop flags |
| `TaskFarmInvariant` | the inductive invariant `IInv` in named parts, and `StopInv` for the end of the loop |
| `TaskFarmProofs` | TLAPS proofs |
| `WorkPool` | abstract specification: a first-in first-out pool of particles |
| `FarmImplementsPool` | the refinement mapping |
| `FarmImplementsPoolProofs` | TLAPS proof that the farm implements the pool |
| `Checkpoint` | the swarm's record of its best results, its checkpoint in the tables, death and resume |
| `DurableRecord` | abstract specification: one record of the best results, which outlives the process |
| `CheckpointImplementsRecord` | the refinement mapping |
| `CheckpointProofs` | TLAPS proofs about `Checkpoint`, and that it implements the durable record |
| `PositionStore` | the tables of positions, velocities and particles, the reports that fill them, known positions, death and resume |
| `PositionStoreProofs` | TLAPS proofs about `PositionStore` |
| `MCPositionStore` | its instance for TLC: the fitness values a benchmark may give at each position |
| `Commands` | what a worker does with an item: its loop, `prologue`, `benchmark`, `run_command`, `waitid_timeout` |
| `CommandsProofs` | TLAPS proofs |
| `ReadConfig` | the YAML reader against a writer of configuration files |
| `ShareConfig` | the broadcasts of the configuration |
| `SearchSpace` | flags, dimensions, random coordinates and printed options, as operators |
| `SearchSpaceProofs` | TLAPS proofs about these operators |
| `Startup` | the composition of the three: `main` up to the first evaluation |
| `StartupProofs` | TLAPS proofs: how the reader follows the file, how the ranks share what it read |
| `ConfigProofs` | TLAPS proofs: what the reader made of the file, and the search space and the first particle made of that |

### TaskFarm and the code

| Code | Model |
|---|---|
| queue of malloc'ed items | `queue` (a sequence), `queue_back` (the raw pointer, which `opt_queue_pop` does not clear), `heap` (items allocated) |
| `item`, `worker` of `master()` | `item`, `worker`; `mpc` is the place in the function |
| `working_on_item[]`, `worker_state[]` | `working_on`, `worker_state`; the second allocation at line 468 is not initialised, so `EnterMaster` gives each cell an arbitrary value of `Leftover` |
| `stop_work` in every process | `stop_work[r]` |
| header and body of `opt_task_send_to_worker` | one message in `inbox[w]` |
| the double a worker sends | `outbox[w]` holds the item it was computed for; the master never looks at it |
| `MPI_Iprobe` | `RecvFitness` may be taken when a message is there, `FindIdle` at any time, since a probe may miss a message on its way |
| `opt_report_fitness` and everything below it | `ReportFitness`: nothing once stopped, otherwise the particle is queued again (`Push`) or the swarm converges (`Converge`). The recursion over known positions ends in one of the two |
| `opt_stop_search` from the handler | `SignalMaster`, `SignalWorker` |
| reading a destroyed particle in `spso_start_search` | `StartDestroyedParticle`, which ends in `mpc = "crashed"` |

One step is the code between two points where a message or a signal can make a
difference. Values of fitness, the text of commands, the database, logging and
`sleep` are left out. The handler is taken between two such steps of the master;
`Checkpoint` takes it between any two steps of a report. What a worker does with an
item is `Commands`: `SendFitness` and `DropFitness` stand for the whole of it, and
that it always ends is its `EveryItemAnswered`.
Definitions commented "A fault" are never used by an action: each is a plausible
bug of the operator that follows it, and `PROJECT.json` names the property that
detects it when it is put in.

### Checkpoint and the code

| Code | Model |
|---|---|
| `spso_global_current/previous/previous_previous_best_fitness`, `spso_global_current_best`, `no_movement_counter`, `spso_stop_flag` | the fields of `mem` |
| `real_singleton`, `singleton` | the fields of `db`; `db.particles` says whether a resumed swarm has particles |
| what `opt_report_fitness`, the listener `opt_checkpoint` and the reports nested in it have still to do | `todo`, a sequence of steps |
| one `UPDATE` (a transaction, since nothing says `BEGIN`) | `Execute` |
| `%lf`, SQLite's REAL and `atof` | `Written`, `Read`: six decimals; NULL and -1 come back as DBL_MAX; DBL_MAX comes back as infinity |
| `spso_should_stop`, `spso_update_global_best` | `ShouldStop`, `UpdateGlobalBest`; the new record is computed in one step, as nothing in between is stored but the listener's checkpoint, which reads the same values |
| `opt_add_to_fitness_queue` | `Queue` or, for a position the tables know, `Known`, which reports at once |
| `spso_start_search` of a resumed run | phase `"starting"`: `StartKnown`, `Started` |
| `opt_stop_search`, called when the farm has ended or by the signal handler at any time, again and again | `StopSearch`: its checkpoint goes in front of `todo` |
| kill, crash, end | `Die`, at any step |
| `opt_init` with `OPT_DB_RESUME` | `Restart` |

Fitness is an integer, in thirds of a microsecond, so that rounding to whole
microseconds changes values and two values may round to one. Positions are two
model values; which particle reports, and the position and particle tables, are
left out (any fitness may be reported at any position). `seen` and `acked` are
histories: the best result the swarm looked at, and the best of the reports that
have ended; a result that arrives after the search stopped is not looked at, by the
code's own design (spso.c:312). A signal comes between two steps, that is two
statements or a statement and the judgement of the swarm; inside either the code does
not survive it (section 6).

### PositionStore and the code

| Code | Model |
|---|---|
| a particle: `position`, `velocity`, `previous_best`, `previous_best_fitness` | `mem.swarm[p]`; global best and the stop flag are `mem.gbest`, `mem.gfit`, `mem.stopped` |
| tables `position`, `velocity`, `particle`; `CURR_BEST`, `BEST_POS` | the fields of `db`; a row's id is its place in the sequence |
| the statements of `opt_report_fitness` and of the reports nested in it | `todo`, each a record `Do(op, particle, fitness)`; what it stores is read when its turn comes, as in the code |
| `opt_db_store_position`: insert or count a visit | `StorePosition`, `Visited` |
| `opt_db_update_position_fitness` | `StoreFitness` |
| the UPDATEs of a particle's row, with their arguments in the code's order | `KnownRow`, `UpdateRow` |
| `spso_should_stop` | in `Report`: whether the search converges is an arbitrary choice here (`Checkpoint` has the criterion), whether the best improves is not |
| `spso_compute_velocity` | `Move`, `Landing`: any position, any velocity of the search space (the divisors of its `fmod` taken to be positive, see the hazard at spso.c:577) |
| `opt_db_get_swarm` | `Restart`: as many particles as rows, ids that are not there give the minimum of every coordinate and an uninitialised fitness |

The counter, the older bests and the history tables are left out, and so is the
rounding of stored values, which `Checkpoint` has.

### Commands and the code

| Code | Model |
|---|---|
| places in `worker`, `prologue`, `benchmark`, `waitid_timeout` | `pc`; the command under way is `script` |
| the shell, its process group | `child`: how and when the leader ended, and whether anything it started still runs |
| `timeout_ms`, `delay`, the real time | `timeout_ms`, `delay`, `now`, in units of the first sleep (10 ms); `Second` is `max_delay`, 100 such units in the code |
| `poll(NULL, 0, delay)` | `Poll` and `Wake`; a signal may end the sleep early (`QuitSignal`) |
| `waitid`: nothing yet, exited, killed, refused | `Poll` or `TimeOut`, `Reap`, `ReapSignalled`, `RefuseToWait` |
| `run_command`'s result | `Return`: status -1, 0 or 1 (anything else), and the time |
| `prologue` | `Prologue`, `NextScript`, `PrologueDone`, `PrologueFails` |
| one turn of the loop of `benchmark` and what follows it | `Measure`, `BenchmarkFails` |
| `gsl_stats_mean`, `gsl_stats_sd`, `percent_of_values` | a mean is a pair of sum and number; `Noisy` compares squares of integers, with the percentage of the *sum*, as the code does |
| `MPI_Send` of the fitness | `Send`, which records it in `answer` |

`ran`, `behind` and `zombies` are histories. A shell ends at any moment between the
looks of the worker; that it may end just before it is killed is in `TimeOut`, where
the code cannot tell the difference. Commands take whole units of time, and the
time between two system calls is nothing.

### ReadConfig, ShareConfig, SearchSpace, Startup and the code

| Code | Model |
|---|---|
| `state`, `map_key`, `oa`, `uid_counter`, `flag_buffer`, `config` | the fields of `reader`; `flag_buffer` is the last flag |
| one `case` of the event switch | `Scalar`, `SequenceStart`, `SequenceEnd`, `MappingStart`, `MappingEnd` |
| the attribute handlers | `SetAttribute`, `SetType`, `SetSeparator` |
| the file, through libyaml (external) | the writer: `WriteKey`, `WriteValue`, `OpenMapping`, ...; `doc` is what it has written, `nest` what is open |
| one `MPI_Bcast`, or the two of `opt_bcast_string` | `Broadcast` on the master, `Receive` on a worker |
| `realloc` of the parameter | `MayMove`: a text that does not fit may be lost |
| `MPI_Abort` in a broadcast | `Abort` |
| `opt_init` on a worker: the handler of the quit signal, or `MPI_Abort` | `StartWorker`, `RefuseWorker` |
| `opt_init` on the master: the loop over the flags | `MakeSearchSpace`, `opt_convert_flag` |
| the rest of it: the handler, the number of dimensions, `opt_db_init`, `spso_init` | `CanRegister`, `OpenDatabase`, `DimensionsFit` in `StartSwarm`, with an `MPI_Abort` at each in `RefuseSearch` |
| `spso_new_particle` of the first particle | `Place`, `opt_rand_int_range` (all values it may return) |
| `build_compiler_options` | `BuildOptions`, `convert_dimension_to_string` (an option is the sequence of its parts) |

The writer gives every file of the documented format: the top-level keys in the order
of the examples (their order means nothing to the reader, which looks at one key at a
time), any of the `Optional` ones left out, flags with their attributes in any order
or, with `TypeFirst`, in any order after the type; one attribute of the first flag may
be one that the reader has no use for. The sequence of flags may be closed at once. A text
is "short" or "long", which matters only to `realloc`, and the quit signal is the name of a
signal that `opt_get_signum` knows or some other text.

`MPI_Abort` in any rank stops all of them (`master = "aborted"`). A worker's copy of the
signal's name may be dangling: what it reads there may be a name or not, so both
`StartWorker` and `RefuseWorker` are possible. The database is new: `opt_db_init` makes the
file or fails. The start of a resumed run is left out here (`Checkpoint` and `PositionStore`
have it), and so are the rest of `opt_task_start` (`TaskFarm` has it) and a `sigaction` that
refuses a signal it was given by a valid name.

## 3. Runs

| Run | Instance | Shows |
|---|---|---|
| `farm` | 3 ranks, 3 particles, 2 evaluations each, signal to the master, any leftover state | attribution, no duplicate, no loss, no leak, live queue pointer, no deadlock of sends, a finished master has stopped everybody, a stop ends every rank, every evaluation is answered |
| `pool` | 3 ranks, 4 particles, 2 evaluations, resumed database, signals to every rank | the inductive invariant holds; the farm implements the work pool |
| `uninitialised_state` | 2 ranks, 1 particle | *finding*: the master may finish without telling a rank |
| `lost_stop` | 2 ranks, 2 particles | *finding*: a stop before the loop is forgotten |
| `checkpoint` | 3 fitness values, 2 positions, threshold 2, epsilon 5, 3 program starts, reports nested 2 deep, signals between any two steps | the best of every report that ended survives any deaths; the stored best never gets worse; a report that ended leaves the whole record in the tables; the first run does not converge on a failure; swarm and tables implement one durable record |
| `commands` | 2 items, timeouts of none or 3 seconds, of none or 1 for the benchmark, 1 or 6 repeats, seconds of 2 units | a fitness is earned by the item's own commands and is the mean of times measured; commands are killed in time; times are close; what is left running belongs to a failed item; every item is answered |
| `startup` | files of up to 2 flags of any type and a third that is on-off, 2 listed values, limits -1 and 3, two keys that may be left out, a quit signal that is a signal or another text, room for 2 dimensions, 1 worker | the reader follows the file; the config is what the file says; coordinates are the options that the file asks for; particles are placed inside; a search starts only on a file that has all it needs, and only the database keeps it from starting on one that has; every rank starts or all are stopped |
| `store` | 2 particles, 2 positions, one of which may fail, 1 velocity, 2 starts, reports nested 2 deep | every particle is queued again when its report ends, known position or not; a position has one row; the stored best is never behind the table of positions during the first search |
| `known_fitness` | the same, one start | *finding*: a known position's fitness was measured elsewhere |
| `stale_row` | the same, one start | *finding*: a particle's row keeps its first position |
| `noisy_benchmark` | 1 item, 6 repeats | *finding*: repeats that differ too much are answered with a mean |
| `misread_config` | 1 flag, its type anywhere | *finding*: a range whose type is not first loses its limits |

**Bounds.** `MaxEvals` caps the evaluations of a particle; when it is reached the
only outcome of a report is convergence, which the code may choose at any report.
Three ranks are needed to have one rank idle, one busy and one answering at once.
In `farm`, three particles on three ranks let all be busy at first and starve later
(one particle per rank is what makes the queue run dry). In `pool`, four particles
on three ranks leave the master with an item in hand and nobody idle, and a resumed
database may start fewer particles than there are ranks, which leaves ranks that
never got work. Two evaluations are enough for an old result to be confused with a
newer one. No symmetry is used, as the lowest idle rank is preferred.

In `checkpoint` the fitness values lie within two sigma of each other, so that the
search converges on values as well as on the counter; two of them are not whole
microseconds. Three starts allow a torn record to be resumed, torn again and resumed;
two nested reports are the least that makes an inner checkpoint run before an outer
one. `MaxTodo` lets a second signal arrive while the first one's checkpoint has not
begun; signals after that only repeat its statements. The threshold is 200 in the code
(`NO_MOVEMENT_THRESHOLD`); 2 lets the counter pass, reset and pass again.

In `commands`, two items let the second be given the time of the first. Six repeats are
the least at which the loop of `benchmark` may end because the repeats agree (`i > 4`),
and no timeout for one command or the other covers the commands that are refused. A
timeout of 3 seconds of 2 units lets the sleep grow, reach its limit and be cut.

In `startup`, two flags are needed to have one flag's attributes go to another, two listed
values to have more than the first; the limits -1 and 3 give an ordinary range, a range
of one value, a reversed one and one for which `opt_rand_int_range` divides by zero (-1 to
-1). A third flag (`MaxFlags`, `FullFlags`) is one dimension more than `spso_max_dims` has
room for (4096 in the code), so that none, some, just enough and too many are all there;
what it is matters to nothing, so it is on-off. A quit signal that is long and no signal
(`Long`) makes both ends refuse it, the worker also by way of a copy that moved. One worker
is enough, as workers do not meet.

In `store`, two positions are what it takes to store a fitness at the wrong one, and
two particles to have one visit what the other left. A visit count of 2 is all the
code asks for. The velocity matters to no property; one value keeps the instance
small. `MaxDepth` stops the recursion over known positions, which the code does not
bound; the process may die there, so a cut-off report is one that never ends.
`NothingBetterStored` is about the first search: a resumed one starts from rows
that late results (after convergence) or uninitialised values may have made better
than its best.

**Fairness** (`FairSpec`): weak fairness of the master and of each worker, since
every process runs and every command is killed at its timeout; strong fairness
of receiving from each rank, since the loop probes again and again and a message
that was sent is eventually seen by one of the probes, and results of a rank are
not overtaken for ever by those of others. Signals are not fair: they may never
come. In `Commands` the worker's own steps are weakly fair, as its process runs and
`poll` returns; the shell is not: it need never end, and the master need not send. In
`Startup` the master and each worker (receiving, registering the handler or refusing to)
are weakly fair, as their processes run and a broadcast that was made arrives; the writer is
not: a file need not end.

## 4. Proofs

`TaskFarmProofs` proves, for every number of ranks, particles and evaluations,
any content of the uninitialised array, resumed or not, and any set of ranks that
may be signalled:

* `Inductive`: `Spec => []IInv`;
* `TypeCorrect`, `Attribution`, `Unique`, `Conserved`, `NoLeakNoDangling`,
  `LivePointer`, `NoDeadlockOnSend`: the safety properties the run `farm` checks;
* `LoopEndsWhenAllAreTold`: `DoneMeansAllStopped`, if every rank gets an item in the
  first batch (`WorkForAll`: a new search with as many particles as workers) or the
  memory of `worker_state` happens not to hold `STOPPED`. Without either it is false
  (first finding).

The only assumption is `FarmAssumption` on the constants; the last theorem names its
hypothesis.

**Why the properties are not inductive.** `ResultAttribution` says what a
message in flight is, but what makes it true is the whole conversation with a rank:
at any time a rank is `Ready` (nothing on the way, it waits), `ToldToStop` (the stop
message is the last it was sent) or `Assigned` (exactly one of: item on the way,
being run, answered, given up after a signal). `Protocol` states that, and that the
rank the master turns to is `Ready` at the places where it may send. `NoDuplicate`
and `HeapIsReachable` need in addition that what is outstanding is the newest round
of each particle (`LatestRound`), that particles not yet started have none (`Fresh`),
and the live pointer needs `BackIsLive`: `queue_back` dangles only when the search is
stopping and nothing is pushed again. `IInv` is the conjunction of types, `Protocol`
and `Items`. The proof treats the three separately (`TypeStep`, `ProtocolStep`,
`ItemsStep`), each with one step per action; what several actions share (a message
sent to one rank leaves the others' relations alone, a pop takes the head, a report
frees one item and may append one) is a lemma.

`DoneMeansAllStopped` needs a second invariant on top, `StopInv`. Its first part,
`Dealing`, follows the first batch: the ranks behind the master's turn have an item, and
with work for all the queue and the item in hand are enough for those it has yet to
serve, so none keeps what the memory held. Its second part, `StoppedWereTold`, says from
then on that a rank taken for stopped was sent the stop message as the last one
(`ToldToStop` of `Protocol`), which is what the loop's end relies on.

`FarmImplementsPoolProofs` proves `FarmRefinesPool`, `Spec => ImplementsPool`: the farm's
initial states are the pool's, and under `IInv` every step is a step of the pool or
leaves the pool as it is. `Assigning`, `Crediting` and `Pushing` are the steps that the pool
sees; popping into an empty hand (`PopStutters`), polling, stopping a rank and everything a
rank does on its own are hidden. The invariant is needed in three places: a result comes
from a rank with an item (`Protocol`), no other rank has the same particle
(`NoDuplicate`), and the rank that is sent an item or the stop message had none (`Ready`).

`CheckpointProofs` proves, for every set of fitness values, every epsilon from 0 to 50 and
every threshold, every number of starts and depth of nesting, from `CheckpointAssumption`
(of which the essential part is that no command runs in half a microsecond or less, so
that a measured fitness is not rounded to "no value"):

* `BestInvariant`: `Spec => []BestInv`;
* `TypeCorrect`, `BestAlwaysSurvives`, `StoredBestNeverWorse`: the type invariant,
  `BestSurvives` and the action property `NeverWorse`.

`BestSurvives` relates the tables to the acknowledged results, but what makes it true
goes through the memory and the work in progress: what is stored is never ahead of
the swarm (`StoredBehindMemory`), the swarm is never behind what it has looked at
(`MemoryHasSeen`), and until a report ends either the write of the best is still to
come or the tables have it (`StoredInTime`). After a restart the memory is what was
stored, which is why the values that rounding and reading back preserve matter
(`ReadBack`, `StoreAndRead`, `Monotone`). `BestInv` is the conjunction; a report
(`ReportKeeps`), a statement (`ExecuteKeeps`) and a restart (`RestartKeeps`) are the
steps that disturb it.

`FirstFailureDoesNotConverge` needs one thing more: that in the run that creates the
tables there are no older bests until something has been measured, and that "no best" is
further from a failure than an epsilon of 50 at most allows
(`FailureDoesNotConverge` is about that run only, see the list at the end of section 5).

`RestartHasEverything` proves `RestartLosesNothing`. A checkpoint is several statements, and a
death or a nested report may come between any two of them, so the property holds only where
all reports have ended. `Kept` holds from the start of a report to its end: each of the five stored fields is as in
memory, or a statement that writes it is still to come. Every report ends with a whole
checkpoint, whatever else is to come after it (`ReportStores`), and a statement writes what
is in memory when it runs, which is why the rest of an interrupted outer checkpoint cannot
bring an older value back. It needs that the mark of an absent row is no position, a part of
`CheckpointAssumption`.

`CheckpointRefinesRecord` proves `ImplementsRecord`, the refinement of `DurableRecord`. There, one
record is worked with and one outlives the process: a report changes the first, saving brings one
field of the second in step and ends only when both are equal, a death forgets what was not saved,
and a restart is no step at all. The mapping compares values as they come back from the tables
(`ComesBack`), where no value and a failed evaluation are alike, and takes the tables for what is
known while no process runs. A report is a step of the record by `BestInv`: only a fitness no
worse than the best as stored replaces it. A statement is one by `Kept`. A restart is a stutter
because of a third invariant, `OlderRounded`: also the older bests in the tables are values that
a statement wrote, so that reading them and writing them again changes nothing; a value that
had not been rounded would come back as another one.

`SearchSpaceProofs` is about pure operators. `RandomCoordinateInside`: `opt_rand_int_range`
stays between its bounds and never divides by zero when the larger bound is positive and
they are not -2 and 1. `CoordinatesAreOptions`: for flags of any bounds and any number of
values, the printed options of a dimension's coordinates are those of the flag, all and no
others, and the empty one.

`StartupProofs` proves for files with any number of flags and of listed values, any keys
left out, any numerals and any number of workers, from `LongAssumption` (only texts can be
long): `ReaderFollows`, `NoRankStartsWithout`. `ReaderInv` adds to the
property what nests in what (`Nested`), which keys stand in which mapping (`KeyFits`) and
that the types of the flags are known ones (`Formed`): `map_key` and `state` decide together
what an event means, and only a file of the documented shape keeps them in step. `ShareInv`
adds that nothing is sent before the file has been read (`Paced`), that what was sent was
there (`SentIsThere`) and what a worker may have in its place (`Told`, which
`OnlyFitFilesStart` needs: a worker refuses only a signal that the master refuses too).

`ConfigProofs` goes on from there to what the program works with, for the same files,
from `LongAssumption` and the hypothesis `TypeFirst`, that the type of a flag comes
before the attributes that depend on it: `ConfigIsAsWritten`, `SearchSpaceIsAsWritten` and
`ParticlesStartInside`. `ConfigAsWritten` and
`OptionsAsWritten` are about the end of the file; `ConfigInv` is what holds at every
event before it:

* `Settings`: a setting has its text as soon as it is written;
* `FlagsRead`: the array has an entry for each flag begun, and each entry is what has
  been written of its flag so far (`ReadSoFar`, which says of every attribute of the
  file which field has it, and what the fields hold that have none yet);
* `AttributeFits`: the attribute under way belongs to a flag of the type already
  written, and is written once. This is where `TypeFirst` is needed: a type that comes
  later clears what was read, and a separator that comes earlier is refused;
* `ClosedComplete`, `CompilerOnce`: a flag that was closed has everything its type
  asks for, and the mapping of the compiler is opened once, so that the entry which
  ends the array is appended once and at its end.

`SearchInv` carries this to the search space: it is the image of the array
(`SpaceMade`), each coordinate that was placed is one `opt_rand_int_range` may return
(`Drawn`), and the program divided by zero only on a range that is not ordinary. With
`CoordinatesAreOptions` and `RandomCoordinateInside` of `SearchSpaceProofs` the two
properties of the search space follow. Without `TypeFirst` `ConfigAsWritten` is false
(sixth finding), and so is `PlacedInside`: of a flag from -2 to 3 whose `max` stands
before its type and whose `min` after it, the reader keeps -2 to 0, a range on which
the random number divides by zero although the one in the file is ordinary.

`TypeCorrect` of `Startup` is proved without that hypothesis: whatever a file does to the
values of a flag, the array has an entry for each flag begun, and each entry is a flag
(`FlagsTyped`), so that `num_flags` never counts one that is not there.

`OnlyFitFilesStart`, `FitFilesStart` for every file, number of workers and `spso_max_dims`,
does without it too. The decision to stop is taken on different ranks and from different
things: the master's texts, a worker's copy of one of them, the length of the search space.
The property says all of it in terms of the file. What links them: a setting has its text as
soon as it is written (`Settings`) and no text that is written is missing (`TextsThere`); a
flag that is closed has a type, so that when the file has ended `num_flags` counts all of its
flags (`ClosedTyped`, `AllCounted`); and the search space has as many dimensions as that
(`Initialised` of `FitInv`). `AbortIsRight`, `StartIsRight` and `RefusalIsRight` are the three
places where a rank decides.

`PositionStoreProofs` proves for any swarm, any positions and fitness values, any depth of
reports within reports and any number of starts, from `StoreAssumption` (a benchmark gives a
positive fitness, DBL_MAX at most): `TypeCorrect`, `EveryParticleIsQueued`,
`NothingBetterIsStored`.

* `Typed` adds to the types that every statement still to run is about a particle of the
  swarm, and that a dead process has none.
* `EveryParticleQueued` looks at moments when all reports have ended. In between, `Awaiting`:
  a particle is in the task farm, or some report is still to move or to add it. A report of
  a known position takes the addition of its particle away and puts a move in its place, and
  the particles of the outer reports wait behind it.
* `NothingBetterStored` needs `Ahead`: no particle's best and no report in progress is better
  than the swarm's best, and the stored best is the swarm's unless its statement is the next
  one, or the next but one after the position of the best (`InStep`). That is why nothing is
  stored between an improved best and its checkpoint.

Only model-checked: the liveness properties `StopEndsAllRanks`, `EvaluationsAnswered`,
`EveryItemAnswered` and `StartOrAbort`, since fairness is out of the prover's reach. Every
other property of a passing run is stated by a theorem above; those about the
configuration under `TypeFirst` and `DoneMeansAllStopped` under its hypothesis, which the
constants of their runs satisfy.

## 5. Findings

1. `taskfarm.c:468` allocates `worker_state` a second time, uninitialised. With
   fewer queued items than ranks, a rank may be taken for stopped and never be told
   (it stays in `MPI_Recv`), or for busy and never be given work. Run
   `uninitialised_state`.
2. `taskfarm.c:475` resets `stop_work`; a stop requested while the swarm was being
   started is lost and the program idles for ever. Run `lost_stop`.
3. `optimiser.c:349`: the fitness of a position is stored against the position the
   particle moved to, and later reported from there. Run `known_fitness`.
4. `data.c:1168`: the particle's row is updated with id and value swapped; a resumed
   swarm starts from the particles' first positions. Run `stale_row`.
5. `taskfarm.c:668`: repeats that differ by more than epsilon are reported as an error, and
   then answered with their mean. Run `noisy_benchmark`.
6. `config.c:375`: the handler of `type: range` clears `min` and `max`, and the separator is
   refused before the type is known, so that a range whose type is not its first key, as in
   `test/large-test-config.yml`, has the range 0 to 0. Run `misread_config`.

Seen while modelling, without a run of its own. Where the code's behaviour is in a module,
the module has it and the properties hold in spite of it:

* `taskfarm.c:746`: a rank that got the signal itself leaves without an answer, and the
  master's loop counts on one (`Signalled` of `TaskFarm`; `StopEndsAllRanks` is checked with
  the signal at the master only).
* `data.c:1661`: best fitness and best position are committed one after the other; a death in
  between makes the next run take the old position for the best (`Checkpoint`).
* `spso.c:344`: the third comparison of the stopping criterion is of a number with itself, so
  three global bests converge where the comment at 262-264 says four (`ShouldStop`).
* `stats.c:66-78`: epsilon is a percentage of the *sum* of the values, where `spso.c:334` says
  of the mean; the newest value is in neither the noise test nor the mean
  (`taskfarm.c:652-668`); the early exit needs six repeats where the comment says four
  (`taskfarm.c:642, 661`); `examples/README.md:55` says epsilon is no percentage (`Noisy`,
  `Measure`).
* `data.c:1628`: unset bests are read back as DBL_MAX, which undoes the guard of
  spso.c:231-234; a search resumed before any best was stored may converge on a failed
  evaluation (`FailureDoesNotConverge` excludes it).
* `common.c:168`: with a timeout of 0 `waitid` refuses its arguments; the command counts as
  failed and goes on running (`RefuseToWait`). `common.c:194`: the group of a shell that was
  killed by somebody else is not killed (`ReapSignalled`). `common.c:198`: a killed shell is
  not waited for (`TimeOut`).
* `random.c:164`: `opt_rand_int_range` divides by zero for range flags from -2 to 0 and from
  -1 to -1, and never draws some values of ranges with a negative limit, -1 to 64 among them
  (`opt_rand_int_range`, `MayDivideByZero`).
* `config.c:710`: `opt_bcast_string` reallocates a copy of the caller's pointer; the model takes
  the step (`MayMove`), no property forbids it.
  `config.c:729-731` says that name and version of the compiler are not sent; they are.

Outside the modules: `common.c:159` multiplies a timeout by 1000 in an int; `common.c:257`
returns from a vfork'ed child; `opt_rand_double` may return numbers up to 2; `optimiser.c:645`
uses the separator of a list flag, and `examples/gcc-7.1.2-config.yml:477` gives none;
`optimiser.c:402-405` reads through the null dimension of a flag of unknown type;
`optimiser.c:576` lets a uid one too large through; an unknown key whose value is a collection
puts the YAML reader out of step; `spso.c:769, 791`: a signal inside the swarm's judgement
frees what the judgement goes on to use.

## 6. Not modelled, and plan

Nearly all lines of the tree (98%) are two vendored SQLite amalgamations and the WELL512a
generator. Of the program's own code the modules translate more than half. Left out:

* logging, option parsing, the helper scripts, `MPI_Init` and allocation failures: I/O only;
* SQLite, libyaml, the kernel's processes and MPI, but for what the code relies on: a
  statement is atomic and durable, events come in the order of the file, a process group is
  killed as one, messages between two ranks keep their order;
* texts: the wording of options and commands, and files outside the documented format
  (unknown keys with collections, flags without a type);
* the real-valued geometry of the swarm: velocities, neighbourhoods and the boundary
  conditions of spso.c:560-610 (a move may end anywhere in the search space), and the
  generator's distribution;
* a signal inside the swarm's judgement or inside an SQLite statement: the code survives
  neither;
* 32-bit overflow of the millisecond clock.

What could be added: an abstract specification of the tables, in which a fitness was
measured at its position (the code implements it up to findings 3 and 4), and one of a
worker, which `Commands` implements and `TaskFarm` relies on.

----------------------------- MODULE Checkpoint -----------------------------
(***************************************************************************)
(* The swarm's record of its best results (src/src/spso.c), the checkpoint *)
(* of that record in SQLite (src/src/optimiser.c, src/src/data.c), and     *)
(* what a later run makes of it.                                           *)
(*                                                                         *)
(* A checkpoint is five UPDATE statements, each a transaction of its own:  *)
(* the process may die between any two of them.  todo holds what the       *)
(* report in progress has still to do, in order: the statements, by the    *)
(* name of the field they write, "move" where the particle is moved to its *)
(* next position, and "record" where the particle and its position are     *)
(* stored.  When the next position is known already, its fitness is        *)
(* reported at once, inside the report in progress; when a signal comes,   *)
(* the handler does its own steps first.  A signal comes between two       *)
(* steps, never inside one.                                                *)
(*                                                                         *)
(* Fitness is a time in thirds of a microsecond, so that the rounding of   *)
(* "%lf" to whole microseconds shows.                                      *)
(*                                                                         *)
(* A definition marked "A fault" is used by no action: it is the operator  *)
(* after it with a plausible bug, which some property must detect.         *)
(***************************************************************************)
EXTENDS Integers, Sequences, FiniteSets

CONSTANTS
  Fitness,    \* what a benchmark may measure
  MAX,        \* DBL_MAX, the fitness of a failed evaluation
  Epsilon,    \* config->epsilon, a percentage
  Threshold,  \* NO_MOVEMENT_THRESHOLD
  Position,
  Origin,     \* every coordinate at its minimum
  MaxRuns,    \* bound: times the program is started
  MaxDepth,   \* bound: reports nested in one another
  MaxTodo     \* bound: steps still to do when another signal comes

NoRow == "no row"

ASSUME CheckpointAssumption ==
  /\ MAX \in Nat
  /\ Fitness \subseteq 2 .. (MAX - 2)   \* no command runs in half a microsecond
  /\ Epsilon \in 0 .. 50
  /\ Threshold \in Nat
  /\ Origin \in Position /\ NoRow \notin Position
  /\ MaxRuns \in Nat \ {0}
  /\ MaxDepth \in Nat \ {0}
  /\ MaxTodo \in Nat

INF == MAX + 1   \* infinity
NONE == -1       \* "no value": -1.0 in memory, and what SQL's NULL is read as
VARIABLES
  mem,      \* the swarm's record: curr, prev, pprev, pos, counter, stopped
  db,       \* the same fields in the singleton tables, and whether any particle is stored
  todo,     \* the rest of the signal handler and the report in progress
  phase,    \* "starting" (the resumed swarm is queued), "up", "stopped"
            \* (already_stopped is set), "down"
  swarm,    \* the swarm has particles
  runs,     \* times the program was started
  seen,     \* history: the best fitness the swarm has looked at
  acked     \* history: the same, of the reports that have ended

vars == <<mem, db, todo, phase, swarm, runs, seen, acked>>

-----------------------------------------------------------------------------
(* Values on their way to the tables and back.                             *)

\* A double printed with "%lf": six decimals, whole microseconds.
Written(v) == IF v \in {NONE, MAX, INF} THEN v ELSE 3 * ((v + 1) \div 3)

\* A fault: NULL and -1 are not taken for "no value".
ReadRaw(w) == IF w >= MAX THEN INF ELSE w

\* A REAL read back as text.  SQLite renders DBL_MAX with 15 digits, which
\* rounds it up, and atof makes that infinity.  NULL is -1, and what is not
\* positive is taken for DBL_MAX.
Read(w) == IF w <= 0 THEN MAX ELSE IF w >= MAX THEN INF ELSE w

\* Failed evaluations are all alike.
Capped(v) == IF v >= MAX THEN MAX ELSE v

\* A fault: the two older bests are read into each other's place.
LoadedSwapped(d) ==
  [curr |-> Read(d.curr), prev |-> Read(d.pprev), pprev |-> Read(d.prev),
   pos |-> IF d.pos = NoRow THEN Origin ELSE d.pos,
   counter |-> d.counter, stopped |-> FALSE]

\* What a new process makes of the tables.
Loaded(d) ==
  [curr |-> Read(d.curr), prev |-> Read(d.prev), pprev |-> Read(d.pprev),
   pos |-> IF d.pos = NoRow THEN Origin ELSE d.pos,
   counter |-> d.counter, stopped |-> FALSE]

-----------------------------------------------------------------------------
(* The swarm's judgement of a result.                                      *)

Abs(x) == IF x < 0 THEN -x ELSE x

\* fabs(a - b) < two_sigma; false with infinity on either side.
Close(a, b, f) == INF \notin {a, b} /\ 100 * Abs(a - b) < 2 * Epsilon * f

\* spso_update_global_best
UpdateGlobalBest(f, x) ==
  IF mem.curr > f
  THEN [mem EXCEPT !.pprev = mem.prev, !.prev = mem.curr, !.curr = f, !.pos = x]
  ELSE mem

\* spso_should_stop: the record after fitness f was seen at position x.
ShouldStop(f, x) ==
  IF mem.stopped
  THEN mem
  ELSE IF f > mem.curr
  THEN [mem EXCEPT !.counter = @ + 1, !.stopped = mem.counter >= Threshold]
  ELSE LET m == UpdateGlobalBest(f, x)
       IN  [m EXCEPT !.counter = 0,
                     !.stopped = /\ Close(m.pprev, m.prev, f)
                                 /\ Close(m.prev, m.curr, f)
                                 /\ Close(m.curr, f, f)]

-----------------------------------------------------------------------------
(* Reports.                                                                *)

\* A fault: the current best is not written.
StatementsNoBest == <<"pprev", "prev", "pos", "counter">>

\* opt_checkpoint
Statements == <<"pprev", "prev", "curr", "pos", "counter">>

\* opt_report_fitness in front of whatever an outer report has still to do.
\* The listener of an improved best checkpoints first.
Report(f, x, rest) ==
  LET m == ShouldStop(f, x)
      listener == IF m.curr # mem.curr THEN Statements ELSE <<>>
      move == IF m.stopped THEN <<>> ELSE <<"move">>
  IN  /\ mem' = m
      /\ seen' = IF ~mem.stopped /\ f < seen THEN f ELSE seen
      /\ todo' = listener \o move \o <<"record">> \o Statements \o rest

\* spso_start_search in a resumed run: a particle's position is known, and its
\* fitness is reported at once, ...
StartKnown ==
  /\ phase = "starting"
  /\ todo = <<>>
  /\ swarm
  /\ \E f \in Fitness, x \in Position : Report(Written(f), x, <<>>)
  /\ UNCHANGED <<db, phase, swarm, runs, acked>>

\* ... until every other particle is in the task farm's queue.
Started ==
  /\ phase = "starting"
  /\ todo = <<>>
  /\ phase' = "up"
  /\ UNCHANGED <<mem, db, todo, swarm, runs, seen, acked>>

\* A worker's result arrives.
Receive ==
  /\ phase = "up"
  /\ todo = <<>>
  /\ swarm
  /\ \E f \in Fitness \cup {MAX}, x \in Position : Report(f, x, <<>>)
  /\ UNCHANGED <<db, phase, swarm, runs, acked>>

\* opt_add_to_fitness_queue: the next position goes to the task farm, or is
\* dropped when the search was stopped meanwhile, ...
Queue ==
  /\ todo # <<>>
  /\ Head(todo) = "move"
  /\ todo' = Tail(todo)
  /\ UNCHANGED <<mem, db, phase, swarm, runs, seen, acked>>

\* Reports in progress.
Depth == Cardinality({k \in DOMAIN todo : todo[k] = "record"})

\* ... or it is known, and its fitness is reported at once.
Known ==
  /\ todo # <<>>
  /\ Head(todo) = "move"
  /\ phase # "stopped"
  /\ Depth < MaxDepth
  /\ \E f \in Fitness, x \in Position : Report(Written(f), x, Tail(todo))
  /\ UNCHANGED <<db, phase, swarm, runs, acked>>

\* opt_db_update_particle and the fitness of its position.
Record ==
  /\ todo # <<>>
  /\ Head(todo) = "record"
  /\ db' = [db EXCEPT !.particles = TRUE]
  /\ todo' = Tail(todo)
  /\ UNCHANGED <<mem, phase, swarm, runs, seen, acked>>

\* One UPDATE statement of a checkpoint.
Execute ==
  /\ todo # <<>>
  /\ \/ Head(todo) \in {"curr", "prev", "pprev"}
        /\ db' = [db EXCEPT ![Head(todo)] = Written(mem[Head(todo)])]
     \/ Head(todo) \in {"pos", "counter"}
        /\ db' = [db EXCEPT ![Head(todo)] = mem[Head(todo)]]
  /\ todo' = Tail(todo)
  /\ acked' = IF Tail(todo) = <<>> THEN seen ELSE acked
  /\ UNCHANGED <<mem, phase, swarm, runs, seen>>

-----------------------------------------------------------------------------
(* Stopping, dying and starting again.                                     *)

\* A fault: a signal throws away what the report in progress had to do.
StopSearchAtOnce ==
  /\ phase # "down"
  /\ phase = "stopped" => Len(todo) <= MaxTodo
  /\ phase' = "stopped"
  /\ mem' = [mem EXCEPT !.stopped = TRUE]
  /\ todo' = <<>>
  /\ UNCHANGED <<db, swarm, runs, seen, acked>>

\* opt_stop_search, when the farm has ended or in a signal handler that comes
\* between any two steps, the first time or again: a checkpoint, before what the
\* report in progress has still to do.
StopSearch ==
  /\ phase # "down"
  /\ phase = "stopped" => Len(todo) <= MaxTodo
  /\ phase' = "stopped"
  /\ mem' = [mem EXCEPT !.stopped = TRUE]
  /\ todo' = Statements \o todo
  /\ UNCHANGED <<db, swarm, runs, seen, acked>>

\* The process ends, or is killed at any point of a report or checkpoint.  What
\* was committed stays ("PRAGMA synchronous=FULL").
Die ==
  /\ phase # "down"
  /\ phase' = "down"
  /\ todo' = <<>>
  /\ seen' = acked
  /\ UNCHANGED <<mem, db, swarm, runs, acked>>

\* A fault: the current best is not passed on to the swarm.
RestartAfresh ==
  /\ phase = "down"
  /\ runs < MaxRuns
  /\ runs' = runs + 1
  /\ phase' = "starting"
  /\ mem' = [Loaded(db) EXCEPT !.curr = MAX]
  /\ swarm' = db.particles
  /\ UNCHANGED <<db, todo, seen, acked>>

\* opt_init with OPT_DB_RESUME: the swarm is the particles that were stored.
Restart ==
  /\ phase = "down"
  /\ runs < MaxRuns
  /\ runs' = runs + 1
  /\ phase' = "starting"
  /\ mem' = Loaded(db)
  /\ swarm' = db.particles
  /\ UNCHANGED <<db, todo, seen, acked>>

\* The bound on restarts is reached.
Finished == phase = "down" /\ runs = MaxRuns /\ UNCHANGED vars

-----------------------------------------------------------------------------
\* A fault: the bests before the first are not told from failed evaluations.
NewRecordOfMAX(x) ==
  [curr |-> MAX, prev |-> MAX, pprev |-> MAX, pos |-> x, counter |-> 0, stopped |-> FALSE]

\* spso_init
NewRecord(x) ==
  [curr |-> MAX, prev |-> NONE, pprev |-> NONE, pos |-> x, counter |-> 0, stopped |-> FALSE]

\* The first run, with the schema created.
Init ==
  /\ mem \in {NewRecord(x) : x \in Position}
  /\ db = [curr |-> NONE, prev |-> NONE, pprev |-> NONE, pos |-> NoRow,
           counter |-> 0, particles |-> FALSE]
  /\ todo = <<>>
  /\ phase = "up"
  /\ swarm = TRUE
  /\ runs = 1
  /\ seen = MAX
  /\ acked = MAX

Next ==
  \/ StartKnown \/ Started \/ Receive \/ Queue \/ Known \/ Record \/ Execute
  \/ StopSearch \/ Die \/ Restart \/ Finished

Spec == Init /\ [][Next]_vars

-----------------------------------------------------------------------------
(* What the checkpoint promises.                                           *)

\* What may stand in todo.
Step == {"move", "record", "curr", "prev", "pprev", "pos", "counter"}

\* Values a run may hold or store.
Rounded == {Written(f) : f \in Fitness}
Real == Fitness \cup Rounded \cup {NONE, MAX, INF}

Memory == [curr : Real \ {NONE}, prev : Real, pprev : Real, pos : Position,
           counter : Nat, stopped : BOOLEAN]

\* Types of the variables.  The current best is a measured value, or none.
TypeOK ==
  /\ mem \in Memory
  /\ db \in [curr : Real, prev : Real, pprev : Real, pos : Position \cup {NoRow},
             counter : Nat, particles : BOOLEAN]
  /\ todo \in Seq(Step)
  /\ phase \in {"starting", "up", "stopped", "down"}
  /\ swarm \in BOOLEAN
  /\ runs \in 1 .. MaxRuns
  /\ seen \in Real \ {NONE}
  /\ acked \in Real \ {NONE}

\* However often and wherever the process dies, a run that starts from the
\* tables knows a best at least as good as any result whose report had ended,
\* up to the rounding of "%lf" (optimiser.c:183-187, data.c:1493-1522).
BestSurvives == acked < MAX => Read(db.curr) <= Written(acked)

\* Why it does: the swarm's best is never behind the stored one, nor behind what
\* it has seen, and it is stored before the report that found it ends.
StoredBehindMemory ==
  phase # "down" => Capped(Written(mem.curr)) <= Capped(Read(db.curr))

MemoryHasSeen ==
  /\ phase # "down" /\ seen < MAX => mem.curr < MAX /\ Written(mem.curr) <= Written(seen)
  /\ phase = "down" => seen = acked

WritesBest(steps) == \E k \in DOMAIN steps : steps[k] = "curr"

StoredInTime ==
  todo # <<>> => phase # "down" /\ (WritesBest(todo) \/ db.curr = Written(mem.curr))

\* The inductive invariant behind the two promises about the stored best
\* (spso.c:307-354, 714-746; optimiser.c:160-233, 463-480; data.c:1493-1737).
BestInv ==
  /\ TypeOK
  /\ db.curr \in Rounded \cup {NONE, MAX, INF}
  /\ BestSurvives /\ StoredBehindMemory /\ MemoryHasSeen /\ StoredInTime

\* No step, and no restart, makes the stored best worse (spso.c:734-745,
\* data.c:1661, 1699-1735).
NeverWorse == [][Capped(Read(db'.curr)) <= Capped(Read(db.curr))]_vars

\* When a report or the last checkpoint has ended, with all the reports nested
\* in it, a run that starts from the tables has the swarm's whole record: the
\* three bests, the position and the count of results without improvement.
RestartLosesNothing ==
  [][todo # <<>> /\ todo' = <<>> /\ phase' # "down"
       => Loaded(db') = [curr |-> Read(Written(mem'.curr)),
                         prev |-> Read(Written(mem'.prev)),
                         pprev |-> Read(Written(mem'.pprev)),
                         pos |-> mem'.pos, counter |-> mem'.counter,
                         stopped |-> FALSE]]_vars

\* In the run that creates the tables the search never decides by itself that it
\* has converged on a failed evaluation ("to try to get around the problem of
\* converging prematurely if the very first run fails", spso.c:231-232).
FailureDoesNotConverge ==
  runs = 1 /\ phase \in {"starting", "up"} /\ mem.stopped => mem.curr < MAX
=============================================================================

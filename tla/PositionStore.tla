--------------------------- MODULE PositionStore ---------------------------
(***************************************************************************)
(* The tables of positions, velocities and particles (src/src/data.c), and *)
(* how reports of fitness (src/src/optimiser.c, src/src/spso.c) fill them: *)
(* every position is measured once, and its fitness is taken from the      *)
(* table when a particle comes there again.                                *)
(*                                                                         *)
(* todo holds what the reports in progress have still to do, in order.     *)
(* Each statement is a transaction of its own, reads the particle when its *)
(* turn comes, and the process may die before it.                          *)
(*                                                                         *)
(* Left out: the count of results without improvement and the older bests  *)
(* (module Checkpoint), the decision to converge, which may be taken at    *)
(* any report, the rounding of "%lf", and the history tables, which are    *)
(* only written.                                                           *)
(*                                                                         *)
(* A definition marked "A fault" is used by no action: it is the operator  *)
(* after it with a plausible bug, which some property must detect.         *)
(***************************************************************************)
EXTENDS Integers, Sequences, FiniteSets

CONSTANTS
  NumParticles,
  Position, Velocity,
  Origin, Least,  \* position and velocity with every coordinate at its minimum
  Still,          \* the velocity 0
  Outcome,        \* Outcome[x]: what a benchmark at x may give, MAX if it fails
  MAX,            \* DBL_MAX
  Garbage,        \* what an uninitialised double may hold
  MaxRuns,        \* bound: times the program is started
  MaxDepth,       \* bound: reports nested in one another
  MaxVisits       \* bound: visits are counted up to this

ASSUME StoreAssumption ==
  /\ NumParticles \in Nat \ {0}
  /\ Origin \in Position /\ {Least, Still} \subseteq Velocity
  /\ MAX \in Nat
  /\ Outcome \in [Position -> (SUBSET (1 .. MAX)) \ {{}}]
  /\ Garbage \subseteq 0 .. MAX
  /\ MaxRuns \in Nat \ {0}
  /\ MaxDepth \in Nat \ {0}
  /\ MaxVisits \in Nat \ {0, 1}

INF == MAX + 1
NULL == 0          \* a fitness that is not set is read as 0.0
NoRow == 0         \* row ids are positive

VARIABLES
  mem,      \* [swarm, gbest, gfit, stopped]
  db,       \* [positions, velocities, particles, curr, best]
  pending,  \* particles whose evaluation is in the task farm
  todo, phase, runs

vars == <<mem, db, pending, todo, phase, runs>>

Swarm == DOMAIN mem.swarm

-----------------------------------------------------------------------------
(* The tables.                                                             *)

\* opt_db_find_position: the id of x's row.
RowOf(x) ==
  IF \E id \in DOMAIN db.positions : db.positions[id].pos = x
  THEN CHOOSE id \in DOMAIN db.positions : db.positions[id].pos = x
  ELSE NoRow

\* opt_db_find_velocity
VelocityRowOf(v) ==
  IF \E id \in DOMAIN db.velocities : db.velocities[id] = v
  THEN CHOOSE id \in DOMAIN db.velocities : db.velocities[id] = v
  ELSE NoRow

\* A fault: a position is inserted without looking for it.
VisitedBlindly(x) == Append(db.positions, [pos |-> x, fitness |-> NULL, visits |-> 1])

\* opt_db_store_position
Visited(x) ==
  IF RowOf(x) = NoRow
  THEN Append(db.positions, [pos |-> x, fitness |-> NULL, visits |-> 1])
  ELSE [db.positions EXCEPT ![RowOf(x)].visits = IF @ = MaxVisits THEN @ ELSE @ + 1]

\* A REAL column read back as text: DBL_MAX comes back as infinity.
Read(f) == IF f >= MAX THEN INF ELSE f

\* The test of opt_add_to_fitness_queue for a fitness it may use.
Usable(row) == row.visits > 1 /\ row.fitness \notin {NULL, MAX, INF}

\* x has a row with such a fitness.
Known(x) == RowOf(x) # NoRow /\ Usable(db.positions[RowOf(x)])

-----------------------------------------------------------------------------
(* Reports.                                                                *)

Do(op, p, f) == [op |-> op, p |-> p, f |-> f]

\* The part of opt_checkpoint that concerns these tables.
Checkpoint ==
  <<Do("gbest", 0, 0), Do("CURR_BEST", 0, 0), Do("gbest fitness", 0, 0), Do("BEST_POS", 0, 0)>>

\* opt_db_update_particle or opt_db_store_particle
UpdateParticle(p) ==
  <<Do("best", p, 0), Do("best fitness", p, 0), Do("position", p, 0),
    Do("velocity", p, 0), Do("row", p, 0)>>

\* The end of opt_report_fitness.
RecordFitness(p, f) == <<Do("position", p, 0), Do("fitness", p, f)>> \o Checkpoint

\* A fault: an improved best is not checkpointed at once.
ReportWithoutListener(p, f, rest) ==
  LET q == mem.swarm[p]
      better == ~mem.stopped /\ mem.gfit > f
  IN  \E stop \in {s \in BOOLEAN : mem.stopped => s} :
        /\ mem' = [swarm |-> IF q.bestFit > f
                             THEN [mem.swarm EXCEPT ![p].best = q.pos, ![p].bestFit = f]
                             ELSE mem.swarm,
                   gbest |-> IF better THEN q.pos ELSE mem.gbest,
                   gfit |-> IF better THEN f ELSE mem.gfit,
                   stopped |-> stop]
        /\ todo' = (IF stop THEN <<>> ELSE <<Do("move", p, 0)>>)
                     \o UpdateParticle(p) \o RecordFitness(p, f) \o rest

\* opt_report_fitness in front of whatever outer reports have still to do.
Report(p, f, rest) ==
  LET q == mem.swarm[p]
      better == ~mem.stopped /\ mem.gfit > f
  IN  \E stop \in {s \in BOOLEAN : mem.stopped => s} :
        /\ mem' = [swarm |-> IF q.bestFit > f
                             THEN [mem.swarm EXCEPT ![p].best = q.pos, ![p].bestFit = f]
                             ELSE mem.swarm,
                   gbest |-> IF better THEN q.pos ELSE mem.gbest,
                   gfit |-> IF better THEN f ELSE mem.gfit,
                   stopped |-> stop]
        /\ todo' = (IF better THEN Checkpoint ELSE <<>>)
                     \o (IF stop THEN <<>> ELSE <<Do("move", p, 0)>>)
                     \o UpdateParticle(p) \o RecordFitness(p, f) \o rest

\* A worker's result for the particle's position arrives.
Receive ==
  /\ phase = "up"
  /\ todo = <<>>
  /\ \E p \in pending :
       /\ pending' = pending \ {p}
       /\ \E f \in Outcome[mem.swarm[p].pos] : Report(p, f, <<>>)
  /\ UNCHANGED <<db, phase, runs>>

Next1(op) == todo # <<>> /\ Head(todo).op = op

\* Where a move may end: coordinates that leave the search space are brought
\* back by the boundary conditions, or drawn at random.
Landing == [pos : Position, vel : Velocity]

\* spso_compute_velocity: somewhere else, or to the same place.
Move ==
  /\ Next1("move")
  /\ \E l \in Landing :
       mem' = [mem EXCEPT !.swarm[Head(todo).p].pos = l.pos,
                          !.swarm[Head(todo).p].vel = l.vel]
  /\ todo' = <<Do("add", Head(todo).p, 0)>> \o Tail(todo)
  /\ UNCHANGED <<db, pending, phase, runs>>

\* A fault: a particle that waits for its evaluation already is forgotten.
QueueOnlyOthers ==
  /\ Next1("add")
  /\ ~Known(mem.swarm[Head(todo).p].pos)
  /\ pending' = IF \E q \in pending : mem.swarm[q].pos = mem.swarm[Head(todo).p].pos
                THEN pending ELSE pending \cup {Head(todo).p}
  /\ todo' = Tail(todo)
  /\ UNCHANGED <<mem, db, phase, runs>>

\* opt_add_to_fitness_queue: the position has to be measured, ...
Queue ==
  /\ Next1("add")
  /\ ~Known(mem.swarm[Head(todo).p].pos)
  /\ pending' = pending \cup {Head(todo).p}
  /\ todo' = Tail(todo)
  /\ UNCHANGED <<mem, db, phase, runs>>

\* Reports in progress.
Depth == Cardinality({k \in DOMAIN todo : todo[k].op = "fitness"})

\* ... or its fitness is in the table, and is reported at once.
ReportKnown ==
  /\ Next1("add")
  /\ Depth < MaxDepth
  /\ LET p == Head(todo).p
         x == mem.swarm[p].pos
     IN  Known(x) /\ Report(p, Read(db.positions[RowOf(x)].fitness), Tail(todo))
  /\ UNCHANGED <<db, pending, phase, runs>>

-----------------------------------------------------------------------------
(* Statements.                                                             *)

\* The position a statement is about, and the fitness it writes.
Place(s) ==
  CASE s.op \in {"best", "best fitness"} -> mem.swarm[s.p].best
    [] s.op \in {"gbest", "gbest fitness", "BEST_POS"} -> mem.gbest
    [] OTHER -> mem.swarm[s.p].pos

Value(s) ==
  CASE s.op = "best fitness" -> mem.swarm[s.p].bestFit
    [] s.op = "gbest fitness" -> mem.gfit
    [] OTHER -> s.f

Done == todo' = Tail(todo) /\ UNCHANGED <<mem, pending, phase, runs>>

\* opt_db_store_position
StorePosition ==
  /\ Next1("best") \/ Next1("gbest") \/ Next1("position")
  /\ db' = [db EXCEPT !.positions = Visited(Place(Head(todo)))]
  /\ Done

\* opt_db_update_position_fitness
StoreFitness ==
  /\ Next1("best fitness") \/ Next1("gbest fitness") \/ Next1("fitness")
  /\ db' = [db EXCEPT !.positions[RowOf(Place(Head(todo)))].fitness = Value(Head(todo))]
  /\ Done

\* opt_db_store_velocity
StoreVelocity ==
  /\ Next1("velocity")
  /\ LET v == mem.swarm[Head(todo).p].vel
     IN  db' = IF VelocityRowOf(v) = NoRow
               THEN [db EXCEPT !.velocities = Append(@, v)] ELSE db
  /\ Done

\* The INSERT of opt_db_store_particle.
InsertRow ==
  /\ Next1("row")
  /\ LET p == Head(todo).p
         row == [positionID |-> RowOf(mem.swarm[p].pos),
                 velocityID |-> VelocityRowOf(mem.swarm[p].vel),
                 bestPositionID |-> RowOf(mem.swarm[p].best)]
     IN  /\ p \notin DOMAIN db.particles
         /\ db' = [db EXCEPT !.particles =
                     [i \in DOMAIN @ \cup {p} |-> IF i = p THEN row ELSE @[i]]]
  /\ Done

\* opt_db_update_particle has three UPDATEs for a particle it knows.
KnownRow ==
  /\ Next1("row")
  /\ LET p == Head(todo).p
     IN  /\ p \in DOMAIN db.particles
         /\ todo' = <<Do("positionID", p, 0), Do("velocityID", p, 0),
                      Do("bestPositionID", p, 0)>> \o Tail(todo)
  /\ UNCHANGED <<mem, db, pending, phase, runs>>

\* UPDATE particle SET column = uid WHERE id = row: the code passes the new
\* value as the id and the particle's id as the value.
Update(column, row) ==
  /\ Next1(column)
  /\ db' = IF row \in DOMAIN db.particles
           THEN [db EXCEPT !.particles[row][column] = Head(todo).p] ELSE db
  /\ Done

UpdateRow ==
  \/ Update("positionID", RowOf(mem.swarm[Head(todo).p].pos))
  \/ Update("velocityID", VelocityRowOf(mem.swarm[Head(todo).p].vel))
  \/ Update("bestPositionID", VelocityRowOf(mem.swarm[Head(todo).p].vel))

\* The two singletons of opt_db_store_curr_best.
StoreSingleton ==
  /\ \/ Next1("CURR_BEST") /\ db' = [db EXCEPT !.curr = mem.gfit]
     \/ Next1("BEST_POS") /\ db' = [db EXCEPT !.best = RowOf(mem.gbest)]
  /\ Done

-----------------------------------------------------------------------------
(* Stopping, dying and starting again.                                     *)

\* opt_stop_search between two reports.
StopSearch ==
  /\ phase = "up"
  /\ todo = <<>>
  /\ phase' = "stopped"
  /\ mem' = [mem EXCEPT !.stopped = TRUE]
  /\ todo' = Checkpoint
  /\ UNCHANGED <<db, pending, runs>>

Die ==
  /\ phase # "down"
  /\ phase' = "down"
  /\ todo' = <<>>
  /\ pending' = {}
  /\ UNCHANGED <<mem, db, runs>>

\* opt_db_new_particle: every coordinate at its minimum.
Blank == [pos |-> Origin, vel |-> Least]

\* opt_db_get_position, opt_db_get_velocity: a row that is not there changes
\* nothing.
PositionAt(id) == IF id \in DOMAIN db.positions THEN db.positions[id].pos ELSE Blank.pos
VelocityAt(id) == IF id \in DOMAIN db.velocities THEN db.velocities[id] ELSE Blank.vel

\* opt_db_get_position_fitness leaves an uninitialised double alone if there is
\* no row.
FitnessAt(id) ==
  IF id \in DOMAIN db.positions THEN {Read(db.positions[id].fitness)} ELSE Garbage

\* opt_db_get_particle: the ids of a particle that is not in the table are 0.
RowAt(p) ==
  IF p \in DOMAIN db.particles THEN db.particles[p]
  ELSE [positionID |-> 0, velocityID |-> 0, bestPositionID |-> 0]

\* Particles 0 .. n - 1, in the order in which the search adds them.
AddAll(n) == [k \in 1 .. n |-> Do("add", k - 1, 0)]

\* opt_db_get_particle_count
ParticleCount == Cardinality(DOMAIN db.particles)

\* What opt_db_get_swarm may give: as many particles as there are rows.
ResumedSwarms ==
  LET ids == 0 .. ParticleCount - 1
      Resumed(p, f) == [pos |-> PositionAt(RowAt(p).positionID),
                        vel |-> VelocityAt(RowAt(p).velocityID),
                        best |-> PositionAt(RowAt(p).bestPositionID),
                        bestFit |-> f]
      fits == [ids -> UNION {FitnessAt(RowAt(p).bestPositionID) : p \in ids}]
  IN  {[p \in ids |-> Resumed(p, fit[p])] :
         fit \in {g \in fits : \A p \in ids : g[p] \in FitnessAt(RowAt(p).bestPositionID)}}

\* opt_init with OPT_DB_RESUME, and the search starts.
Restart ==
  /\ phase = "down"
  /\ runs < MaxRuns
  /\ runs' = runs + 1
  /\ phase' = "up"
  /\ \E s \in ResumedSwarms :
       mem' = [swarm |-> s, gbest |-> PositionAt(db.best),
               gfit |-> IF db.curr = NULL THEN MAX ELSE Read(db.curr), stopped |-> FALSE]
  /\ todo' = AddAll(ParticleCount)
  /\ UNCHANGED <<db, pending>>

\* The bound on restarts is reached.
Finished == phase = "down" /\ runs = MaxRuns /\ UNCHANGED vars

-----------------------------------------------------------------------------
\* opt_db_create_schema
EmptyTables == [positions |-> <<>>, velocities |-> <<>>, particles |-> <<>>,
                curr |-> NULL, best |-> NoRow]

\* spso_initialise_particle: at a random place, with a random best that has not
\* been measured.
NewParticles == {[pos |-> x, vel |-> Still, best |-> y, bestFit |-> MAX] :
                   x \in Position, y \in Position}

\* opt_init with OPT_DB_NEW, and the search starts.
Init ==
  /\ \E s \in [0 .. NumParticles - 1 -> NewParticles], x \in Position :
       mem = [swarm |-> s, gbest |-> x, gfit |-> MAX, stopped |-> FALSE]
  /\ db = EmptyTables
  /\ pending = {}
  /\ todo = AddAll(NumParticles)
  /\ phase = "up"
  /\ runs = 1

Next ==
  \/ Receive \/ Move \/ Queue \/ ReportKnown
  \/ StorePosition \/ StoreFitness \/ StoreVelocity
  \/ InsertRow \/ KnownRow \/ UpdateRow \/ StoreSingleton
  \/ StopSearch \/ Die \/ Restart \/ Finished

Spec == Init /\ [][Next]_vars

-----------------------------------------------------------------------------
Value0 == 0 .. INF

\* Types of the variables; a position or velocity has one row.
TypeOK ==
  /\ mem.swarm \in [Swarm -> [pos : Position, vel : Velocity, best : Position, bestFit : Value0]]
  /\ mem.gbest \in Position /\ mem.gfit \in Value0 /\ mem.stopped \in BOOLEAN
  /\ db.positions \in Seq([pos : Position, fitness : Value0, visits : 1 .. MaxVisits])
  /\ \A i, j \in DOMAIN db.positions : db.positions[i].pos = db.positions[j].pos => i = j
  /\ db.velocities \in Seq(Velocity)
  /\ \A i, j \in DOMAIN db.velocities : db.velocities[i] = db.velocities[j] => i = j
  /\ \A p \in DOMAIN db.particles :
       db.particles[p] \in [positionID : Nat, velocityID : Nat, bestPositionID : Nat]
  /\ pending \subseteq Swarm
  /\ \A k \in DOMAIN todo : todo[k].p \in Swarm \cup {0}
  /\ phase \in {"up", "stopped", "down"}
  /\ runs \in 1 .. MaxRuns

\* When all reports have ended and the search goes on, every particle has its
\* evaluation under way: the recursion over known positions never drops one
\* (optimiser.c:286-309, spso.c:764-771).
EveryParticleQueued ==
  phase = "up" /\ todo = <<>> /\ ~mem.stopped => pending = Swarm

\* As long as the first search goes on, no row has a fitness better than the
\* stored best, at any point of any report: the checkpoint of an improved best
\* comes before everything else that stores its fitness, so that a process that
\* dies leaves no result that the next run's best ignores (spso.c:734-745,
\* optimiser.c:184-187, 344-351, 487).
NothingBetterStored ==
  runs = 1 /\ ~mem.stopped =>
    \A id \in DOMAIN db.positions :
      LET f == db.positions[id].fitness
      IN  f = NULL \/ f >= (IF db.curr = NULL THEN MAX ELSE db.curr)

\* When all reports have ended, the row of a particle names the position where
\* the particle is ("all the particles have had their positions stored each time
\* they are updated", optimiser.c:191-192).
RowsFollowParticles ==
  phase = "up" /\ todo = <<>> =>
    \A p \in DOMAIN db.particles :
      PositionAt(db.particles[p].positionID) = mem.swarm[p].pos

\* A fitness that a search would take from the table is one that a benchmark at
\* that position gives ("Check if position is in the database already.  If so,
\* just report the already recorded fitness", optimiser.c:266-268).
UsableWasMeasured ==
  \A id \in DOMAIN db.positions :
    Usable(db.positions[id]) => db.positions[id].fitness \in Outcome[db.positions[id].pos]
=============================================================================

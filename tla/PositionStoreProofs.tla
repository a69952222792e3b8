------------------------ MODULE PositionStoreProofs ------------------------
(***************************************************************************)
(* Proofs about PositionStore: its types, that no particle is dropped by   *)
(* the recursion over known positions, and that no result is stored that   *)
(* the stored best is behind of, for any swarm, any positions and          *)
(* fitness values, and any depth of the recursion.                         *)
(***************************************************************************)
EXTENDS PositionStore, FiniteSetTheorems, SequenceTheorems, TLAPS

Particle == [pos : Position, vel : Velocity, best : Position, bestFit : Value0]
PositionRow == [pos : Position, fitness : Value0, visits : 1 .. MaxVisits]
ParticleRow == [positionID : Nat, velocityID : Nat, bestPositionID : Nat]

\* Statements about the whole swarm, and about one particle.
GlobalOps == {"gbest", "CURR_BEST", "gbest fitness", "BEST_POS"}
ParticleOps ==
  {"move", "add", "best", "best fitness", "position", "fitness", "velocity", "row",
   "positionID", "velocityID", "bestPositionID"}

Task(S) ==
  [op : GlobalOps, p : {0}, f : Value0] \cup [op : ParticleOps, p : S, f : Value0]

\* TypeOK, with what it leaves open: every statement about a particle is about one
\* of the swarm, and a dead process has nothing to do.
MemTyped ==
  /\ mem = [swarm |-> mem.swarm, gbest |-> mem.gbest, gfit |-> mem.gfit,
            stopped |-> mem.stopped]
  /\ mem.swarm \in [Swarm -> Particle] /\ Swarm \subseteq Nat
  /\ mem.gbest \in Position /\ mem.gfit \in Value0 /\ mem.stopped \in BOOLEAN

DbTyped ==
  /\ DOMAIN db = {"positions", "velocities", "particles", "curr", "best"}
  /\ db.positions \in Seq(PositionRow)
  /\ \A i, j \in DOMAIN db.positions : db.positions[i].pos = db.positions[j].pos => i = j
  /\ db.velocities \in Seq(Velocity)
  /\ \A i, j \in DOMAIN db.velocities : db.velocities[i] = db.velocities[j] => i = j
  /\ db.particles \in [DOMAIN db.particles -> ParticleRow]
  /\ DOMAIN db.particles \subseteq Nat /\ IsFiniteSet(DOMAIN db.particles)
  /\ db.curr \in Value0 /\ db.best \in Nat

TodoTyped ==
  /\ todo \in Seq(Task(Swarm))
  /\ pending \subseteq Swarm
  /\ phase \in {"up", "stopped", "down"}
  /\ phase = "down" => todo = <<>> /\ pending = {}
  /\ runs \in 1 .. MaxRuns

Typed == MemTyped /\ DbTyped /\ TodoTyped

-----------------------------------------------------------------------------
(* Sequences of statements.                                                *)

LEMMA FourAre ==
  ASSUME NEW T, NEW a \in T, NEW b \in T, NEW c \in T, NEW d \in T
  PROVE  LET s == <<a, b, c, d>>
         IN  /\ s \in Seq(T) /\ Len(s) = 4 /\ s[1] = a /\ s[2] = b
             /\ \A k \in 1 .. 4 : s[k] \in {a, b, c, d}
OBVIOUS

LEMMA FiveAre ==
  ASSUME NEW T, NEW a \in T, NEW b \in T, NEW c \in T, NEW d \in T, NEW e \in T
  PROVE  LET s == <<a, b, c, d, e>>
         IN  s \in Seq(T) /\ Range(s) = {a, b, c, d, e}
<1> DEFINE s == <<a, b, c, d, e>>
<1>1. s \in Seq(T)
  OBVIOUS
<1>2. DOMAIN s = 1 .. 5 /\ s[1] = a /\ s[2] = b /\ s[3] = c /\ s[4] = d /\ s[5] = e
  OBVIOUS
<1> HIDE DEF s
<1>3. Range(s) = {s[1], s[2], s[3], s[4], s[5]}
  BY <1>2 DEF Range
<1> QED BY <1>1, <1>2, <1>3 DEF s

LEMMA Values == MAX \in Nat /\ INF = MAX + 1 /\ MAX >= 1
<1>1. MAX \in Nat /\ Origin \in Position /\ Outcome \in [Position -> (SUBSET (1 .. MAX)) \ {{}}]
  BY StoreAssumption
<1>2. Outcome[Origin] \subseteq 1 .. MAX /\ Outcome[Origin] # {}
  BY <1>1
<1> QED BY <1>1, <1>2 DEF INF

LEMMA Reading == \A f \in Value0 : Read(f) \in Value0
BY Values DEF Read, Value0

LEMMA Doing ==
  ASSUME NEW S, NEW f \in Value0
  PROVE  /\ \A op \in GlobalOps : Do(op, 0, 0) \in Task(S)
         /\ \A op \in ParticleOps, p \in S : Do(op, p, 0) \in Task(S) /\ Do(op, p, f) \in Task(S)
BY Values DEF Do, Task, Value0

LEMMA CheckpointType ==
  ASSUME NEW S
  PROVE  /\ Checkpoint \in Seq(Task(S)) /\ Len(Checkpoint) = 4
         /\ Checkpoint[1] = Do("gbest", 0, 0) /\ Checkpoint[2] = Do("CURR_BEST", 0, 0)
         /\ \A k \in 1 .. 4 : Checkpoint[k].op \in GlobalOps
<1>1. 0 \in Value0
  BY Values DEF Value0
<1>2. /\ Do("gbest", 0, 0) \in Task(S) /\ Do("CURR_BEST", 0, 0) \in Task(S)
      /\ Do("gbest fitness", 0, 0) \in Task(S) /\ Do("BEST_POS", 0, 0) \in Task(S)
  BY <1>1, Doing DEF GlobalOps
<1> DEFINE a == Do("gbest", 0, 0)
           b == Do("CURR_BEST", 0, 0)
           c == Do("gbest fitness", 0, 0)
           d == Do("BEST_POS", 0, 0)
<1>3. a.op \in GlobalOps /\ b.op \in GlobalOps /\ c.op \in GlobalOps /\ d.op \in GlobalOps
  BY DEF Do, GlobalOps
<1>4. Checkpoint = <<a, b, c, d>>
  BY DEF Checkpoint
<1> HIDE DEF a, b, c, d
<1>5. /\ Checkpoint \in Seq(Task(S)) /\ Len(Checkpoint) = 4 /\ Checkpoint[1] = a
      /\ Checkpoint[2] = b /\ \A k \in 1 .. 4 : Checkpoint[k] \in {a, b, c, d}
  BY <1>2, <1>4, FourAre DEF a, b, c, d
<1> QED BY <1>3, <1>5 DEF a, b

\* What a report adds to do.
LEMMA ReportType ==
  ASSUME NEW S, NEW p \in S, NEW f \in Value0
  PROVE  /\ UpdateParticle(p) \in Seq(Task(S))
         /\ RecordFitness(p, f) \in Seq(Task(S))
         /\ <<Do("move", p, 0)>> \in Seq(Task(S)) /\ <<Do("add", p, 0)>> \in Seq(Task(S))
         /\ <<Do("positionID", p, 0), Do("velocityID", p, 0), Do("bestPositionID", p, 0)>>
              \in Seq(Task(S))
         /\ <<>> \in Seq(Task(S))
<1>1. \A op \in ParticleOps : Do(op, p, 0) \in Task(S) /\ Do(op, p, f) \in Task(S)
  BY Doing
<1>2. UpdateParticle(p) \in Seq(Task(S))
  <2>1. /\ Do("best", p, 0) \in Task(S) /\ Do("best fitness", p, 0) \in Task(S)
        /\ Do("position", p, 0) \in Task(S) /\ Do("velocity", p, 0) \in Task(S)
        /\ Do("row", p, 0) \in Task(S)
    BY <1>1 DEF ParticleOps
  <2> QED BY <2>1, FiveAre DEF UpdateParticle
<1>3. RecordFitness(p, f) \in Seq(Task(S))
  <2>1. Do("position", p, 0) \in Task(S) /\ Do("fitness", p, f) \in Task(S)
    BY <1>1 DEF ParticleOps
  <2>2. <<Do("position", p, 0), Do("fitness", p, f)>> \in Seq(Task(S))
    BY <2>1
  <2> QED BY <2>2, CheckpointType, ConcatProperties DEF RecordFitness
<1>4. /\ Do("move", p, 0) \in Task(S) /\ Do("add", p, 0) \in Task(S)
      /\ Do("positionID", p, 0) \in Task(S) /\ Do("velocityID", p, 0) \in Task(S)
      /\ Do("bestPositionID", p, 0) \in Task(S)
  BY <1>1 DEF ParticleOps
<1>5. /\ <<Do("move", p, 0)>> \in Seq(Task(S)) /\ <<Do("add", p, 0)>> \in Seq(Task(S))
      /\ <<Do("positionID", p, 0), Do("velocityID", p, 0), Do("bestPositionID", p, 0)>>
           \in Seq(Task(S))
      /\ <<>> \in Seq(Task(S))
  BY <1>4
<1> QED BY <1>2, <1>3, <1>5

\* The next statement, and the others.
LEMMA NextTask ==
  ASSUME NEW S, NEW s \in Seq(Task(S)), s # <<>>
  PROVE  /\ Head(s) \in Task(S) /\ Tail(s) \in Seq(Task(S))
         /\ Head(s) = s[1] /\ Len(s) \in Nat \ {0}
         /\ Len(Tail(s)) = Len(s) - 1 /\ \A i \in 1 .. Len(Tail(s)) : Tail(s)[i] = s[i + 1]
BY HeadTailProperties, EmptySeq

LEMMA TypedIsTypeOK == Typed => TypeOK
<1> SUFFICES ASSUME Typed PROVE TypeOK
  OBVIOUS
<1>1. \A k \in DOMAIN todo : todo[k].p \in Swarm \cup {0}
  <2>1. \A k \in DOMAIN todo : todo[k] \in Task(Swarm)
    BY LenProperties DEF Typed, TodoTyped
  <2>2. \A t \in Task(Swarm) : t.p \in Swarm \cup {0}
    BY DEF Task
  <2> QED BY <2>1, <2>2
<1>2. \A p \in DOMAIN db.particles :
        db.particles[p] \in [positionID : Nat, velocityID : Nat, bestPositionID : Nat]
  BY DEF Typed, DbTyped, ParticleRow
<1> QED BY <1>1, <1>2 DEF Typed, MemTyped, DbTyped, TodoTyped, TypeOK, Particle, PositionRow

-----------------------------------------------------------------------------
(* The tables.                                                             *)

LEMMA Rows ==
  ASSUME DbTyped, NEW x
  PROVE  /\ RowOf(x) \in Nat
         /\ RowOf(x) # NoRow => RowOf(x) \in DOMAIN db.positions /\ db.positions[RowOf(x)].pos = x
         /\ RowOf(x) = NoRow => \A id \in DOMAIN db.positions : db.positions[id].pos # x
<1>1. DOMAIN db.positions = 1 .. Len(db.positions) /\ Len(db.positions) \in Nat
  BY LenProperties DEF DbTyped
<1>2. CASE \E id \in DOMAIN db.positions : db.positions[id].pos = x
  <2>1. RowOf(x) \in DOMAIN db.positions /\ db.positions[RowOf(x)].pos = x
    BY <1>2 DEF RowOf
  <2> QED BY <1>1, <2>1 DEF NoRow
<1>3. CASE ~\E id \in DOMAIN db.positions : db.positions[id].pos = x
  BY <1>3 DEF RowOf, NoRow
<1> QED BY <1>2, <1>3

LEMMA VelocityRows ==
  ASSUME DbTyped, NEW v
  PROVE  /\ VelocityRowOf(v) \in Nat
         /\ VelocityRowOf(v) = NoRow => \A id \in DOMAIN db.velocities : db.velocities[id] # v
<1>1. DOMAIN db.velocities = 1 .. Len(db.velocities) /\ Len(db.velocities) \in Nat
  BY LenProperties DEF DbTyped
<1>2. CASE \E id \in DOMAIN db.velocities : db.velocities[id] = v
  <2>1. VelocityRowOf(v) \in DOMAIN db.velocities
    BY <1>2 DEF VelocityRowOf
  <2> QED BY <1>1, <2>1 DEF NoRow
<1>3. CASE ~\E id \in DOMAIN db.velocities : db.velocities[id] = v
  BY <1>3 DEF VelocityRowOf, NoRow
<1> QED BY <1>2, <1>3

\* A new row, for what has none.
LEMMA Added ==
  ASSUME NEW T, NEW s \in Seq(T), NEW r \in T
  PROVE  /\ Append(s, r) \in Seq(T) /\ DOMAIN Append(s, r) = DOMAIN s \cup {Len(s) + 1}
         /\ Len(s) + 1 \notin DOMAIN s
         /\ Append(s, r)[Len(s) + 1] = r
         /\ \A i \in DOMAIN s : Append(s, r)[i] = s[i]
<1>1. Len(s) \in Nat /\ DOMAIN s = 1 .. Len(s)
  BY LenProperties
<1>2. /\ Append(s, r) \in Seq(T) /\ Len(Append(s, r)) = Len(s) + 1
      /\ Append(s, r)[Len(s) + 1] = r
      /\ \A i \in 1 .. Len(s) : Append(s, r)[i] = s[i]
  BY AppendProperties
<1>3. DOMAIN Append(s, r) = 1 .. Len(s) + 1
  BY <1>2, LenProperties
<1> QED BY <1>1, <1>2, <1>3

\* Storing a position keeps the table's types, and all fitness values.
LEMMA Visiting ==
  ASSUME DbTyped, NEW x \in Position
  PROVE  /\ Visited(x) \in Seq(PositionRow)
         /\ \A i, j \in DOMAIN Visited(x) : Visited(x)[i].pos = Visited(x)[j].pos => i = j
         /\ \A i \in DOMAIN Visited(x) :
              \/ Visited(x)[i].fitness = NULL
              \/ i \in DOMAIN db.positions /\ Visited(x)[i].fitness = db.positions[i].fitness
<1> DEFINE rows == db.positions
           new == [pos |-> x, fitness |-> NULL, visits |-> 1]
           r == RowOf(x)
<1>0. rows \in Seq(PositionRow) /\ DOMAIN rows = 1 .. Len(rows) /\ Len(rows) \in Nat
      /\ \A i \in DOMAIN rows : rows[i] \in PositionRow
  BY LenProperties DEF DbTyped
<1>1. CASE r = NoRow
  <2>1. new \in PositionRow
    BY StoreAssumption, Values DEF PositionRow, Value0, NULL
  <2>2. Visited(x) = Append(rows, new)
    BY <1>1 DEF Visited
  <2>3. /\ Append(rows, new) \in Seq(PositionRow)
        /\ DOMAIN Append(rows, new) = DOMAIN rows \cup {Len(rows) + 1}
        /\ Append(rows, new)[Len(rows) + 1] = new
        /\ \A i \in DOMAIN rows : Append(rows, new)[i] = rows[i]
    BY <1>0, <2>1, Added
  <2>4. \A i \in DOMAIN rows : rows[i].pos # x
    BY <1>1, Rows
  <2>5. new.pos = x /\ new.fitness = NULL
    OBVIOUS
  <2> HIDE DEF new
  <2> QED BY <2>2, <2>3, <2>4, <2>5 DEF DbTyped
<1>2. CASE r # NoRow
  <2>1. r \in DOMAIN rows /\ rows[r].pos = x
    BY <1>2, Rows
  <2> DEFINE n == IF rows[r].visits = MaxVisits THEN rows[r].visits ELSE rows[r].visits + 1
             row == [rows[r] EXCEPT !.visits = n]
  <2>2. n \in 1 .. MaxVisits
    <3>1. rows[r].visits \in 1 .. MaxVisits
      BY <1>0, <2>1 DEF PositionRow
    <3>2. MaxVisits \in Nat
      BY StoreAssumption
    <3>3. \A m \in 1 .. MaxVisits : m # MaxVisits => m + 1 \in 1 .. MaxVisits
      BY <3>2
    <3> QED BY <3>1, <3>3
  <2>3. Visited(x) = [rows EXCEPT ![r] = row]
    BY <1>2 DEF Visited
  <2>4. row \in PositionRow /\ row.pos = rows[r].pos /\ row.fitness = rows[r].fitness
    <3> HIDE DEF n
    <3> QED BY <1>0, <2>1, <2>2 DEF PositionRow
  <2> HIDE DEF row
  <2>5. [rows EXCEPT ![r] = row] \in Seq(PositionRow)
    BY <1>0, <2>1, <2>4, ExceptSeq
  <2>6. DOMAIN Visited(x) = DOMAIN rows
        /\ \A i \in DOMAIN rows : /\ Visited(x)[i].pos = rows[i].pos
                                  /\ Visited(x)[i].fitness = rows[i].fitness
    BY <2>1, <2>3, <2>4
  <2> QED BY <2>3, <2>5, <2>6 DEF DbTyped
<1> QED BY <1>1, <1>2

\* Writing a fitness, to the row of a position that has one or to none.
LEMMA StoringFitness ==
  ASSUME DbTyped, NEW r \in Nat, r # NoRow => r \in DOMAIN db.positions,
         NEW v \in Value0, db' = [db EXCEPT !.positions[r].fitness = v]
  PROVE  /\ DOMAIN db' = DOMAIN db /\ db'.velocities = db.velocities
         /\ db'.particles = db.particles /\ db'.curr = db.curr /\ db'.best = db.best
         /\ db'.positions \in Seq(PositionRow) /\ DOMAIN db'.positions = DOMAIN db.positions
         /\ \A i \in DOMAIN db.positions :
              /\ db'.positions[i].pos = db.positions[i].pos
              /\ db'.positions[i].fitness \in {v, db.positions[i].fitness}
<1> DEFINE rows == db.positions
<1>0. rows \in Seq(PositionRow) /\ DOMAIN rows = 1 .. Len(rows)
      /\ \A i \in DOMAIN rows : rows[i] \in PositionRow
  BY LenProperties DEF DbTyped
<1>1. /\ DOMAIN db' = DOMAIN db /\ db'.velocities = db.velocities
      /\ db'.particles = db.particles /\ db'.curr = db.curr /\ db'.best = db.best
      /\ db'.positions = [rows EXCEPT ![r] = [rows[r] EXCEPT !.fitness = v]]
  BY DEF DbTyped
<1>2. CASE r \in DOMAIN rows
  <2> DEFINE row == [rows[r] EXCEPT !.fitness = v]
  <2>1. row \in PositionRow /\ row.pos = rows[r].pos /\ row.fitness = v
    BY <1>0, <1>2 DEF PositionRow
  <2> HIDE DEF row
  <2>2. /\ [rows EXCEPT ![r] = row] \in Seq(PositionRow)
        /\ DOMAIN [rows EXCEPT ![r] = row] = DOMAIN rows
        /\ \A i \in DOMAIN rows : [rows EXCEPT ![r] = row][i] = IF i = r THEN row ELSE rows[i]
    BY <1>0, <1>2, <2>1, ExceptSeq
  <2> QED BY <1>1, <2>1, <2>2 DEF row
<1>3. CASE r \notin DOMAIN rows
  <2>1. db'.positions = rows
    <3>1. \A e : [rows EXCEPT ![r] = e] = [i \in DOMAIN rows |-> rows[i]]
      BY <1>3
    <3>2. rows = [i \in DOMAIN rows |-> rows[i]]
      BY <1>0, LenProperties
    <3> QED BY <1>1, <3>1, <3>2
  <2> QED BY <1>0, <1>1, <2>1
<1> QED BY <1>2, <1>3

\* Writing one column of a particle's row.
LEMMA StoringColumn ==
  ASSUME DbTyped, NEW row \in DOMAIN db.particles,
         NEW column \in {"positionID", "velocityID", "bestPositionID"}, NEW v \in Nat,
         db' = [db EXCEPT !.particles[row][column] = v]
  PROVE  /\ DOMAIN db' = DOMAIN db /\ db'.velocities = db.velocities
         /\ db'.positions = db.positions /\ db'.curr = db.curr /\ db'.best = db.best
         /\ DOMAIN db'.particles = DOMAIN db.particles
         /\ db'.particles \in [DOMAIN db.particles -> ParticleRow]
<1> DEFINE rows == db.particles
           new == [rows[row] EXCEPT ![column] = v]
<1>1. /\ DOMAIN db' = DOMAIN db /\ db'.velocities = db.velocities
      /\ db'.positions = db.positions /\ db'.curr = db.curr /\ db'.best = db.best
      /\ db'.particles = [rows EXCEPT ![row] = new]
  BY DEF DbTyped
<1>2. rows[row] \in ParticleRow /\ rows \in [DOMAIN rows -> ParticleRow]
  BY DEF DbTyped
<1>3. new \in ParticleRow
  <2>1. CASE column = "positionID"
    BY <1>2, <2>1 DEF ParticleRow
  <2>2. CASE column = "velocityID"
    BY <1>2, <2>2 DEF ParticleRow
  <2>3. CASE column = "bestPositionID"
    BY <1>2, <2>3 DEF ParticleRow
  <2> QED BY <2>1, <2>2, <2>3
<1> HIDE DEF new
<1> QED BY <1>1, <1>2, <1>3

-----------------------------------------------------------------------------
(* What a report does.                                                     *)

\* p is to be moved, or to be queued or reported.
Waits(s, p) == \E t \in Range(s) : t.op \in {"move", "add"} /\ t.p = p

\* No report in progress is about to store a fitness below g.
NoneBelow(s, g) == \A t \in Range(s) : t.op = "fitness" => t.f >= g

LEMMA TailRange ==
  ASSUME NEW T, NEW s \in Seq(T), s # <<>>
  PROVE  Range(s) = {Head(s)} \cup Range(Tail(s))
<1>1. /\ Len(s) \in Nat \ {0} /\ Len(Tail(s)) = Len(s) - 1 /\ Head(s) = s[1]
      /\ \A i \in 1 .. Len(Tail(s)) : Tail(s)[i] = s[i + 1]
      /\ Tail(s) \in Seq(T)
  BY HeadTailProperties, EmptySeq
<1>2. DOMAIN s = 1 .. Len(s) /\ DOMAIN Tail(s) = 1 .. Len(Tail(s))
  BY <1>1, LenProperties
<1>3. ASSUME NEW i \in DOMAIN s PROVE s[i] \in {Head(s)} \cup Range(Tail(s))
  <2>1. CASE i = 1
    BY <1>1, <2>1
  <2>2. CASE i # 1
    <3>1. i - 1 \in DOMAIN Tail(s) /\ Tail(s)[i - 1] = s[i]
      BY <1>1, <1>2, <1>3, <2>2
    <3> QED BY <3>1 DEF Range
  <2> QED BY <2>1, <2>2
<1>4. ASSUME NEW i \in DOMAIN Tail(s) PROVE Tail(s)[i] \in Range(s)
  <2>1. i + 1 \in DOMAIN s /\ Tail(s)[i] = s[i + 1]
    BY <1>1, <1>2, <1>4
  <2> QED BY <2>1 DEF Range
<1>5. Head(s) \in Range(s)
  BY <1>1, <1>2 DEF Range
<1> QED BY <1>3, <1>4, <1>5 DEF Range

\* Four statements or more in front stay in front.
LEMMA Front4 ==
  ASSUME NEW T, NEW s \in Seq(T), NEW t \in Seq(T), Len(s) >= 4
  PROVE  Len(s \o t) >= 4 /\ (s \o t)[1] = s[1] /\ (s \o t)[2] = s[2]
<1>1. Len(s) \in Nat /\ Len(t) \in Nat
  BY LenProperties
<1>2. 1 \in 1 .. Len(s) + Len(t) /\ 2 \in 1 .. Len(s) + Len(t) /\ 1 <= Len(s) /\ 2 <= Len(s)
  BY <1>1
<1> QED BY <1>1, <1>2, ConcatProperties

LEMMA CheckpointRange == \A t \in Range(Checkpoint) : t.op \in GlobalOps
<1>1. Checkpoint \in Seq(Task({})) /\ Len(Checkpoint) = 4
      /\ \A k \in 1 .. 4 : Checkpoint[k].op \in GlobalOps
  BY CheckpointType
<1>2. DOMAIN Checkpoint = 1 .. 4
  BY <1>1, LenProperties
<1> QED BY <1>1, <1>2 DEF Range

\* What is added writes no fitness but the one that is reported.
LEMMA AddedRange ==
  ASSUME NEW S, NEW p \in S, NEW f \in Value0
  PROVE  /\ \A t \in Range(UpdateParticle(p)) : t.op # "fitness"
         /\ \A t \in Range(RecordFitness(p, f)) : t.op = "fitness" => t.f = f
         /\ Range(<<Do("move", p, 0)>>) = {Do("move", p, 0)}
         /\ Range(<<Do("add", p, 0)>>) = {Do("add", p, 0)}
         /\ Range(<<>>) = {}
<1>1. \A t \in Range(UpdateParticle(p)) : t.op # "fitness"
  <2> DEFINE a == Do("best", p, 0)
             b == Do("best fitness", p, 0)
             c == Do("position", p, 0)
             d == Do("velocity", p, 0)
             e == Do("row", p, 0)
  <2>1. a \in Task(S) /\ b \in Task(S) /\ c \in Task(S) /\ d \in Task(S) /\ e \in Task(S)
    BY Doing DEF ParticleOps
  <2>2. /\ a.op # "fitness" /\ b.op # "fitness" /\ c.op # "fitness" /\ d.op # "fitness"
        /\ e.op # "fitness"
    BY DEF Do
  <2>3. UpdateParticle(p) = <<a, b, c, d, e>>
    BY DEF UpdateParticle
  <2> HIDE DEF a, b, c, d, e
  <2>4. Range(UpdateParticle(p)) = {a, b, c, d, e}
    BY <2>1, <2>3, FiveAre
  <2> QED BY <2>2, <2>4
<1>2. \A t \in Range(RecordFitness(p, f)) : t.op = "fitness" => t.f = f
  <2> DEFINE a == Do("position", p, 0)
             b == Do("fitness", p, f)
             two == <<a, b>>
  <2>1. a \in Task(S) /\ b \in Task(S) /\ a.op # "fitness" /\ b.f = f
    BY Doing DEF ParticleOps, Do
  <2>2. RecordFitness(p, f) = two \o Checkpoint
    BY DEF RecordFitness
  <2> HIDE DEF a, b
  <2>3. two \in Seq(Task(S)) /\ Checkpoint \in Seq(Task(S))
    BY <2>1, CheckpointType
  <2>4. Range(two) = {a, b}
    <3>1. DOMAIN two = 1 .. 2 /\ two[1] = a /\ two[2] = b
      OBVIOUS
    <3> HIDE DEF two
    <3> QED BY <3>1 DEF Range
  <2> HIDE DEF two
  <2>5. Range(RecordFitness(p, f)) = Range(two) \cup Range(Checkpoint)
    BY <2>2, <2>3, RangeConcatenation
  <2>6. \A t \in Range(Checkpoint) : t.op # "fitness"
    BY CheckpointRange DEF GlobalOps
  <2> QED BY <2>1, <2>4, <2>5, <2>6
<1>3. /\ Range(<<Do("move", p, 0)>>) = {Do("move", p, 0)}
      /\ Range(<<Do("add", p, 0)>>) = {Do("add", p, 0)} /\ Range(<<>>) = {}
  BY DEF Range
<1> QED BY <1>1, <1>2, <1>3

\* What a move, and the update of a particle's row, put in front of the rest.
Updates(p) == <<Do("positionID", p, 0), Do("velocityID", p, 0), Do("bestPositionID", p, 0)>>
Addition(p) == <<Do("add", p, 0)>>

LEMMA UpdatesInFront ==
  ASSUME NEW S, NEW p \in S, NEW rest \in Seq(Task(S)), NEW s, s = Updates(p) \o rest
  PROVE  /\ s \in Seq(Task(S)) /\ Range(rest) \subseteq Range(s)
         /\ \A t \in Range(s) : t.op = "fitness" => t \in Range(rest)
<1> DEFINE a == Do("positionID", p, 0)
           b == Do("velocityID", p, 0)
           c == Do("bestPositionID", p, 0)
           three == <<a, b, c>>
<1>1. 0 \in Value0
  BY Values DEF Value0
<1>2. three \in Seq(Task(S))
  BY <1>1, ReportType
<1>3. a.op # "fitness" /\ b.op # "fitness" /\ c.op # "fitness"
  BY DEF Do
<1>4. s = three \o rest
  BY DEF Updates
<1> HIDE DEF a, b, c
<1>5. Range(three) = {a, b, c}
  <2>1. DOMAIN three = 1 .. 3 /\ three[1] = a /\ three[2] = b /\ three[3] = c
    OBVIOUS
  <2> HIDE DEF three
  <2> QED BY <2>1 DEF Range
<1> HIDE DEF three
<1>6. s \in Seq(Task(S)) /\ Range(s) = Range(three) \cup Range(rest)
  BY <1>2, <1>4, ConcatProperties, RangeConcatenation
<1> QED BY <1>3, <1>5, <1>6

LEMMA AddInFront ==
  ASSUME NEW S, NEW p \in S, NEW rest \in Seq(Task(S)), NEW s, s = Addition(p) \o rest
  PROVE  /\ s \in Seq(Task(S)) /\ Range(rest) \subseteq Range(s) /\ Waits(s, p)
         /\ \A t \in Range(s) : t.op = "fitness" => t \in Range(rest)
<1> DEFINE a == Do("add", p, 0)
           one == <<a>>
<1>1. 0 \in Value0
  BY Values DEF Value0
<1>2. one \in Seq(Task(S))
  BY <1>1, ReportType
<1>3. a.op = "add" /\ a.p = p
  BY DEF Do
<1>4. s = one \o rest
  BY DEF Addition
<1> HIDE DEF a
<1>5. Range(one) = {a}
  BY DEF Range
<1> HIDE DEF one
<1>6. s \in Seq(Task(S)) /\ Range(s) = Range(one) \cup Range(rest)
  BY <1>2, <1>4, ConcatProperties, RangeConcatenation
<1> QED BY <1>3, <1>5, <1>6 DEF Waits

\* A report changes what is to be done, and the particle's and the swarm's best.
LEMMA Reported ==
  ASSUME MemTyped, NEW p \in Swarm, NEW f \in Value0, NEW rest \in Seq(Task(Swarm)),
         Report(p, f, rest)
  PROVE  /\ MemTyped' /\ Swarm' = Swarm /\ todo' \in Seq(Task(Swarm))
         /\ ~mem'.stopped => ~mem.stopped /\ Waits(todo', p)
         /\ \A t \in Range(todo') : t.op = "fitness" => t.f = f \/ t \in Range(rest)
         /\ Range(rest) \subseteq Range(todo')
         /\ ~mem.stopped =>
              /\ mem'.gfit = IF mem.gfit > f THEN f ELSE mem.gfit
              /\ mem.gfit > f => /\ Len(todo') >= 2 /\ todo'[1].op = "gbest"
                                 /\ todo'[2].op = "CURR_BEST"
         /\ \A q \in Swarm : mem'.swarm[q].bestFit =
              IF q = p /\ mem.swarm[p].bestFit > f THEN f ELSE mem.swarm[q].bestFit
<1> DEFINE q == mem.swarm[p]
           better == ~mem.stopped /\ mem.gfit > f
           s == IF q.bestFit > f THEN [mem.swarm EXCEPT ![p].best = q.pos, ![p].bestFit = f]
                ELSE mem.swarm
           first == IF better THEN Checkpoint ELSE <<>>
<1>1. PICK stop \in {x \in BOOLEAN : mem.stopped => x} :
        /\ mem' = [swarm |-> s, gbest |-> IF better THEN q.pos ELSE mem.gbest,
                   gfit |-> IF better THEN f ELSE mem.gfit, stopped |-> stop]
        /\ todo' = first \o (IF stop THEN <<>> ELSE <<Do("move", p, 0)>>)
                     \o UpdateParticle(p) \o RecordFitness(p, f) \o rest
  BY DEF Report
<1>2. q \in Particle
  BY DEF MemTyped
<1>3. /\ s \in [Swarm -> Particle]
      /\ \A r \in Swarm : s[r].bestFit = IF r = p /\ q.bestFit > f THEN f ELSE mem.swarm[r].bestFit
  <2>1. CASE q.bestFit > f
    <3> DEFINE new == [q EXCEPT !.best = q.pos, !.bestFit = f]
    <3>1. s = [mem.swarm EXCEPT ![p] = new]
      BY <2>1
    <3>2. new \in Particle /\ new.bestFit = f
      BY <1>2 DEF Particle
    <3> HIDE DEF new, s
    <3> QED BY <2>1, <3>1, <3>2 DEF MemTyped
  <2>2. CASE ~(q.bestFit > f)
    BY <2>2 DEF MemTyped
  <2> QED BY <2>1, <2>2
<1> DEFINE next == IF stop THEN <<>> ELSE <<Do("move", p, 0)>>
<1>4. /\ first \in Seq(Task(Swarm)) /\ next \in Seq(Task(Swarm))
      /\ UpdateParticle(p) \in Seq(Task(Swarm)) /\ RecordFitness(p, f) \in Seq(Task(Swarm))
  BY CheckpointType, ReportType
<1> DEFINE a == first \o next
           b == a \o UpdateParticle(p)
           c == b \o RecordFitness(p, f)
<1>5. /\ a \in Seq(Task(Swarm)) /\ Range(a) = Range(first) \cup Range(next)
      /\ b \in Seq(Task(Swarm)) /\ Range(b) = Range(a) \cup Range(UpdateParticle(p))
      /\ c \in Seq(Task(Swarm)) /\ Range(c) = Range(b) \cup Range(RecordFitness(p, f))
      /\ c \o rest \in Seq(Task(Swarm)) /\ Range(c \o rest) = Range(c) \cup Range(rest)
  <2> HIDE DEF first, next
  <2>1. a \in Seq(Task(Swarm)) /\ Range(a) = Range(first) \cup Range(next)
    BY <1>4, ConcatProperties, RangeConcatenation
  <2> HIDE DEF a
  <2>2. b \in Seq(Task(Swarm)) /\ Range(b) = Range(a) \cup Range(UpdateParticle(p))
    BY <1>4, <2>1, ConcatProperties, RangeConcatenation
  <2> HIDE DEF b
  <2>3. c \in Seq(Task(Swarm)) /\ Range(c) = Range(b) \cup Range(RecordFitness(p, f))
    BY <1>4, <2>2, ConcatProperties, RangeConcatenation
  <2> HIDE DEF c
  <2>4. c \o rest \in Seq(Task(Swarm)) /\ Range(c \o rest) = Range(c) \cup Range(rest)
    BY <2>3, ConcatProperties, RangeConcatenation
  <2> QED BY <2>1, <2>2, <2>3, <2>4
<1>6. todo' = c \o rest
  BY <1>1
<1>7. /\ mem'.swarm = s /\ mem'.stopped = stop /\ DOMAIN s = Swarm
      /\ mem'.gfit = IF better THEN f ELSE mem.gfit
  BY <1>1, <1>3
<1>8. MemTyped' /\ Swarm' = Swarm
  <2> HIDE DEF s
  <2>1. q.pos \in Position
    BY <1>2 DEF Particle
  <2> QED BY <1>1, <1>3, <1>7, <2>1 DEF MemTyped, Swarm
<1>9. ~mem'.stopped => ~mem.stopped /\ Waits(todo', p)
  <2> SUFFICES ASSUME ~stop PROVE ~mem.stopped /\ Waits(todo', p)
    BY <1>7
  <2>1. Do("move", p, 0) \in Range(next)
    BY AddedRange
  <2>2. Do("move", p, 0) \in Range(todo')
    BY <1>5, <1>6, <2>1
  <2>3. Do("move", p, 0).op = "move" /\ Do("move", p, 0).p = p
    BY DEF Do
  <2> QED BY <2>2, <2>3 DEF Waits
<1>10. \A t \in Range(todo') : t.op = "fitness" => t.f = f \/ t \in Range(rest)
  <2>1. \A t \in Range(first) : t.op # "fitness"
    <3>1. \A t \in Range(Checkpoint) : t.op # "fitness"
      BY CheckpointRange DEF GlobalOps
    <3>2. \A t \in Range(<<>>) : t.op # "fitness"
      BY AddedRange
    <3> QED BY <3>1, <3>2
  <2>2. \A t \in Range(next) : t.op # "fitness"
    <3>1. Do("move", p, 0).op # "fitness"
      BY DEF Do
    <3> QED BY <3>1, AddedRange
  <2> HIDE DEF a, b, c, first, next
  <2> QED BY <1>5, <1>6, <2>1, <2>2, AddedRange
<1>11. Range(rest) \subseteq Range(todo')
  BY <1>5, <1>6
<1>12. better => Len(todo') >= 2 /\ todo'[1].op = "gbest" /\ todo'[2].op = "CURR_BEST"
  <2> SUFFICES ASSUME better
               PROVE  Len(todo') >= 2 /\ todo'[1].op = "gbest" /\ todo'[2].op = "CURR_BEST"
    OBVIOUS
  <2>1. first = Checkpoint
    OBVIOUS
  <2>2. Len(first) = 4 /\ first[1].op = "gbest" /\ first[2].op = "CURR_BEST"
    <3>1. Do("gbest", 0, 0).op = "gbest" /\ Do("CURR_BEST", 0, 0).op = "CURR_BEST"
      BY DEF Do
    <3> QED BY <2>1, <3>1, CheckpointType
  <2> HIDE DEF first, next
  <2>3. Len(a) >= 4 /\ a[1] = first[1] /\ a[2] = first[2]
    <3>1. Len(first) >= 4
      BY <2>2
    <3>2. first \in Seq(Task(Swarm)) /\ next \in Seq(Task(Swarm))
      BY <1>4
    <3> QED BY <3>1, <3>2, Front4
  <2> HIDE DEF a
  <2>4. Len(b) >= 4 /\ b[1] = a[1] /\ b[2] = a[2]
    BY <1>4, <1>5, <2>3, Front4
  <2> HIDE DEF b
  <2>5. Len(c) >= 4 /\ c[1] = b[1] /\ c[2] = b[2]
    BY <1>4, <1>5, <2>4, Front4
  <2> HIDE DEF c
  <2>6. Len(todo') >= 4 /\ todo'[1] = c[1] /\ todo'[2] = c[2]
    BY <1>5, <1>6, <2>5, Front4
  <2> QED BY <2>2, <2>3, <2>4, <2>5, <2>6
<1>13. ~mem.stopped =>
         /\ mem'.gfit = IF mem.gfit > f THEN f ELSE mem.gfit
         /\ mem.gfit > f => /\ Len(todo') >= 2 /\ todo'[1].op = "gbest"
                            /\ todo'[2].op = "CURR_BEST"
  BY <1>7, <1>12
<1>14. \A r \in Swarm : mem'.swarm[r].bestFit =
         IF r = p /\ mem.swarm[p].bestFit > f THEN f ELSE mem.swarm[r].bestFit
  <2> HIDE DEF s
  <2> QED BY <1>3, <1>7
<1> HIDE DEF a, b, c, first, next, s, better
<1> QED BY <1>5, <1>6, <1>8, <1>9, <1>10, <1>11, <1>13, <1>14

-----------------------------------------------------------------------------
(* Types.                                                                  *)

\* The statement whose turn it is.
LEMMA Turn ==
  ASSUME Typed, todo # <<>>
  PROVE  /\ Head(todo) \in Task(Swarm) /\ Tail(todo) \in Seq(Task(Swarm))
         /\ Head(todo).op \in GlobalOps => Head(todo).p = 0
         /\ Head(todo).op \in ParticleOps => Head(todo).p \in Swarm /\ mem.swarm[Head(todo).p] \in Particle
         /\ Head(todo).f \in Value0
         /\ phase # "down"
         /\ Range(todo) = {Head(todo)} \cup Range(Tail(todo))
<1>1. todo \in Seq(Task(Swarm)) /\ phase # "down" /\ mem.swarm \in [Swarm -> Particle]
  BY DEF Typed, TodoTyped, MemTyped
<1>2. Head(todo) \in Task(Swarm) /\ Tail(todo) \in Seq(Task(Swarm))
  BY <1>1, NextTask
<1>3. Range(todo) = {Head(todo)} \cup Range(Tail(todo))
  BY <1>1, TailRange
<1>4. /\ Head(todo).op \in GlobalOps => Head(todo).p = 0
      /\ Head(todo).op \in ParticleOps => Head(todo).p \in Swarm
      /\ Head(todo).f \in Value0
  BY <1>2 DEF Task, GlobalOps, ParticleOps
<1> QED BY <1>1, <1>2, <1>3, <1>4

LEMMA DoneTyped ==
  ASSUME Typed, todo # <<>>, Done
  PROVE  MemTyped' /\ TodoTyped' /\ Swarm' = Swarm
<1>1. /\ todo' \in Seq(Task(Swarm)) /\ phase # "down" /\ Swarm' = Swarm
      /\ UNCHANGED <<mem, pending, phase, runs>>
  BY Turn DEF Done, Swarm
<1> QED BY <1>1 DEF Typed, MemTyped, TodoTyped, Swarm

LEMMA StorePositionTyped ==
  ASSUME Typed, StorePosition
  PROVE  /\ Typed' /\ DOMAIN db' = DOMAIN db /\ db'.curr = db.curr
         /\ \A i \in DOMAIN db'.positions :
              \/ db'.positions[i].fitness = NULL
              \/ i \in DOMAIN db.positions /\ db'.positions[i].fitness = db.positions[i].fitness
<1> DEFINE h == Head(todo)
           x == Place(h)
<1>1. todo # <<>> /\ Done /\ db' = [db EXCEPT !.positions = Visited(x)]
  BY DEF StorePosition, Next1
<1>2. x \in Position
  <2>1. CASE h.op = "best"
    <3>1. mem.swarm[h.p] \in Particle
      BY <1>1, <2>1, Turn DEF ParticleOps
    <3>2. x = mem.swarm[h.p].best
      BY <2>1 DEF Place
    <3> QED BY <3>1, <3>2 DEF Particle
  <2>2. CASE h.op = "gbest"
    BY <2>2 DEF Place, Typed, MemTyped
  <2>3. CASE h.op = "position"
    <3>1. mem.swarm[h.p] \in Particle
      BY <1>1, <2>3, Turn DEF ParticleOps
    <3>2. x = mem.swarm[h.p].pos
      BY <2>3 DEF Place
    <3> QED BY <3>1, <3>2 DEF Particle
  <2> QED BY <2>1, <2>2, <2>3 DEF StorePosition, Next1
<1>3. DbTyped
  BY DEF Typed
<1> HIDE DEF x
<1>4. /\ DOMAIN db' = DOMAIN db /\ db'.positions = Visited(x) /\ db'.velocities = db.velocities
      /\ db'.particles = db.particles /\ db'.curr = db.curr /\ db'.best = db.best
  BY <1>1, <1>3 DEF DbTyped
<1>5. DbTyped'
  BY <1>2, <1>3, <1>4, Visiting DEF DbTyped
<1>6. MemTyped' /\ TodoTyped'
  BY <1>1, DoneTyped
<1> QED BY <1>2, <1>3, <1>4, <1>5, <1>6, Visiting DEF Typed

LEMMA StoreFitnessTyped ==
  ASSUME Typed, StoreFitness
  PROVE  /\ Typed' /\ db'.curr = db.curr
         /\ DOMAIN db'.positions = DOMAIN db.positions
         /\ \A i \in DOMAIN db.positions :
              db'.positions[i].fitness \in {Value(Head(todo)), db.positions[i].fitness}
<1> DEFINE h == Head(todo)
           r == RowOf(Place(h))
           v == Value(h)
<1>1. todo # <<>> /\ Done /\ db' = [db EXCEPT !.positions[r].fitness = v]
  BY DEF StoreFitness, Next1
<1>2. v \in Value0
  <2>1. CASE h.op = "best fitness"
    <3>1. mem.swarm[h.p] \in Particle
      BY <1>1, <2>1, Turn DEF ParticleOps
    <3>2. v = mem.swarm[h.p].bestFit
      BY <2>1 DEF Value
    <3> QED BY <3>1, <3>2 DEF Particle
  <2>2. CASE h.op = "gbest fitness"
    BY <2>2 DEF Value, Typed, MemTyped
  <2>3. CASE h.op = "fitness"
    BY <1>1, <2>3, Turn DEF Value
  <2> QED BY <2>1, <2>2, <2>3 DEF StoreFitness, Next1
<1>3. DbTyped
  BY DEF Typed
<1>4. r \in Nat /\ (r # NoRow => r \in DOMAIN db.positions)
  BY <1>3, Rows
<1> HIDE DEF r, v
<1>5. /\ DOMAIN db' = DOMAIN db /\ db'.velocities = db.velocities
      /\ db'.particles = db.particles /\ db'.curr = db.curr /\ db'.best = db.best
      /\ db'.positions \in Seq(PositionRow) /\ DOMAIN db'.positions = DOMAIN db.positions
      /\ \A i \in DOMAIN db.positions :
           /\ db'.positions[i].pos = db.positions[i].pos
           /\ db'.positions[i].fitness \in {v, db.positions[i].fitness}
  BY <1>1, <1>2, <1>3, <1>4, StoringFitness
<1>6. DbTyped'
  BY <1>3, <1>5 DEF DbTyped
<1>7. MemTyped' /\ TodoTyped'
  BY <1>1, DoneTyped
<1> QED BY <1>5, <1>6, <1>7 DEF Typed, v

LEMMA StoreVelocityTyped ==
  ASSUME Typed, StoreVelocity
  PROVE  Typed' /\ db'.positions = db.positions /\ db'.curr = db.curr
<1> DEFINE v == mem.swarm[Head(todo).p].vel
           s == db.velocities
<1>1. /\ todo # <<>> /\ Done /\ Head(todo).op = "velocity"
      /\ db' = IF VelocityRowOf(v) = NoRow THEN [db EXCEPT !.velocities = Append(@, v)] ELSE db
  BY DEF StoreVelocity, Next1
<1>2. v \in Velocity
  <2>1. mem.swarm[Head(todo).p] \in Particle
    BY <1>1, Turn DEF ParticleOps
  <2> QED BY <2>1 DEF Particle
<1>3. DbTyped /\ s \in Seq(Velocity)
  BY DEF Typed, DbTyped
<1> HIDE DEF v
<1>4. DbTyped' /\ db'.positions = db.positions /\ db'.curr = db.curr
  <2>1. CASE VelocityRowOf(v) = NoRow
    <3>1. /\ DOMAIN db' = DOMAIN db /\ db'.velocities = Append(s, v)
          /\ db'.positions = db.positions /\ db'.particles = db.particles
          /\ db'.curr = db.curr /\ db'.best = db.best
      BY <1>1, <1>3, <2>1 DEF DbTyped
    <3>2. \A id \in DOMAIN s : s[id] # v
      BY <1>3, <2>1, VelocityRows
    <3>3. /\ Append(s, v) \in Seq(Velocity) /\ DOMAIN Append(s, v) = DOMAIN s \cup {Len(s) + 1}
          /\ Append(s, v)[Len(s) + 1] = v
          /\ \A i \in DOMAIN s : Append(s, v)[i] = s[i]
      BY <1>2, <1>3, Added
    <3>4. \A i, j \in DOMAIN s : s[i] = s[j] => i = j
      BY <1>3 DEF DbTyped
    <3> DEFINE t == Append(s, v)
    <3>5. \A i, j \in DOMAIN t : t[i] = t[j] => i = j
      <4> HIDE DEF t, s
      <4> QED BY <3>2, <3>3, <3>4 DEF t
    <3> HIDE DEF t
    <3> QED BY <1>3, <3>1, <3>3, <3>5 DEF DbTyped, t
  <2>2. CASE VelocityRowOf(v) # NoRow
    BY <1>1, <1>3, <2>2 DEF DbTyped
  <2> QED BY <2>1, <2>2
<1>5. MemTyped' /\ TodoTyped'
  BY <1>1, DoneTyped
<1> QED BY <1>4, <1>5 DEF Typed

LEMMA InsertRowTyped ==
  ASSUME Typed, InsertRow
  PROVE  Typed' /\ db'.positions = db.positions /\ db'.curr = db.curr
<1> DEFINE p == Head(todo).p
           row == [positionID |-> RowOf(mem.swarm[p].pos),
                   velocityID |-> VelocityRowOf(mem.swarm[p].vel),
                   bestPositionID |-> RowOf(mem.swarm[p].best)]
           old == db.particles
           new == [i \in DOMAIN old \cup {p} |-> IF i = p THEN row ELSE old[i]]
<1>1. todo # <<>> /\ Done /\ Head(todo).op = "row" /\ db' = [db EXCEPT !.particles = new]
  BY DEF InsertRow, Next1
<1>2. DbTyped /\ p \in Swarm /\ Swarm \subseteq Nat
  BY <1>1, Turn DEF Typed, MemTyped, ParticleOps
<1>3. row \in ParticleRow
  BY <1>2, Rows, VelocityRows DEF ParticleRow
<1> HIDE DEF row
<1>4. /\ new \in [DOMAIN new -> ParticleRow] /\ DOMAIN new = DOMAIN old \cup {p}
      /\ DOMAIN new \subseteq Nat
  BY <1>2, <1>3 DEF DbTyped
<1>5. IsFiniteSet(DOMAIN new)
  BY <1>2, <1>4, FS_AddElement DEF DbTyped
<1> HIDE DEF new
<1>6. /\ DOMAIN db' = DOMAIN db /\ db'.particles = new /\ db'.positions = db.positions
      /\ db'.velocities = db.velocities /\ db'.curr = db.curr /\ db'.best = db.best
  BY <1>1, <1>2 DEF DbTyped
<1>7. DbTyped'
  BY <1>2, <1>4, <1>5, <1>6 DEF DbTyped
<1>8. MemTyped' /\ TodoTyped'
  BY <1>1, DoneTyped
<1> QED BY <1>6, <1>7, <1>8 DEF Typed

LEMMA KnownRowTyped ==
  ASSUME Typed, KnownRow
  PROVE  /\ Typed'
         /\ \A t \in Range(todo') : t.op = "fitness" => t \in Range(todo)
         /\ \A t \in Range(todo) : t = Head(todo) \/ t \in Range(todo')
<1> DEFINE p == Head(todo).p
           rest == Tail(todo)
<1>1. /\ todo # <<>> /\ Head(todo).op = "row" /\ UNCHANGED <<mem, db, pending, phase, runs>>
      /\ todo' = Updates(p) \o rest
  BY DEF KnownRow, Next1, Updates
<1>2. p \in Swarm /\ rest \in Seq(Task(Swarm)) /\ phase # "down"
  BY <1>1, Turn DEF ParticleOps
<1>3. Range(todo) = {Head(todo)} \cup Range(rest)
  BY <1>1, Turn
<1> HIDE DEF p, rest
<1>4. /\ todo' \in Seq(Task(Swarm)) /\ Range(rest) \subseteq Range(todo')
      /\ \A t \in Range(todo') : t.op = "fitness" => t \in Range(rest)
  BY <1>1, <1>2, UpdatesInFront
<1>5. Typed'
  BY <1>1, <1>2, <1>4 DEF Typed, MemTyped, DbTyped, TodoTyped, Swarm
<1> QED BY <1>3, <1>4, <1>5

LEMMA UpdateTyped ==
  ASSUME Typed, NEW column \in {"positionID", "velocityID", "bestPositionID"}, NEW row,
         Update(column, row)
  PROVE  Typed' /\ db'.positions = db.positions /\ db'.curr = db.curr
<1> DEFINE p == Head(todo).p
<1>1. /\ todo # <<>> /\ Done /\ Head(todo).op = column
      /\ db' = IF row \in DOMAIN db.particles
               THEN [db EXCEPT !.particles[row][column] = p] ELSE db
  BY DEF Update, Next1
<1>2. DbTyped /\ p \in Nat
  BY <1>1, Turn DEF Typed, MemTyped, ParticleOps
<1>3. DbTyped' /\ db'.positions = db.positions /\ db'.curr = db.curr
  <2>1. CASE row \in DOMAIN db.particles
    <3>1. db' = [db EXCEPT !.particles[row][column] = p]
      BY <1>1, <2>1
    <3>2. /\ DOMAIN db' = DOMAIN db /\ db'.velocities = db.velocities
          /\ db'.positions = db.positions /\ db'.curr = db.curr /\ db'.best = db.best
          /\ DOMAIN db'.particles = DOMAIN db.particles
          /\ db'.particles \in [DOMAIN db.particles -> ParticleRow]
      BY <1>2, <2>1, <3>1, StoringColumn
    <3> QED BY <1>2, <3>2 DEF DbTyped
  <2>2. CASE row \notin DOMAIN db.particles
    BY <1>1, <1>2, <2>2 DEF DbTyped
  <2> QED BY <2>1, <2>2
<1>4. MemTyped' /\ TodoTyped'
  BY <1>1, DoneTyped
<1> QED BY <1>3, <1>4 DEF Typed

LEMMA StoreSingletonTyped ==
  ASSUME Typed, StoreSingleton
  PROVE  /\ Typed' /\ db'.positions = db.positions
         /\ db'.curr = IF Head(todo).op = "CURR_BEST" THEN mem.gfit ELSE db.curr
<1>1. todo # <<>> /\ Done
  BY DEF StoreSingleton, Next1
<1>2. DbTyped /\ mem.gfit \in Value0
  BY DEF Typed, MemTyped
<1>3. /\ DOMAIN db' = DOMAIN db /\ db'.positions = db.positions
      /\ db'.velocities = db.velocities /\ db'.particles = db.particles
      /\ db'.curr = IF Head(todo).op = "CURR_BEST" THEN mem.gfit ELSE db.curr
      /\ db'.best = IF Head(todo).op = "CURR_BEST" THEN db.best ELSE RowOf(mem.gbest)
  BY <1>2 DEF StoreSingleton, Next1, DbTyped
<1>4. DbTyped'
  BY <1>2, <1>3, Rows DEF DbTyped
<1>5. MemTyped' /\ TodoTyped'
  BY <1>1, DoneTyped
<1> QED BY <1>3, <1>4, <1>5 DEF Typed

LEMMA MoveTyped ==
  ASSUME Typed, Move
  PROVE  /\ Typed' /\ mem'.gfit = mem.gfit /\ mem'.stopped = mem.stopped /\ Swarm' = Swarm
         /\ \A q \in Swarm : mem'.swarm[q].bestFit = mem.swarm[q].bestFit
         /\ \A t \in Range(todo') : t.op = "fitness" => t \in Range(todo)
         /\ \A q : Waits(todo, q) => Waits(todo', q)
<1> DEFINE p == Head(todo).p
           rest == Tail(todo)
<1>1. PICK l \in Landing :
        mem' = [mem EXCEPT !.swarm[p].pos = l.pos, !.swarm[p].vel = l.vel]
  BY DEF Move
<1>2. /\ todo # <<>> /\ todo' = Addition(p) \o rest
      /\ UNCHANGED <<db, pending, phase, runs>>
  BY DEF Move, Next1, Addition
<1>3. /\ p \in Swarm /\ mem.swarm[p] \in Particle /\ rest \in Seq(Task(Swarm))
      /\ phase # "down" /\ MemTyped
  <2>1. Head(todo).op = "move"
    BY DEF Move, Next1
  <2> QED BY <1>2, <2>1, Turn DEF ParticleOps, Typed
<1>4. Range(todo) = {Head(todo)} \cup Range(rest)
  BY <1>2, Turn
<1> DEFINE new == [mem.swarm[p] EXCEPT !.pos = l.pos, !.vel = l.vel]
<1>5. mem' = [mem EXCEPT !.swarm = [mem.swarm EXCEPT ![p] = new]]
  BY <1>1, <1>3 DEF MemTyped
<1>6. new \in Particle /\ new.bestFit = mem.swarm[p].bestFit
  BY <1>3 DEF Particle, Landing
<1> HIDE DEF new
<1>7. /\ mem'.swarm = [mem.swarm EXCEPT ![p] = new] /\ mem'.gbest = mem.gbest
      /\ mem'.gfit = mem.gfit /\ mem'.stopped = mem.stopped
      /\ mem' = [swarm |-> mem'.swarm, gbest |-> mem'.gbest, gfit |-> mem'.gfit,
                 stopped |-> mem'.stopped]
  BY <1>3, <1>5 DEF MemTyped
<1>8. MemTyped' /\ Swarm' = Swarm
  BY <1>3, <1>6, <1>7 DEF MemTyped, Swarm
<1>9. \A q \in Swarm : mem'.swarm[q].bestFit = mem.swarm[q].bestFit
  BY <1>3, <1>6, <1>7 DEF MemTyped
<1>10. Head(todo).op = "move" /\ Head(todo).p = p
  BY DEF Move, Next1
<1> HIDE DEF p, rest
<1>11. /\ todo' \in Seq(Task(Swarm)) /\ Range(rest) \subseteq Range(todo') /\ Waits(todo', p)
       /\ \A t \in Range(todo') : t.op = "fitness" => t \in Range(rest)
  BY <1>2, <1>3, AddInFront
<1>12. Typed'
  BY <1>2, <1>3, <1>8, <1>11 DEF Typed, DbTyped, TodoTyped
<1>13. \A t \in Range(todo') : t.op = "fitness" => t \in Range(todo)
  BY <1>4, <1>11
<1>14. \A q : Waits(todo, q) => Waits(todo', q)
  BY <1>4, <1>10, <1>11 DEF Waits
<1> QED BY <1>7, <1>8, <1>9, <1>12, <1>13, <1>14

LEMMA QueueTyped ==
  ASSUME Typed, Queue
  PROVE  /\ Typed' /\ \A t \in Range(todo') : t \in Range(todo)
         /\ Head(todo).op = "add" /\ todo # <<>>
         /\ \A q : Waits(todo, q) => Waits(todo', q) \/ q \in pending'
<1> DEFINE p == Head(todo).p
<1>1. /\ todo # <<>> /\ Head(todo).op = "add" /\ pending' = pending \cup {p}
      /\ todo' = Tail(todo) /\ UNCHANGED <<mem, db, phase, runs>>
  BY DEF Queue, Next1
<1>2. /\ p \in Swarm /\ Tail(todo) \in Seq(Task(Swarm)) /\ phase # "down"
      /\ Range(todo) = {Head(todo)} \cup Range(Tail(todo))
  BY <1>1, Turn DEF ParticleOps
<1>3. Typed'
  BY <1>1, <1>2 DEF Typed, MemTyped, DbTyped, TodoTyped, Swarm
<1>4. \A q : Waits(todo, q) => Waits(todo', q) \/ q \in pending'
  BY <1>1, <1>2 DEF Waits
<1> QED BY <1>1, <1>2, <1>3, <1>4

\* A particle comes to report, with a value a benchmark may give.
LEMMA Reporting ==
  ASSUME Typed, Receive \/ ReportKnown
  PROVE  \E p \in Swarm, f \in Value0, rest \in Seq(Task(Swarm)) :
           /\ Report(p, f, rest) /\ f \in 1 .. MAX
           /\ UNCHANGED <<db, phase, runs>> /\ phase # "down"
           /\ Range(rest) \subseteq Range(todo)
           /\ \A t \in Range(todo) : t \in Range(rest) \/ t.p = p
           /\ pending' \subseteq pending /\ pending \subseteq pending' \cup {p}
           /\ todo = <<>> \/ Head(todo).op = "add"
<1>1. CASE Receive
  <2>1. PICK p \in pending :
          /\ pending' = pending \ {p}
          /\ \E f \in Outcome[mem.swarm[p].pos] : Report(p, f, <<>>)
    BY <1>1 DEF Receive
  <2>2. PICK f \in Outcome[mem.swarm[p].pos] : Report(p, f, <<>>)
    BY <2>1
  <2>3. /\ p \in Swarm /\ mem.swarm[p] \in Particle
    BY DEF Typed, MemTyped, TodoTyped
  <2>4. f \in 1 .. MAX
    <3>1. mem.swarm[p].pos \in Position
      BY <2>3 DEF Particle
    <3>2. Outcome[mem.swarm[p].pos] \subseteq 1 .. MAX
      BY <3>1, StoreAssumption
    <3> QED BY <3>2
  <2>5. f \in Value0
    BY <2>4, Values DEF Value0
  <2>6. <<>> \in Seq(Task(Swarm)) /\ Range(<<>>) = {}
    BY DEF Range
  <2>7. /\ phase = "up" /\ todo = <<>> /\ UNCHANGED <<db, phase, runs>>
    BY <1>1 DEF Receive
  <2>8. Range(todo) = {}
    BY <2>6, <2>7
  <2>9. phase # "down"
    BY <2>7
  <2> QED BY <2>1, <2>2, <2>3, <2>4, <2>5, <2>6, <2>7, <2>8, <2>9
<1>2. CASE ReportKnown
  <2> DEFINE p == Head(todo).p
             x == mem.swarm[p].pos
             row == db.positions[RowOf(x)]
             f == Read(row.fitness)
  <2>1. /\ todo # <<>> /\ Head(todo).op = "add" /\ Known(x) /\ Report(p, f, Tail(todo))
        /\ UNCHANGED <<db, pending, phase, runs>>
    BY <1>2 DEF ReportKnown, Next1
  <2>2. /\ p \in Swarm /\ Tail(todo) \in Seq(Task(Swarm)) /\ phase # "down"
        /\ Range(todo) = {Head(todo)} \cup Range(Tail(todo))
    BY <2>1, Turn DEF ParticleOps
  <2>3. row \in PositionRow /\ row.fitness \notin {NULL, MAX, INF}
    <3>1. DbTyped
      BY DEF Typed
    <3>2. RowOf(x) \in DOMAIN db.positions /\ row.fitness \notin {NULL, MAX, INF}
      BY <2>1, <3>1, Rows DEF Known, Usable
    <3> QED BY <3>1, <3>2 DEF DbTyped
  <2> HIDE DEF row
  <2>4. f \in 1 .. MAX /\ f \in Value0
    <3>1. row.fitness \in Value0
      BY <2>3 DEF PositionRow
    <3> QED BY <2>3, <3>1, Values DEF Read, Value0, NULL
  <2> HIDE DEF f
  <2>5. \A t \in Range(todo) : t \in Range(Tail(todo)) \/ t.p = p
    BY <2>2
  <2> HIDE DEF p, x
  <2>6. pending' = pending /\ Range(Tail(todo)) \subseteq Range(todo)
    BY <2>1, <2>2
  <2> QED BY <2>1, <2>2, <2>4, <2>5, <2>6
<1> QED BY <1>1, <1>2

LEMMA ReportingTyped ==
  ASSUME Typed, Receive \/ ReportKnown
  PROVE  Typed'
<1>1. PICK p \in Swarm, f \in Value0, rest \in Seq(Task(Swarm)) :
        /\ Report(p, f, rest) /\ UNCHANGED <<db, phase, runs>> /\ phase # "down"
        /\ pending' \subseteq pending
  BY Reporting
<1>2. MemTyped' /\ Swarm' = Swarm /\ todo' \in Seq(Task(Swarm))
  BY <1>1, Reported DEF Typed
<1>3. TodoTyped'
  BY <1>1, <1>2 DEF Typed, TodoTyped
<1>4. DbTyped'
  BY <1>1 DEF Typed, DbTyped
<1> QED BY <1>2, <1>3, <1>4 DEF Typed

\* The particles a search starts with wait to be added.
LEMMA AllAdded ==
  ASSUME NEW n \in Nat
  PROVE  /\ AddAll(n) \in Seq(Task(0 .. n - 1))
         /\ \A p \in 0 .. n - 1 : Waits(AddAll(n), p)
         /\ \A t \in Range(AddAll(n)) : t.op = "add"
<1>1. 0 \in Value0
  BY Values DEF Value0
<1>2. \A k \in 1 .. n : Do("add", k - 1, 0) \in Task(0 .. n - 1)
  <2>1. \A p \in 0 .. n - 1 : Do("add", p, 0) \in Task(0 .. n - 1)
    BY <1>1, Doing DEF ParticleOps
  <2>2. \A k \in 1 .. n : k - 1 \in 0 .. n - 1
    OBVIOUS
  <2> QED BY <2>1, <2>2
<1>3. AddAll(n) \in [1 .. n -> Task(0 .. n - 1)]
  BY <1>2 DEF AddAll
<1>4. AddAll(n) \in Seq(Task(0 .. n - 1))
  BY <1>3, IsASeq DEF AddAll
<1>5. ASSUME NEW p \in 0 .. n - 1 PROVE Waits(AddAll(n), p)
  <2>1. p + 1 \in 1 .. n /\ (p + 1) - 1 = p
    OBVIOUS
  <2>2. AddAll(n)[p + 1] = Do("add", p, 0) /\ p + 1 \in DOMAIN AddAll(n)
    BY <2>1 DEF AddAll
  <2>3. AddAll(n)[p + 1] \in Range(AddAll(n))
    BY <2>2 DEF Range
  <2>4. Do("add", p, 0).op = "add" /\ Do("add", p, 0).p = p
    BY DEF Do
  <2> QED BY <2>2, <2>3, <2>4 DEF Waits
<1>6. \A t \in Range(AddAll(n)) : t.op = "add"
  BY DEF AddAll, Range, Do
<1> QED BY <1>4, <1>5, <1>6

LEMMA StopSearchTyped ==
  ASSUME Typed, StopSearch
  PROVE  Typed' /\ mem'.stopped /\ phase' = "stopped"
<1>1. /\ phase' = "stopped" /\ mem' = [mem EXCEPT !.stopped = TRUE] /\ todo' = Checkpoint
      /\ UNCHANGED <<db, pending, runs>>
  BY DEF StopSearch
<1>2. /\ mem'.swarm = mem.swarm /\ mem'.gbest = mem.gbest /\ mem'.gfit = mem.gfit
      /\ mem'.stopped = TRUE
      /\ mem' = [swarm |-> mem'.swarm, gbest |-> mem'.gbest, gfit |-> mem'.gfit,
                 stopped |-> mem'.stopped]
  BY <1>1 DEF Typed, MemTyped
<1>3. MemTyped' /\ Swarm' = Swarm
  BY <1>2 DEF Typed, MemTyped, Swarm
<1>4. Checkpoint \in Seq(Task(Swarm))
  BY CheckpointType
<1>5. TodoTyped' /\ DbTyped'
  BY <1>1, <1>3, <1>4 DEF Typed, TodoTyped, DbTyped
<1> QED BY <1>1, <1>2, <1>3, <1>5 DEF Typed

LEMMA DieTyped ==
  ASSUME Typed, Die
  PROVE  Typed'
BY DEF Typed, Die, MemTyped, DbTyped, TodoTyped, Swarm

\* What the tables give to a search that is resumed.
LEMMA Resumed ==
  ASSUME DbTyped, NEW s \in ResumedSwarms
  PROVE  /\ s \in [0 .. ParticleCount - 1 -> Particle] /\ ParticleCount \in Nat
         /\ \A id : PositionAt(id) \in Position
<1>1. ParticleCount \in Nat
  BY FS_CardinalityType DEF ParticleCount, DbTyped
<1>2. /\ \A id \in DOMAIN db.positions : db.positions[id] \in PositionRow
      /\ \A id \in DOMAIN db.velocities : db.velocities[id] \in Velocity
  BY LenProperties DEF DbTyped
<1>3. \A id : PositionAt(id) \in Position
  BY <1>2, StoreAssumption DEF PositionAt, Blank, PositionRow
<1>4. \A id : VelocityAt(id) \in Velocity
  BY <1>2, StoreAssumption DEF VelocityAt, Blank
<1>5. \A id : FitnessAt(id) \subseteq Value0
  <2>1. Garbage \subseteq Value0
    BY StoreAssumption, Values DEF Value0
  <2>2. \A id \in DOMAIN db.positions : db.positions[id].fitness \in Value0
    BY <1>2 DEF PositionRow
  <2> QED BY <2>1, <2>2, Reading DEF FitnessAt
<1> DEFINE ids == 0 .. ParticleCount - 1
<1>6. PICK fit \in [ids -> UNION {FitnessAt(RowAt(p).bestPositionID) : p \in ids}] :
        s = [p \in ids |-> [pos |-> PositionAt(RowAt(p).positionID),
                            vel |-> VelocityAt(RowAt(p).velocityID),
                            best |-> PositionAt(RowAt(p).bestPositionID),
                            bestFit |-> fit[p]]]
  BY DEF ResumedSwarms
<1>7. \A p \in ids : fit[p] \in Value0
  BY <1>5, <1>6
<1> QED BY <1>1, <1>3, <1>4, <1>6, <1>7 DEF Particle

LEMMA RestartTyped ==
  ASSUME Typed, Restart
  PROVE  /\ Typed' /\ runs' # 1
         /\ \A p \in Swarm' : Waits(todo', p)
<1> DEFINE n == ParticleCount
           g == IF db.curr = NULL THEN MAX ELSE Read(db.curr)
<1>1. PICK s \in ResumedSwarms :
        mem' = [swarm |-> s, gbest |-> PositionAt(db.best), gfit |-> g, stopped |-> FALSE]
  BY DEF Restart
<1>2. /\ runs < MaxRuns /\ runs' = runs + 1 /\ phase' = "up" /\ todo' = AddAll(n)
      /\ UNCHANGED <<db, pending>> /\ phase = "down"
  BY DEF Restart
<1>3. DbTyped /\ pending = {} /\ runs \in 1 .. MaxRuns
  BY <1>2 DEF Typed, TodoTyped
<1>4. s \in [0 .. n - 1 -> Particle] /\ n \in Nat
  BY <1>3, Resumed
<1>5. g \in Value0
  BY <1>3, Reading, Values DEF DbTyped, Value0
<1>6. PositionAt(db.best) \in Position
  BY <1>3, Resumed
<1> HIDE DEF g, n
<1>7. /\ mem'.swarm = s /\ mem'.gbest = PositionAt(db.best) /\ mem'.gfit = g
      /\ mem'.stopped = FALSE
      /\ mem' = [swarm |-> mem'.swarm, gbest |-> mem'.gbest, gfit |-> mem'.gfit,
                 stopped |-> mem'.stopped]
  BY <1>1
<1>8. Swarm' = 0 .. n - 1 /\ Swarm' \subseteq Nat
  BY <1>4, <1>7 DEF Swarm
<1>9. MemTyped'
  BY <1>4, <1>5, <1>6, <1>7, <1>8 DEF MemTyped
<1>10. /\ AddAll(n) \in Seq(Task(0 .. n - 1))
       /\ \A p \in 0 .. n - 1 : Waits(AddAll(n), p)
  BY <1>4, AllAdded
<1>11. runs' \in 1 .. MaxRuns /\ runs' # 1
  BY <1>2, <1>3, StoreAssumption
<1>12. TodoTyped'
  BY <1>2, <1>3, <1>8, <1>10, <1>11 DEF TodoTyped
<1>13. DbTyped'
  BY <1>2, <1>3 DEF DbTyped
<1> QED BY <1>2, <1>8, <1>9, <1>10, <1>11, <1>12, <1>13 DEF Typed

LEMMA InitTyped == Init => Typed /\ runs = 1 /\ \A p \in Swarm : Waits(todo, p)
<1> SUFFICES ASSUME Init PROVE Typed /\ runs = 1 /\ \A p \in Swarm : Waits(todo, p)
  OBVIOUS
<1> DEFINE ids == 0 .. NumParticles - 1
<1>1. PICK s \in [ids -> NewParticles], x \in Position :
        mem = [swarm |-> s, gbest |-> x, gfit |-> MAX, stopped |-> FALSE]
  BY DEF Init
<1>2. /\ db = EmptyTables /\ pending = {} /\ todo = AddAll(NumParticles) /\ phase = "up"
      /\ runs = 1
  BY DEF Init
<1>3. NewParticles \subseteq Particle
  BY StoreAssumption, Values DEF NewParticles, Particle, Value0
<1>4. /\ mem.swarm = s /\ mem.gbest = x /\ mem.gfit = MAX /\ mem.stopped = FALSE
      /\ Swarm = ids /\ ids \subseteq Nat
      /\ mem = [swarm |-> mem.swarm, gbest |-> mem.gbest, gfit |-> mem.gfit,
                stopped |-> mem.stopped]
  BY <1>1, StoreAssumption DEF Swarm
<1>5. MemTyped
  BY <1>1, <1>3, <1>4, Values DEF MemTyped, Value0
<1>6. DbTyped
  <2>1. /\ DOMAIN db = {"positions", "velocities", "particles", "curr", "best"}
        /\ db.positions = <<>> /\ db.velocities = <<>> /\ db.particles = <<>>
        /\ db.curr = 0 /\ db.best = 0
    BY <1>2 DEF EmptyTables, NULL, NoRow
  <2>2. DOMAIN <<>> = {}
    OBVIOUS
  <2>3. IsFiniteSet({})
    BY FS_EmptySet
  <2> QED BY <2>1, <2>2, <2>3, Values DEF DbTyped, Value0
<1>7. AddAll(NumParticles) \in Seq(Task(ids)) /\ \A p \in ids : Waits(AddAll(NumParticles), p)
  BY StoreAssumption, AllAdded
<1>8. TodoTyped
  BY <1>2, <1>4, <1>7, StoreAssumption DEF TodoTyped
<1> QED BY <1>2, <1>4, <1>5, <1>6, <1>7, <1>8 DEF Typed

LEMMA StepTyped == Typed /\ [Next]_vars => Typed'
<1> SUFFICES ASSUME Typed, [Next]_vars PROVE Typed'
  OBVIOUS
<1>1. CASE UNCHANGED vars
  BY <1>1 DEF vars, Typed, MemTyped, DbTyped, TodoTyped, Swarm
<1>2. CASE Receive
  BY <1>2, ReportingTyped
<1>3. CASE ReportKnown
  BY <1>3, ReportingTyped
<1>4. CASE Move
  BY <1>4, MoveTyped
<1>5. CASE Queue
  BY <1>5, QueueTyped
<1>6. CASE StorePosition
  BY <1>6, StorePositionTyped
<1>7. CASE StoreFitness
  BY <1>7, StoreFitnessTyped
<1>8. CASE StoreVelocity
  BY <1>8, StoreVelocityTyped
<1>9. CASE InsertRow
  BY <1>9, InsertRowTyped
<1>10. CASE KnownRow
  BY <1>10, KnownRowTyped
<1>11. CASE UpdateRow
  BY <1>11, UpdateTyped DEF UpdateRow
<1>12. CASE StoreSingleton
  BY <1>12, StoreSingletonTyped
<1>13. CASE StopSearch
  BY <1>13, StopSearchTyped
<1>14. CASE Die
  BY <1>14, DieTyped
<1>15. CASE Restart
  BY <1>15, RestartTyped
<1>16. CASE Finished
  BY <1>1, <1>16 DEF Finished
<1> QED
  BY <1>1, <1>2, <1>3, <1>4, <1>5, <1>6, <1>7, <1>8, <1>9, <1>10, <1>11, <1>12, <1>13, <1>14,
     <1>15, <1>16 DEF Next

LEMMA AlwaysTyped == Spec => []Typed
BY InitTyped, StepTyped, PTL DEF Spec

\* The tables stay well formed: what is stored, read back, counted and resumed has
\* the types the code relies on, and no position or velocity ever gets two rows
\* (data.c:1085-1186, 1375-1460).
THEOREM TypeCorrect == Spec => []TypeOK
BY AlwaysTyped, TypedIsTypeOK, PTL

-----------------------------------------------------------------------------
(* No particle is dropped.                                                 *)

\* While the search goes on, every particle is in the task farm, or some report in
\* progress is still to move or to add it.
Awaiting == phase = "up" /\ ~mem.stopped => \A p \in Swarm : p \in pending \/ Waits(todo, p)

\* A statement that is neither a move nor an addition is nobody's turn.
LEMMA StatementAwaits ==
  ASSUME Typed, Awaiting, todo # <<>>, Head(todo).op \notin {"move", "add"}, Done
  PROVE  Awaiting'
<1>1. Range(todo) = {Head(todo)} \cup Range(Tail(todo)) /\ todo' = Tail(todo)
      /\ UNCHANGED <<mem, pending, phase, runs>> /\ Swarm' = Swarm
  BY Turn DEF Done, Swarm
<1>2. \A q : Waits(todo, q) => Waits(todo', q)
  BY <1>1 DEF Waits
<1> QED BY <1>1, <1>2 DEF Awaiting

LEMMA StepAwaits == Typed /\ Awaiting /\ [Next]_vars => Awaiting'
<1> SUFFICES ASSUME Typed, Awaiting, [Next]_vars PROVE Awaiting'
  OBVIOUS
<1>1. CASE UNCHANGED vars
  BY <1>1 DEF vars, Awaiting, Swarm
<1>2. CASE Receive \/ ReportKnown
  <2>1. PICK p \in Swarm, f \in Value0, rest \in Seq(Task(Swarm)) :
          /\ Report(p, f, rest) /\ UNCHANGED <<db, phase, runs>>
          /\ Range(rest) \subseteq Range(todo)
          /\ \A t \in Range(todo) : t \in Range(rest) \/ t.p = p
          /\ pending' \subseteq pending /\ pending \subseteq pending' \cup {p}
    BY <1>2, Reporting
  <2>2. /\ Swarm' = Swarm
        /\ ~mem'.stopped => ~mem.stopped /\ Waits(todo', p)
        /\ Range(rest) \subseteq Range(todo')
    BY <2>1, Reported DEF Typed
  <2>3. \A q : q # p /\ Waits(todo, q) => Waits(todo', q)
    BY <2>1, <2>2 DEF Waits
  <2>4. ASSUME phase' = "up", ~mem'.stopped, NEW q \in Swarm'
        PROVE  q \in pending' \/ Waits(todo', q)
    <3>1. q \in pending \/ Waits(todo, q)
      BY <2>1, <2>2, <2>4 DEF Awaiting
    <3>2. CASE q = p
      BY <2>2, <2>4, <3>2
    <3>3. CASE q # p
      BY <2>1, <2>3, <3>1, <3>3
    <3> QED BY <3>2, <3>3
  <2> QED BY <2>4 DEF Awaiting
<1>3. CASE Move
  <2>1. /\ Swarm' = Swarm /\ mem'.stopped = mem.stopped /\ UNCHANGED <<pending, phase>>
        /\ \A q : Waits(todo, q) => Waits(todo', q)
    BY <1>3, MoveTyped DEF Move
  <2> QED BY <2>1 DEF Awaiting
<1>4. CASE Queue
  <2>1. /\ UNCHANGED <<mem, phase>> /\ Swarm' = Swarm /\ pending \subseteq pending'
        /\ \A q : Waits(todo, q) => Waits(todo', q) \/ q \in pending'
    BY <1>4, QueueTyped DEF Queue, Swarm
  <2> QED BY <2>1 DEF Awaiting
<1>5. CASE StorePosition
  <2>1. todo # <<>> /\ Done /\ Head(todo).op \notin {"move", "add"}
    BY <1>5 DEF StorePosition, Next1
  <2> QED BY <2>1, StatementAwaits
<1>6. CASE StoreFitness
  <2>1. todo # <<>> /\ Done /\ Head(todo).op \notin {"move", "add"}
    BY <1>6 DEF StoreFitness, Next1
  <2> QED BY <2>1, StatementAwaits
<1>7. CASE StoreVelocity
  <2>1. todo # <<>> /\ Done /\ Head(todo).op \notin {"move", "add"}
    BY <1>7 DEF StoreVelocity, Next1
  <2> QED BY <2>1, StatementAwaits
<1>8. CASE InsertRow
  <2>1. todo # <<>> /\ Done /\ Head(todo).op \notin {"move", "add"}
    BY <1>8 DEF InsertRow, Next1
  <2> QED BY <2>1, StatementAwaits
<1>9. CASE KnownRow
  <2>1. /\ Head(todo).op = "row" /\ UNCHANGED <<mem, pending, phase>> /\ Swarm' = Swarm
    BY <1>9 DEF KnownRow, Next1, Swarm
  <2>2. \A t \in Range(todo) : t = Head(todo) \/ t \in Range(todo')
    BY <1>9, KnownRowTyped
  <2>3. \A q : Waits(todo, q) => Waits(todo', q)
    BY <2>1, <2>2 DEF Waits
  <2> QED BY <2>1, <2>3 DEF Awaiting
<1>10. CASE UpdateRow
  <2>1. todo # <<>> /\ Done /\ Head(todo).op \notin {"move", "add"}
    BY <1>10 DEF UpdateRow, Update, Next1
  <2> QED BY <2>1, StatementAwaits
<1>11. CASE StoreSingleton
  <2>1. todo # <<>> /\ Done /\ Head(todo).op \notin {"move", "add"}
    BY <1>11 DEF StoreSingleton, Next1
  <2> QED BY <2>1, StatementAwaits
<1>12. CASE StopSearch
  BY <1>12 DEF StopSearch, Awaiting
<1>13. CASE Die
  BY <1>13 DEF Die, Awaiting
<1>14. CASE Restart
  BY <1>14, RestartTyped DEF Awaiting
<1>15. CASE Finished
  BY <1>1, <1>15 DEF Finished
<1> QED
  BY <1>1, <1>2, <1>3, <1>4, <1>5, <1>6, <1>7, <1>8, <1>9, <1>10, <1>11, <1>12, <1>13, <1>14,
     <1>15 DEF Next

\* When all reports have ended and the search goes on, every particle's evaluation
\* is in the task farm, however deep a report of a known position nested further
\* reports (optimiser.c:286-309, spso.c:764-771).
THEOREM EveryParticleIsQueued == Spec => []EveryParticleQueued
<1>1. Init => Awaiting
  BY InitTyped DEF Awaiting
<1>2. Typed /\ Awaiting => EveryParticleQueued
  <2> SUFFICES ASSUME Typed, Awaiting, phase = "up", todo = <<>>, ~mem.stopped
               PROVE  pending = Swarm
    BY DEF EveryParticleQueued
  <2>1. \A p : ~Waits(todo, p)
    BY DEF Waits, Range
  <2> QED BY <2>1 DEF Awaiting, Typed, TodoTyped
<1> QED BY AlwaysTyped, StepAwaits, <1>1, <1>2, PTL DEF Spec

-----------------------------------------------------------------------------
(* Nothing better is stored.                                               *)

Recorded == IF db.curr = NULL THEN MAX ELSE db.curr

\* The stored best is the swarm's, or is about to be.
InStep ==
  \/ Recorded = mem.gfit
  \/ todo # <<>> /\ Head(todo).op = "CURR_BEST"
  \/ Len(todo) >= 2 /\ Head(todo).op = "gbest" /\ todo[2].op = "CURR_BEST"

\* In the first search, before it converges: no particle's best, no row and no
\* report in progress is better than the swarm's best, nor the stored best.
Ahead ==
  runs = 1 /\ ~mem.stopped =>
    /\ mem.gfit \in 1 .. MAX
    /\ \A p \in Swarm : mem.swarm[p].bestFit >= mem.gfit
    /\ Recorded \in mem.gfit .. MAX
    /\ \A id \in DOMAIN db.positions :
         db.positions[id].fitness = NULL \/ db.positions[id].fitness >= Recorded
    /\ NoneBelow(todo, mem.gfit)
    /\ phase # "down" => InStep

\* The statement before CURR_BEST is the only one that may have to wait for it.
LEMMA StatementInStep ==
  ASSUME Typed, InStep, todo # <<>>, Head(todo).op # "CURR_BEST", Done, db'.curr = db.curr
  PROVE  InStep'
<1>1. todo' = Tail(todo) /\ mem' = mem /\ todo \in Seq(Task(Swarm))
  BY DEF Done, Typed, TodoTyped
<1>2. /\ Head(todo) = todo[1] /\ Len(todo) \in Nat \ {0} /\ Tail(todo) \in Seq(Task(Swarm))
      /\ Len(Tail(todo)) = Len(todo) - 1
      /\ \A i \in 1 .. Len(Tail(todo)) : Tail(todo)[i] = todo[i + 1]
  BY <1>1, NextTask
<1>3. CASE Recorded = mem.gfit
  BY <1>1, <1>3 DEF InStep, Recorded
<1>4. CASE Len(todo) >= 2 /\ todo[2].op = "CURR_BEST"
  <2>1. Tail(todo)[1] = todo[2] /\ Len(Tail(todo)) >= 1
    BY <1>2, <1>4
  <2>2. Tail(todo) # <<>>
    <3> DEFINE rest == Tail(todo)
    <3>1. Len(rest) >= 1
      BY <2>1
    <3>2. Len(<<>>) = 0
      OBVIOUS
    <3> HIDE DEF rest
    <3>3. rest # <<>>
      BY <3>1, <3>2
    <3> QED BY <3>3 DEF rest
  <2>3. Head(Tail(todo)) = Tail(todo)[1]
    BY <1>2, <2>2, NextTask
  <2> QED BY <1>1, <1>4, <2>1, <2>2, <2>3 DEF InStep
<1> QED BY <1>3, <1>4 DEF InStep

\* A statement that writes no fitness and no best.
LEMMA StatementAhead ==
  ASSUME Typed, Ahead, todo # <<>>, Head(todo).op # "CURR_BEST", Done, db'.curr = db.curr,
         \A i \in DOMAIN db'.positions :
           \/ db'.positions[i].fitness = NULL
           \/ i \in DOMAIN db.positions /\ db'.positions[i].fitness = db.positions[i].fitness
  PROVE  Ahead'
<1> SUFFICES ASSUME runs' = 1, ~mem'.stopped
             PROVE  /\ mem'.gfit \in 1 .. MAX
                    /\ \A p \in Swarm' : mem'.swarm[p].bestFit >= mem'.gfit
                    /\ Recorded' \in mem'.gfit .. MAX
                    /\ \A id \in DOMAIN db'.positions :
                         db'.positions[id].fitness = NULL
                           \/ db'.positions[id].fitness >= Recorded'
                    /\ NoneBelow(todo', mem'.gfit)
                    /\ InStep'
  BY DEF Ahead
<1>1. /\ mem' = mem /\ runs' = runs /\ Recorded' = Recorded /\ Swarm' = Swarm
      /\ todo' = Tail(todo) /\ phase # "down" /\ Range(todo) = {Head(todo)} \cup Range(Tail(todo))
  BY Turn DEF Done, Recorded, Swarm
<1>2. /\ mem.gfit \in 1 .. MAX /\ \A p \in Swarm : mem.swarm[p].bestFit >= mem.gfit
      /\ Recorded \in mem.gfit .. MAX
      /\ \A id \in DOMAIN db.positions :
           db.positions[id].fitness = NULL \/ db.positions[id].fitness >= Recorded
      /\ NoneBelow(todo, mem.gfit) /\ InStep
  BY <1>1 DEF Ahead
<1>3. NoneBelow(todo', mem'.gfit)
  BY <1>1, <1>2 DEF NoneBelow
<1>4. InStep'
  BY <1>2, StatementInStep
<1>5. \A id \in DOMAIN db'.positions :
        db'.positions[id].fitness = NULL \/ db'.positions[id].fitness >= Recorded'
  BY <1>1, <1>2
<1> QED BY <1>1, <1>2, <1>3, <1>4, <1>5

\* Nothing is written, and nobody's best changes.
LEMMA QuietAhead ==
  ASSUME Typed, Ahead, todo # <<>>, Head(todo).op \notin {"gbest", "CURR_BEST"},
         UNCHANGED <<db, phase, runs>>, Swarm' = Swarm,
         mem'.gfit = mem.gfit, mem'.stopped = mem.stopped,
         \A q \in Swarm : mem'.swarm[q].bestFit = mem.swarm[q].bestFit,
         \A t \in Range(todo') : t.op = "fitness" => t \in Range(todo)
  PROVE  Ahead'
<1>1. CASE runs = 1 /\ ~mem.stopped
  <2>1. phase # "down" /\ Recorded' = Recorded
    BY Turn DEF Recorded
  <2>2. Recorded = mem.gfit /\ NoneBelow(todo, mem.gfit)
    BY <1>1, <2>1 DEF Ahead, InStep
  <2>3. NoneBelow(todo', mem'.gfit)
    BY <2>2 DEF NoneBelow
  <2>4. InStep'
    BY <2>1, <2>2 DEF InStep
  <2> QED BY <1>1, <2>1, <2>3, <2>4 DEF Ahead
<1>2. CASE ~(runs = 1 /\ ~mem.stopped)
  BY <1>2 DEF Ahead
<1> QED BY <1>1, <1>2

\* A fitness is only stored when the stored best is the swarm's.
LEMMA StoreFitnessAhead ==
  ASSUME Typed, Ahead, StoreFitness
  PROVE  Ahead'
<1> SUFFICES ASSUME runs' = 1, ~mem'.stopped PROVE Ahead'
  BY DEF Ahead
<1> DEFINE h == Head(todo)
           v == Value(h)
<1>1. /\ todo # <<>> /\ Done /\ h.op \in {"best fitness", "gbest fitness", "fitness"}
  BY DEF StoreFitness, Next1
<1>2. /\ mem' = mem /\ runs' = runs /\ Swarm' = Swarm /\ phase' = phase
      /\ todo' = Tail(todo) /\ phase # "down" /\ Range(todo) = {h} \cup Range(Tail(todo))
  BY <1>1, Turn DEF Done, Swarm
<1>3. /\ mem.gfit \in 1 .. MAX /\ \A p \in Swarm : mem.swarm[p].bestFit >= mem.gfit
      /\ Recorded \in mem.gfit .. MAX
      /\ \A id \in DOMAIN db.positions :
           db.positions[id].fitness = NULL \/ db.positions[id].fitness >= Recorded
      /\ NoneBelow(todo, mem.gfit) /\ InStep
  BY <1>2 DEF Ahead
<1>4. h.op # "CURR_BEST" /\ h.op # "gbest"
  BY <1>1
<1>5. Recorded = mem.gfit
  BY <1>3, <1>4 DEF InStep
<1>6. v >= mem.gfit
  <2>1. CASE h.op = "best fitness"
    <3>1. h.p \in Swarm
      BY <1>1, <2>1, Turn DEF ParticleOps
    <3>2. v = mem.swarm[h.p].bestFit
      BY <2>1 DEF Value
    <3> QED BY <1>3, <3>1, <3>2
  <2>2. CASE h.op = "gbest fitness"
    <3>1. v = mem.gfit
      BY <2>2 DEF Value
    <3> QED BY <1>3, <3>1
  <2>3. CASE h.op = "fitness"
    <3>1. v = h.f
      BY <2>3 DEF Value
    <3> QED BY <1>2, <1>3, <2>3, <3>1 DEF NoneBelow
  <2> QED BY <1>1, <2>1, <2>2, <2>3
<1>7. /\ db'.curr = db.curr /\ DOMAIN db'.positions = DOMAIN db.positions
      /\ \A i \in DOMAIN db.positions :
           db'.positions[i].fitness \in {v, db.positions[i].fitness}
  BY StoreFitnessTyped
<1> HIDE DEF v
<1>8. Recorded' = Recorded
  BY <1>7 DEF Recorded
<1>9. InStep' /\ NoneBelow(todo', mem'.gfit)
  BY <1>2, <1>3, <1>5, <1>8 DEF InStep, NoneBelow
<1>10. \A i \in DOMAIN db'.positions :
         db'.positions[i].fitness = NULL \/ db'.positions[i].fitness >= Recorded'
  BY <1>3, <1>5, <1>6, <1>7, <1>8
<1> QED BY <1>2, <1>3, <1>8, <1>9, <1>10 DEF Ahead

\* Storing the best, and the position it is at.
LEMMA StoreSingletonAhead ==
  ASSUME Typed, Ahead, StoreSingleton
  PROVE  Ahead'
<1>1. /\ todo # <<>> /\ Done /\ Head(todo).op \in {"CURR_BEST", "BEST_POS"}
  BY DEF StoreSingleton, Next1
<1>2. /\ db'.positions = db.positions
      /\ db'.curr = IF Head(todo).op = "CURR_BEST" THEN mem.gfit ELSE db.curr
  BY StoreSingletonTyped
<1>3. CASE Head(todo).op = "BEST_POS"
  BY <1>1, <1>2, <1>3, StatementAhead
<1>4. CASE Head(todo).op = "CURR_BEST"
  <2> SUFFICES ASSUME runs' = 1, ~mem'.stopped PROVE Ahead'
    BY DEF Ahead
  <2>1. /\ mem' = mem /\ runs' = runs /\ Swarm' = Swarm /\ todo' = Tail(todo)
        /\ Range(todo) = {Head(todo)} \cup Range(Tail(todo))
    BY <1>1, Turn DEF Done, Swarm
  <2>2. /\ mem.gfit \in 1 .. MAX /\ \A p \in Swarm : mem.swarm[p].bestFit >= mem.gfit
        /\ Recorded \in mem.gfit .. MAX
        /\ \A id \in DOMAIN db.positions :
             db.positions[id].fitness = NULL \/ db.positions[id].fitness >= Recorded
        /\ NoneBelow(todo, mem.gfit)
    BY <2>1 DEF Ahead
  <2>3. Recorded' = mem.gfit
    BY <1>2, <1>4, <2>2 DEF Recorded, NULL
  <2>4. \A id \in DOMAIN db.positions : db.positions[id].fitness \in Nat
    <3>1. \A id \in DOMAIN db.positions : db.positions[id] \in PositionRow
      BY LenProperties DEF Typed, DbTyped
    <3> QED BY <3>1, Values DEF PositionRow, Value0
  <2>5. \A id \in DOMAIN db.positions :
          db.positions[id].fitness = NULL \/ db.positions[id].fitness >= mem.gfit
    <3>1. Recorded \in Nat /\ Recorded >= mem.gfit /\ mem.gfit \in Nat
      BY <2>2
    <3> QED BY <2>2, <2>4, <3>1
  <2>6. InStep' /\ NoneBelow(todo', mem'.gfit)
    BY <2>1, <2>2, <2>3 DEF InStep, NoneBelow
  <2>7. mem.gfit \in mem.gfit .. MAX
    BY <2>2
  <2> QED BY <1>2, <2>1, <2>2, <2>3, <2>5, <2>6, <2>7 DEF Ahead
<1> QED BY <1>1, <1>3, <1>4

\* A report that improves the swarm's best is followed by the checkpoint.
LEMMA ReportAhead ==
  ASSUME Typed, Ahead, Receive \/ ReportKnown
  PROVE  Ahead'
<1> SUFFICES ASSUME runs' = 1, ~mem'.stopped PROVE Ahead'
  BY DEF Ahead
<1>1. PICK p \in Swarm, f \in Value0, rest \in Seq(Task(Swarm)) :
        /\ Report(p, f, rest) /\ f \in 1 .. MAX
        /\ UNCHANGED <<db, phase, runs>> /\ phase # "down"
        /\ Range(rest) \subseteq Range(todo)
        /\ todo = <<>> \/ Head(todo).op = "add"
  BY Reporting
<1>2. MemTyped /\ MemTyped'
  BY ReportingTyped DEF Typed
<1>3. /\ Swarm' = Swarm /\ ~mem.stopped /\ todo' \in Seq(Task(Swarm))
      /\ \A t \in Range(todo') : t.op = "fitness" => t.f = f \/ t \in Range(rest)
      /\ mem'.gfit = IF mem.gfit > f THEN f ELSE mem.gfit
      /\ mem.gfit > f => /\ Len(todo') >= 2 /\ todo'[1].op = "gbest"
                         /\ todo'[2].op = "CURR_BEST"
      /\ \A q \in Swarm : mem'.swarm[q].bestFit =
           IF q = p /\ mem.swarm[p].bestFit > f THEN f ELSE mem.swarm[q].bestFit
  BY <1>1, <1>2, Reported
<1>4. /\ mem.gfit \in 1 .. MAX /\ \A q \in Swarm : mem.swarm[q].bestFit >= mem.gfit
      /\ Recorded \in mem.gfit .. MAX
      /\ \A id \in DOMAIN db.positions :
           db.positions[id].fitness = NULL \/ db.positions[id].fitness >= Recorded
      /\ NoneBelow(todo, mem.gfit) /\ InStep
  BY <1>1, <1>3 DEF Ahead
<1>5. /\ mem'.gfit \in 1 .. MAX /\ mem'.gfit <= mem.gfit /\ mem'.gfit <= f
      /\ Recorded' = Recorded /\ Recorded \in mem'.gfit .. MAX
  BY <1>1, <1>3, <1>4 DEF Recorded
<1>6. \A q \in Swarm' : mem'.swarm[q].bestFit >= mem'.gfit
  <2>1. \A q \in Swarm : mem.swarm[q].bestFit \in Nat
    BY <1>2, Values DEF MemTyped, Particle, Value0
  <2> QED BY <1>1, <1>3, <1>4, <1>5, <2>1
<1>7. NoneBelow(todo', mem'.gfit)
  <2>1. \A t \in Range(todo) : t.f \in Nat
    <3>1. todo \in Seq(Task(Swarm))
      BY DEF Typed, TodoTyped
    <3>2. \A t \in Range(todo) : t \in Task(Swarm)
      BY <3>1, RangeOfSeq
    <3>3. \A t \in Task(Swarm) : t.f \in Nat
      BY Values DEF Task, Value0
    <3> QED BY <3>2, <3>3
  <2> SUFFICES ASSUME NEW t \in Range(todo'), t.op = "fitness" PROVE t.f >= mem'.gfit
    BY DEF NoneBelow
  <2>2. CASE t.f = f
    BY <1>1, <1>5, <2>2
  <2>3. CASE t \in Range(rest)
    <3>1. t.f >= mem.gfit /\ t.f \in Nat
      BY <1>1, <1>4, <2>1, <2>3 DEF NoneBelow
    <3> QED BY <1>4, <1>5, <3>1
  <2> QED BY <1>3, <2>2, <2>3
<1>8. InStep'
  <2>1. CASE mem.gfit > f
    <3>1. Head(todo') = todo'[1]
      BY HeadTailProperties, <1>3, <2>1, EmptySeq
    <3> QED BY <1>3, <2>1, <3>1 DEF InStep
  <2>2. CASE ~(mem.gfit > f)
    <3>1. Len(<<>>) = 0
      OBVIOUS
    <3>2. Recorded = mem.gfit
      BY <1>1, <1>4, <3>1 DEF InStep
    <3> QED BY <1>3, <1>5, <2>2, <3>2 DEF InStep
  <2> QED BY <2>1, <2>2
<1> QED BY <1>1, <1>4, <1>5, <1>6, <1>7, <1>8 DEF Ahead

LEMMA StepAhead == Typed /\ Ahead /\ [Next]_vars => Ahead'
<1> SUFFICES ASSUME Typed, Ahead, [Next]_vars PROVE Ahead'
  OBVIOUS
<1>1. CASE UNCHANGED vars
  BY <1>1 DEF vars, Ahead, InStep, Recorded, Swarm
<1>2. CASE Receive \/ ReportKnown
  BY <1>2, ReportAhead
<1>3. CASE Move
  <2>1. /\ todo # <<>> /\ Head(todo).op = "move" /\ UNCHANGED <<db, phase, runs>>
    BY <1>3 DEF Move, Next1
  <2>2. /\ mem'.gfit = mem.gfit /\ mem'.stopped = mem.stopped /\ Swarm' = Swarm
        /\ \A q \in Swarm : mem'.swarm[q].bestFit = mem.swarm[q].bestFit
        /\ \A t \in Range(todo') : t.op = "fitness" => t \in Range(todo)
    BY <1>3, MoveTyped
  <2>3. Head(todo).op \notin {"gbest", "CURR_BEST"}
    BY <2>1
  <2> QED BY <2>1, <2>2, <2>3, QuietAhead
<1>4. CASE Queue
  <2>1. /\ todo # <<>> /\ Head(todo).op = "add" /\ UNCHANGED <<mem, db, phase, runs>>
    BY <1>4 DEF Queue, Next1
  <2>2. /\ Swarm' = Swarm /\ mem'.gfit = mem.gfit /\ mem'.stopped = mem.stopped
        /\ \A q \in Swarm : mem'.swarm[q].bestFit = mem.swarm[q].bestFit
    BY <2>1 DEF Swarm
  <2>3. \A t \in Range(todo') : t.op = "fitness" => t \in Range(todo)
    BY <1>4, QueueTyped
  <2>4. Head(todo).op \notin {"gbest", "CURR_BEST"}
    BY <2>1
  <2> QED BY <2>1, <2>2, <2>3, <2>4, QuietAhead
<1>5. CASE KnownRow
  <2>1. /\ todo # <<>> /\ Head(todo).op = "row" /\ UNCHANGED <<mem, db, phase, runs>>
    BY <1>5 DEF KnownRow, Next1
  <2>2. /\ Swarm' = Swarm /\ mem'.gfit = mem.gfit /\ mem'.stopped = mem.stopped
        /\ \A q \in Swarm : mem'.swarm[q].bestFit = mem.swarm[q].bestFit
    BY <2>1 DEF Swarm
  <2>3. \A t \in Range(todo') : t.op = "fitness" => t \in Range(todo)
    BY <1>5, KnownRowTyped
  <2>4. Head(todo).op \notin {"gbest", "CURR_BEST"}
    BY <2>1
  <2> QED BY <2>1, <2>2, <2>3, <2>4, QuietAhead
<1>6. CASE StorePosition
  <2>1. todo # <<>> /\ Done /\ Head(todo).op # "CURR_BEST"
    BY <1>6 DEF StorePosition, Next1
  <2>2. /\ db'.curr = db.curr
        /\ \A i \in DOMAIN db'.positions :
             \/ db'.positions[i].fitness = NULL
             \/ i \in DOMAIN db.positions /\ db'.positions[i].fitness = db.positions[i].fitness
    BY <1>6, StorePositionTyped
  <2> QED BY <2>1, <2>2, StatementAhead
<1>7. CASE StoreFitness
  BY <1>7, StoreFitnessAhead
<1>8. CASE StoreVelocity
  <2>1. todo # <<>> /\ Done /\ Head(todo).op # "CURR_BEST"
    BY <1>8 DEF StoreVelocity, Next1
  <2> QED BY <1>8, <2>1, StoreVelocityTyped, StatementAhead
<1>9. CASE InsertRow
  <2>1. todo # <<>> /\ Done /\ Head(todo).op # "CURR_BEST"
    BY <1>9 DEF InsertRow, Next1
  <2> QED BY <1>9, <2>1, InsertRowTyped, StatementAhead
<1>10. CASE UpdateRow
  <2>1. todo # <<>> /\ Done /\ Head(todo).op # "CURR_BEST"
    BY <1>10 DEF UpdateRow, Update, Next1
  <2>2. db'.positions = db.positions /\ db'.curr = db.curr
    BY <1>10, UpdateTyped DEF UpdateRow
  <2> QED BY <2>1, <2>2, StatementAhead
<1>11. CASE StoreSingleton
  BY <1>11, StoreSingletonAhead
<1>12. CASE StopSearch
  BY <1>12, StopSearchTyped DEF Ahead
<1>13. CASE Die
  <2>1. todo' = <<>> /\ phase' = "down" /\ UNCHANGED <<mem, db, runs>>
    BY <1>13 DEF Die
  <2>2. NoneBelow(todo', mem'.gfit)
    BY <2>1 DEF NoneBelow, Range
  <2> QED BY <2>1, <2>2 DEF Ahead, Recorded, Swarm
<1>14. CASE Restart
  BY <1>14, RestartTyped DEF Ahead
<1>15. CASE Finished
  BY <1>1, <1>15 DEF Finished
<1> QED
  BY <1>1, <1>2, <1>3, <1>4, <1>5, <1>6, <1>7, <1>8, <1>9, <1>10, <1>11, <1>12, <1>13, <1>14,
     <1>15 DEF Next

LEMMA InitAhead == Init => Ahead
<1> SUFFICES ASSUME Init PROVE Ahead
  OBVIOUS
<1>1. PICK s \in [0 .. NumParticles - 1 -> NewParticles], x \in Position :
        mem = [swarm |-> s, gbest |-> x, gfit |-> MAX, stopped |-> FALSE]
  BY DEF Init
<1>2. /\ mem.gfit = MAX /\ MAX \in 1 .. MAX /\ mem.swarm = s
      /\ \A p \in Swarm : mem.swarm[p].bestFit >= mem.gfit
  BY <1>1, Values DEF Swarm, NewParticles
<1>3. db.positions = <<>> /\ Recorded = MAX
  BY DEF Init, EmptyTables, Recorded, NULL
<1>4. DOMAIN db.positions = {}
  BY <1>3
<1>5. NoneBelow(todo, mem.gfit)
  <2>1. todo = AddAll(NumParticles)
    BY DEF Init
  <2>2. \A t \in Range(AddAll(NumParticles)) : t.op = "add"
    BY StoreAssumption, AllAdded
  <2>3. \A t \in Range(todo) : t.op # "fitness"
    BY <2>1, <2>2
  <2> QED BY <2>3 DEF NoneBelow
<1> QED BY <1>2, <1>3, <1>4, <1>5 DEF Ahead, InStep

\* As long as the first search goes on, no row has a fitness better than the stored
\* best, before and after every statement of every report: a process that dies
\* leaves no result that the next run's best ignores (spso.c:734-745,
\* optimiser.c:184-187, 344-351, 487).
THEOREM NothingBetterIsStored == Spec => []NothingBetterStored
<1>1. Typed /\ Ahead => NothingBetterStored
  BY DEF Ahead, NothingBetterStored, Recorded
<1> QED BY AlwaysTyped, InitAhead, StepAhead, <1>1, PTL DEF Spec
=============================================================================

--------------------- MODULE CheckpointImplementsRecord ---------------------
(***************************************************************************)
(* The swarm and its tables implement a durable record.  A value of the    *)
(* record is what would come back of it from the tables, where no value    *)
(* and a failed evaluation are alike.  While no process runs, what is      *)
(* known is what is stored.                                                *)
(***************************************************************************)
EXTENDS Checkpoint

\* A value when it has been stored and read again.
ComesBack(v) == Capped(Read(Written(v)))

InMemory ==
  [curr |-> ComesBack(mem.curr), prev |-> ComesBack(mem.prev),
   pprev |-> ComesBack(mem.pprev), pos |-> mem.pos, counter |-> mem.counter]

InTables ==
  [curr |-> Capped(Read(db.curr)), prev |-> Capped(Read(db.prev)),
   pprev |-> Capped(Read(db.pprev)), pos |-> Loaded(db).pos, counter |-> db.counter]

\* What the next report goes on from, or the next run.
InForce == IF phase = "down" THEN InTables ELSE InMemory

Durable == INSTANCE DurableRecord WITH
  Value <- {ComesBack(f) : f \in Fitness \cup {MAX}},
  Worst <- MAX,
  First <- Origin,
  known <- InForce,
  stored <- InTables,
  reporting <- todo # <<>>

\* However reports nest, signals come and the process dies and starts again, each
\* step is one of the durable record or none (spso.c:307-354, optimiser.c:160-233,
\* 463-480, data.c:1493-1737).
ImplementsRecord == Durable!Spec
=============================================================================

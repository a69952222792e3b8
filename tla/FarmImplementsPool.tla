------------------------- MODULE FarmImplementsPool -------------------------
(***************************************************************************)
(* The task farm implements the work pool.  The waiting particles are the  *)
(* master's item in hand followed by the queue; a particle is being        *)
(* evaluated from the moment its item is sent until its result is          *)
(* credited, whatever became of the rank that has it.                      *)
(***************************************************************************)
EXTENDS TaskFarmInvariant

Waiting == (IF item = NULL THEN <<>> ELSE <<item>>) \o queue

Uids(items) == [k \in 1 .. Len(items) |-> items[k].uid]

Evaluating == {working_on[w].uid : w \in {v \in Worker : working_on[v] # NULL}}

Pool == INSTANCE WorkPool WITH
  pending <- Uids(Waiting),
  running <- Evaluating,
  rounds <- evals,
  stopping <- spso_stop_flag

\* Every step of the farm (taskfarm.c:188-583) is a step of the pool or none.
ImplementsPool == Pool!Spec
=============================================================================

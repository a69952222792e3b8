------------------------------ MODULE WorkPool ------------------------------
(***************************************************************************)
(* What the task farm promises the optimiser, without ranks, messages,     *)
(* pointers or stop flags of its own: a first-in first-out pool of         *)
(* particles waiting for evaluation, and the particles being evaluated.    *)
(* A particle is in the pool or being evaluated or neither, and it goes    *)
(* back into the pool only after its evaluation was reported.              *)
(***************************************************************************)
EXTENDS Integers, Sequences

CONSTANT Particle

VARIABLES
  pending,    \* particles waiting, in the order they will be evaluated
  running,    \* particles being evaluated
  rounds,     \* evaluations asked for, per particle
  stopping    \* the swarm has converged or was stopped

poolVars == <<pending, running, rounds, stopping>>

Init ==
  /\ pending = <<>>
  /\ running = {}
  /\ rounds = [p \in Particle |-> 0]
  /\ stopping = FALSE

\* The first evaluation of a particle is asked for once, at the start.
Submit(p) ==
  /\ rounds[p] = 0
  /\ rounds' = [rounds EXCEPT ![p] = 1]
  /\ pending' = Append(pending, p)
  /\ UNCHANGED <<running, stopping>>

\* The oldest request is handed to somebody who evaluates it.
Assign ==
  /\ pending # <<>>
  /\ pending' = Tail(pending)
  /\ running' = running \cup {Head(pending)}
  /\ UNCHANGED <<rounds, stopping>>

\* The evaluation of p is reported: p is moved and queued again, ...
Requeue(p) ==
  /\ p \in running
  /\ ~stopping
  /\ running' = running \ {p}
  /\ rounds' = [rounds EXCEPT ![p] = @ + 1]
  /\ pending' = Append(pending, p)
  /\ UNCHANGED stopping

\* ... or it is the last one of p, and the search is then stopping.
Retire(p) ==
  /\ p \in running
  /\ running' = running \ {p}
  /\ stopping' = TRUE
  /\ UNCHANGED <<pending, rounds>>

\* The search is stopped from outside.
Halt ==
  /\ stopping' = TRUE
  /\ UNCHANGED <<pending, running, rounds>>

Next ==
  \/ Assign
  \/ Halt
  \/ \E p \in Particle : Submit(p) \/ Requeue(p) \/ Retire(p)

Spec == Init /\ [][Next]_poolVars
=============================================================================

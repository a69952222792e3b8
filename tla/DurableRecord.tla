---------------------------- MODULE DurableRecord ----------------------------
(***************************************************************************)
(* What the search may rely on from one run to the next, without           *)
(* statements, processes or rounding: one record of the best results,      *)
(* which outlives the process.  While a result is being reported the       *)
(* stored record may be anything between the old one and the new one; when *)
(* reporting ends the two are the same; a death forgets what had not been  *)
(* stored, and starting again changes nothing.                             *)
(***************************************************************************)
EXTENDS Integers

CONSTANTS
  Value,     \* fitness values, as they are stored
  Worst,     \* the value of a failed evaluation, and of no evaluation
  Position,
  First      \* the position that is stored before any other

VARIABLES
  known,     \* the record that the search works with
  stored,    \* the record that outlives it
  reporting  \* some result, or the stop, is not stored completely yet

recordVars == <<known, stored, reporting>>

Blank(x) == [curr |-> Worst, prev |-> Worst, pprev |-> Worst, pos |-> x, counter |-> 0]

Init ==
  /\ known \in {Blank(x) : x \in Position}
  /\ stored = Blank(First)
  /\ reporting = FALSE

\* The result becomes the best; it is no worse than the one before.
Better(f, x) ==
  /\ f <= known.curr
  /\ known' = [curr |-> f, prev |-> known.curr, pprev |-> known.prev, pos |-> x, counter |-> 0]

\* A result as good as the best, a worse one, and one that is not looked at.
Equal == known' = [known EXCEPT !.counter = 0]
Worse == known' = [known EXCEPT !.counter = @ + 1]
Ignored == UNCHANGED known

Report ==
  /\ Equal \/ Worse \/ Ignored \/ \E f \in Value, x \in Position : Better(f, x)
  /\ reporting' = TRUE
  /\ UNCHANGED stored

\* One field is stored; when nothing is left to do the whole record is.
Save ==
  /\ reporting
  /\ \E x \in DOMAIN known : stored' = [stored EXCEPT ![x] = known[x]]
  /\ reporting' \in BOOLEAN
  /\ ~reporting' => stored' = known
  /\ UNCHANGED known

Death ==
  /\ known' = stored
  /\ reporting' = FALSE
  /\ UNCHANGED stored

Next == Report \/ Save \/ Death

Spec == Init /\ [][Next]_recordVars
=============================================================================

----------------------------- MODULE ShareConfig -----------------------------
(***************************************************************************)
(* opt_share_config of src/src/config.c: the master's config, without the  *)
(* flags, goes to every worker in a sequence of broadcasts that all ranks  *)
(* go through in the same order, each at its own pace.                     *)
(***************************************************************************)
EXTENDS ReadConfig

CONSTANT NumWorkers

VARIABLES
  sent,   \* broadcasts the master has been through
  got,    \* the same of each worker
  copy    \* the config of each worker

shareVars == <<sent, got, copy>>

Worker == 1 .. NumWorkers

\* The calls of opt_share_config; the last two are the compiler's.
Broadcasts == <<"timeout", "quit-signal", "clean-script", "build-script",
                "accuracy-test", "benchmark-timeout", "benchmark-repeats", "epsilon",
                "performance-test", "name", "version">>

\* The master's value.
Field(k) == IF k \in ToSet(CompilerKeys) THEN reader.compiler[k] ELSE reader.top[k]

AllSent == sent = Len(Broadcasts)
HasConfig(w) == got[w] = Len(Broadcasts)

\* realloc of the copy that strdup("") made: 24 bytes in glibc, so that only a
\* longer text may be moved.
MayMove(text) == text = "long"

\* A fault: a text that is not there is sent.
SendableAnyway(k) == TRUE

\* A text must be there.
Sendable(k) == Field(k) # NULL

\* MPI_Bcast on the master, which need not wait for the workers.
Broadcast ==
  /\ ~AllSent
  /\ Sendable(Broadcasts[sent + 1])
  /\ sent' = sent + 1
  /\ UNCHANGED <<got, copy>>

\* A fault: a rank takes a broadcast that the master has not made.
ReceiveEarly(w) ==
  /\ ~HasConfig(w)
  /\ copy' = [copy EXCEPT ![w] = Plus(@, Broadcasts[got[w] + 1], Field(Broadcasts[got[w] + 1]))]
  /\ got' = [got EXCEPT ![w] = @ + 1]
  /\ UNCHANGED sent

\* opt_bcast_string receives into a parameter: when realloc moves the text, the
\* config keeps a pointer to where it was.
Receive(w) ==
  /\ got[w] < sent
  /\ LET k == Broadcasts[got[w] + 1]
     IN  \E text \in {Field(k)} \cup (IF MayMove(Field(k)) THEN {"dangling"} ELSE {}) :
           copy' = [copy EXCEPT ![w] = Plus(@, k, text)]
  /\ got' = [got EXCEPT ![w] = @ + 1]
  /\ UNCHANGED sent

ShareInit ==
  /\ sent = 0
  /\ got = [w \in Worker |-> 0]
  /\ copy = [w \in Worker |-> [k \in {} |-> NULL]]
=============================================================================

--------------------------- MODULE CommandsProofs ---------------------------
(***************************************************************************)
(* Proofs about Commands: a command is killed in time and timed closely, a *)
(* fitness is earned and measured, and what a command leaves behind fails  *)
(* its item, for any timeouts, any first and longest sleep, any number of  *)
(* repeats and items, and any epsilon.                                     *)
(***************************************************************************)
EXTENDS Commands, SequenceTheorems, TLAPS

\* Places at which a command runs.
Running == pc \in {"wait", "poll"}

\* The next sleep is never longer than the time that is left, and an item is
\* being worked on.
Sleeps ==
  /\ Running /\ Timeout(script) > 0 => delay <= timeout_ms
  /\ pc # "receive" => item # 0

Typed == TypeOK /\ Sleeps

\* The clock runs down with the time that is left, and the shell that is waited
\* for was not killed.
ClockInv ==
  /\ now <= wake
  /\ pc = "wait" => now = wake
  /\ Running => child.leader \in {"running"} \cup Ended
  /\ Running /\ ~stop_work => wake + timeout_ms = Second * Timeout(script)
  /\ child.leader = "killed" /\ ~stop_work => now = Second * Timeout(script)

\* A sleep is not longer than the time before it and 1, nor than the longest; so
\* a shell that ended was seen soon.
LookInv ==
  /\ Running /\ ~stop_work => /\ delay <= wake + 1 /\ delay <= Second
                              /\ wake <= 2 * now + 1 /\ wake <= now + Second
  /\ Running /\ child.leader \in Ended =>
       child.at <= wake /\ (~stop_work => wake <= 2 * child.at + 1 /\ wake <= child.at + Second)
  /\ TimeIsClose

\* The scripts that exited with 0 before one is run, the k-th benchmark among
\* them.
Earlier(s, k) ==
  CASE s = "clean" -> <<>>
    [] s = "build" -> <<"clean">>
    [] s = "accuracy_test" -> <<"clean", "build">>
    [] OTHER -> <<"clean", "build", "accuracy_test">> \o [j \in 1 .. k |-> "perf_test"]

\* The item's history and its values say how far it has come.
Earned ==
  /\ Len(values) \in 1 .. NumRepeats
  /\ ran = Earlier("perf_test", Len(values))

Measured(t) == \E k \in 1 .. Len(values) : t = mean(k, values)

EarnedInv ==
  /\ pc = "item" => values = <<>> /\ ran = <<>>
  /\ Running \/ pc = "returned" =>
       /\ IF script = "perf_test" THEN Len(values) < NumRepeats ELSE values = <<>>
       /\ ran = IF pc = "returned" /\ retval = 0
                THEN Append(Earlier(script, Len(values)), script)
                ELSE Earlier(script, Len(values))
  /\ pc = "benchmark" => values = <<>> /\ ran = Earlier("perf_test", 0)
  /\ pc = "report" /\ retval = 0 => Earned /\ Measured(time)
  /\ pc = "receive" /\ answer # MAX => Earned /\ Measured(answer)

\* An item that left something behind has failed, and no other command has been
\* left unwaited for while the item goes on.
LeftInv ==
  /\ NoneLeftBehind
  /\ behind \subseteq 1 .. item
  /\ OneZombiePerItem
  /\ pc \in {"item", "wait", "poll", "benchmark"} \/ (pc = "returned" /\ retval = 0)
       => zombies < item

-----------------------------------------------------------------------------
(* Values.                                                                 *)

LEMMA TimeoutType ==
  ASSUME TypeOK, NEW s \in Script
  PROVE  Timeout(s) \in Nat
BY CommandsAssumption DEF TypeOK, Timeout

LEMMA RepeatsType ==
  ASSUME TypeOK
  PROVE  NumRepeats \in Nat \ {0}
<1>1. config.benchmark_repeats \in Nat
  BY CommandsAssumption DEF TypeOK
<1> QED BY <1>1 DEF NumRepeats

\* The next sleep fits into the time that is left, and at most doubles.
LEMMA DelayBounds ==
  ASSUME NEW left \in Nat, NEW d \in Nat
  PROVE  /\ NextDelay(left, d) \in Nat
         /\ NextDelay(left, d) <= left
         /\ NextDelay(left, d) <= Second
         /\ NextDelay(left, d) <= 2 * d
BY CommandsAssumption DEF NextDelay, Least

LEMMA Product ==
  ASSUME NEW a \in Nat, NEW b \in Nat
  PROVE  a * b \in Nat /\ (a > 0 /\ b > 0 => a * b >= 1)
<1>1. CASE a = 0 \/ b = 0
  BY <1>1
<1>2. CASE a > 0 /\ b > 0
  <2>1. \A x, y \in Nat : x > 0 /\ y > 0 => x * y >= 1
    OBVIOUS
  <2> QED BY <1>2, <2>1
<1> QED BY <1>1, <1>2

\* A command starts with all its time, and a sleep that fits into it.
LEMMA RunStarts ==
  ASSUME TypeOK, NEW s \in Script, Run(s), config' = config
  PROVE  /\ script' = s /\ pc' = "wait" /\ now' = 0 /\ wake' = 0 /\ delay' = 1
         /\ timeout_ms' = Second * Timeout(s) /\ Timeout(s)' = Timeout(s)
         /\ timeout_ms' \in Nat
         /\ Timeout(s) > 0 => delay' <= timeout_ms'
         /\ child' = [leader |-> "running", at |-> 0, rest |-> FALSE]
<1>1. Second \in Nat \ {0} /\ Timeout(s) \in Nat
  BY CommandsAssumption, TimeoutType
<1>2. Second * Timeout(s) \in Nat /\ (Timeout(s) > 0 => Second * Timeout(s) >= 1)
  BY <1>1, Product
<1>3. Timeout(s)' = Timeout(s)
  BY DEF Timeout
<1> QED BY <1>2, <1>3 DEF Run

-----------------------------------------------------------------------------
(* Types.                                                                  *)

LEMMA NextTyped == Typed /\ [Next]_vars => Typed'
<1> SUFFICES ASSUME Typed, [Next]_vars PROVE Typed'
  OBVIOUS
<1> USE DEF Typed, Running
<1>0. /\ TypeOK /\ Timeout(script) \in Nat /\ MaxItems \in Nat
      /\ {"clean", "build", "accuracy_test", "perf_test"} \subseteq Script
  BY TimeoutType, CommandsAssumption DEF TypeOK, Script
\* A step that starts a command.
<1>1. ASSUME NEW s \in Script, Run(s), UNCHANGED <<config, stop_work, item, took, ran, behind, zombies>>,
             item # 0, retval' \in {-1, 0, 1}, values' \in Seq(Nat)
      PROVE  Typed'
  <2>1. child' \in [leader : {"none", "running", "killed"} \cup Ended, at : Nat, rest : BOOLEAN]
    <3>1. child' = [leader |-> "running", at |-> 0, rest |-> FALSE]
      BY <1>1 DEF Run
    <3> QED BY <3>1
  <2> QED BY <1>0, <1>1, <2>1, RunStarts DEF TypeOK, Sleeps
\* A step that ends one.
<1>2. ASSUME NEW status \in {-1, 0, 1}, Return(status), pc = "wait",
             child' \in [leader : {"none", "running", "killed"} \cup Ended, at : Nat, rest : BOOLEAN],
             ran' \in Seq(Script), behind' \subseteq 1 .. MaxItems, zombies' \in Nat
      PROVE  Typed'
  BY <1>0, <1>2 DEF Return, clock, TypeOK, Sleeps
<1>3. item # 0 /\ pc # "receive" => {item} \subseteq 1 .. MaxItems
  BY <1>0 DEF TypeOK
<1>4. \A c \in Script : Append(ran, c) \in Seq(Script)
  BY <1>0 DEF TypeOK
<1>5. CASE RefuseToWait
  <2>1. behind' \subseteq behind \cup {item} /\ zombies' = zombies + 1
    BY <1>5 DEF RefuseToWait
  <2>2. {item} \subseteq 1 .. MaxItems
    BY <1>0, <1>3, <1>5 DEF RefuseToWait, Sleeps
  <2>3. behind' \subseteq 1 .. MaxItems /\ zombies' \in Nat
    BY <1>0, <2>1, <2>2 DEF TypeOK
  <2> QED BY <1>0, <1>2, <1>5, <2>3 DEF RefuseToWait, TypeOK
<1>6. CASE Reap
  <2>1. child' \in [leader : {"none", "running", "killed"} \cup Ended, at : Nat, rest : BOOLEAN]
    BY <1>0, <1>6 DEF Reap, TypeOK
  <2>2. ran' \in Seq(Script)
    BY <1>0, <1>4, <1>6 DEF Reap, TypeOK
  <2> QED BY <1>0, <1>2, <1>6, <2>1, <2>2 DEF Reap, TypeOK
<1>7. CASE ReapSignalled
  BY <1>0, <1>2, <1>3, <1>7 DEF ReapSignalled, TypeOK, Sleeps
<1>8. CASE TimeOut
  <2>1. child' \in [leader : {"none", "running", "killed"} \cup Ended, at : Nat, rest : BOOLEAN]
    BY <1>0, <1>8 DEF TimeOut, TypeOK
  <2> QED BY <1>0, <1>2, <1>8, <2>1 DEF TimeOut, TypeOK
<1>9. CASE Poll
  <2>1. now \in Nat /\ delay \in Nat /\ timeout_ms \in Nat /\ delay <= timeout_ms
    BY <1>0, <1>9 DEF Poll, TypeOK, Sleeps
  <2>2. wake' \in Nat /\ timeout_ms' \in Nat /\ delay' \in Nat /\ delay' <= timeout_ms'
    BY <1>9, <2>1, DelayBounds DEF Poll
  <2> QED BY <1>0, <1>9, <2>2 DEF Poll, result, history, TypeOK, Sleeps
<1>10. CASE Wake
  BY <1>0, <1>10 DEF Wake, result, history, TypeOK, Sleeps, Timeout
<1>11. CASE ChildEnds
  <2>1. PICK how \in Ended, rest \in BOOLEAN, at \in now .. wake :
          child' = [leader |-> how, at |-> at, rest |-> rest]
    BY <1>11 DEF ChildEnds
  <2>2. at \in Nat
    BY <1>0, <2>1 DEF TypeOK
  <2>3. child' \in [leader : {"none", "running", "killed"} \cup Ended, at : Nat, rest : BOOLEAN]
    BY <2>1, <2>2
  <2> QED BY <1>0, <1>11, <2>3 DEF ChildEnds, clock, result, history, TypeOK, Sleeps, Timeout
<1>12. CASE ReceiveWork
  BY <1>0, <1>12 DEF ReceiveWork, clock, result, TypeOK, Sleeps
<1>13. CASE Prologue
  BY <1>0, <1>1, <1>13 DEF Prologue, result, history, TypeOK, Sleeps
<1>14. CASE NextScript
  BY <1>0, <1>1, <1>14 DEF NextScript, result, history, TypeOK, Sleeps
<1>15. CASE PrologueDone
  BY <1>0, <1>15 DEF PrologueDone, clock, result, history, TypeOK, Sleeps
<1>16. CASE PrologueFails
  BY <1>0, <1>16 DEF PrologueFails, clock, result, history, TypeOK, Sleeps
<1>17. CASE Benchmark
  <2>1. CASE stop_work
    BY <1>0, <1>17, <2>1 DEF Benchmark, clock, history, TypeOK, Sleeps
  <2>2. CASE ~stop_work
    BY <1>0, <1>1, <1>17, <2>2 DEF Benchmark, history, TypeOK, Sleeps
  <2> QED BY <2>1, <2>2
<1>18. CASE Measure
  <2>1. values' \in Seq(Nat)
    BY <1>0, <1>18 DEF Measure, TypeOK
  <2>2. CASE Run("perf_test")
    BY <1>0, <1>1, <1>18, <2>1, <2>2 DEF Measure, result, history, TypeOK, Sleeps
  <2>3. CASE ~Run("perf_test")
    BY <1>0, <1>18, <2>1, <2>3 DEF Measure, clock, result, history, TypeOK, Sleeps
  <2> QED BY <2>2, <2>3
<1>19. CASE BenchmarkFails
  BY <1>0, <1>19 DEF BenchmarkFails, clock, result, history, TypeOK, Sleeps
<1>20. CASE Send
  BY <1>0, <1>20 DEF Send, clock, result, history, TypeOK, Sleeps
<1>21. CASE Leave
  BY <1>0, <1>21 DEF Leave, clock, result, history, TypeOK, Sleeps
<1>22. CASE QuitSignal
  <2>1. wake' \in Nat
    BY <1>0, <1>22 DEF QuitSignal, TypeOK
  <2> QED BY <1>0, <1>22, <2>1 DEF QuitSignal, result, history, TypeOK, Sleeps, Timeout
<1>23. CASE UNCHANGED vars
  BY <1>0, <1>23 DEF vars, clock, result, history, TypeOK, Sleeps, Timeout
<1> QED BY <1>5, <1>6, <1>7, <1>8, <1>9, <1>10, <1>11, <1>12, <1>13, <1>14, <1>15, <1>16, <1>17,
           <1>18, <1>19, <1>20, <1>21, <1>22, <1>23 DEF Next, WaitStep, ItemStep, Finished

LEMMA InitTyped == Init => Typed
<1> SUFFICES ASSUME Init PROVE Typed
  OBVIOUS
<1>1. child \in [leader : {"none", "running", "killed"} \cup Ended, at : Nat, rest : BOOLEAN]
  <2>1. child = [leader |-> "none", at |-> 0, rest |-> FALSE]
    BY DEF Init
  <2> QED BY <2>1
<1>2. values \in Seq(Nat) /\ ran \in Seq(Script)
  <2>1. values = <<>> /\ ran = <<>>
    BY DEF Init
  <2> QED BY <2>1
<1>3. /\ config \in [timeout : Timeouts, benchmark_timeout : BenchmarkTimeouts,
                     benchmark_repeats : Repeats]
      /\ stop_work = FALSE /\ pc = "receive" /\ item = 0 /\ script = "clean"
      /\ now = 0 /\ wake = 0 /\ timeout_ms = 0 /\ delay = 1 /\ retval = -1 /\ took = 0
      /\ behind = {} /\ zombies = 0
  BY DEF Init
<1>4. item \in 0 .. MaxItems /\ behind \subseteq 1 .. MaxItems
  BY <1>3, CommandsAssumption
<1>5. Sleeps
  BY <1>3 DEF Sleeps, Running
<1>6. TypeOK
  BY <1>1, <1>2, <1>3, <1>4 DEF TypeOK, Script
<1> QED BY <1>5, <1>6 DEF Typed

\* The variables keep their types; in particular the time that is left never
\* falls below zero.
THEOREM TypeCorrect == Spec => []TypeOK
<1>1. Typed => TypeOK
  BY DEF Typed
<1> QED BY <1>1, InitTyped, NextTyped, PTL DEF Spec

-----------------------------------------------------------------------------
(* Time.                                                                   *)

LEMMA NextClock == Typed /\ Typed' /\ ClockInv /\ [Next]_vars => ClockInv'
<1> SUFFICES ASSUME Typed, Typed', ClockInv, [Next]_vars PROVE ClockInv'
  OBVIOUS
<1>0. /\ TypeOK /\ Timeout(script) \in Nat /\ Second \in Nat
      /\ now \in Nat /\ wake \in Nat /\ delay \in Nat /\ timeout_ms \in Nat
      /\ {"clean", "build", "accuracy_test", "perf_test"} \subseteq Script
  BY TimeoutType, CommandsAssumption DEF Typed, TypeOK, Script
<1>1. ASSUME NEW s \in Script, Run(s), config' = config
      PROVE  ClockInv'
  <2>1. /\ pc' = "wait" /\ now' = 0 /\ wake' = 0 /\ child'.leader = "running"
        /\ timeout_ms' = Second * Timeout(s) /\ Timeout(script)' = Timeout(s) /\ timeout_ms' \in Nat
    BY <1>0, <1>1, RunStarts DEF Timeout
  <2> QED BY <2>1 DEF ClockInv, Running
<1>2. ASSUME NEW status, Return(status), pc = "wait",
             child'.leader = "killed" => (~stop_work => now = Second * Timeout(script))
      PROVE  ClockInv'
  BY <1>2 DEF Return, clock, ClockInv, Running, Timeout
<1>3. CASE RefuseToWait \/ Reap \/ ReapSignalled
  <2>1. Running /\ child'.leader = child.leader
    BY <1>0, <1>3 DEF RefuseToWait, Reap, ReapSignalled, Running, TypeOK
  <2>2. child'.leader # "killed"
    BY <2>1 DEF ClockInv, Ended
  <2> QED BY <1>2, <1>3, <2>2 DEF RefuseToWait, Reap, ReapSignalled
<1>4. CASE TimeOut
  <2>1. timeout_ms = 0 /\ wake = now
    BY <1>0, <1>4 DEF TimeOut, Expired, ClockInv
  <2>2. ~stop_work => now = Second * Timeout(script)
    BY <1>0, <1>4, <2>1 DEF TimeOut, ClockInv, Running
  <2> QED BY <1>2, <1>4, <2>2 DEF TimeOut
<1>5. CASE Poll
  <2>1. wake' = now + delay /\ timeout_ms' = timeout_ms - delay /\ now = wake
    BY <1>5 DEF Poll, ClockInv
  <2>2. wake' + timeout_ms' = wake + timeout_ms /\ now <= wake'
    BY <1>0, <2>1
  <2>3. child'.leader = "running" /\ pc' = "poll" /\ Timeout(script)' = Timeout(script)
        /\ now' = now /\ stop_work' = stop_work /\ Running
    BY <1>5 DEF Poll, Timeout, Running
  <2> QED BY <2>2, <2>3 DEF ClockInv, Running
<1>6. CASE Wake
  <2>1. /\ pc' = "wait" /\ now' = wake /\ UNCHANGED <<child, stop_work, wake, timeout_ms>>
        /\ Timeout(script)' = Timeout(script) /\ Running
    BY <1>6 DEF Wake, history, Timeout, Running
  <2>2. child.leader # "killed"
    BY <2>1 DEF ClockInv, Ended
  <2> QED BY <1>0, <2>1, <2>2 DEF ClockInv, Running
<1>7. CASE ChildEnds
  <2>1. child'.leader \in Ended
    BY <1>7 DEF ChildEnds
  <2> QED BY <1>7, <2>1 DEF ChildEnds, clock, ClockInv, Running, Timeout, Ended
<1>8. CASE QuitSignal
  <2>1. now <= wake' /\ (pc = "wait" => wake' = wake)
    BY <1>0, <1>8 DEF QuitSignal, ClockInv
  <2> QED BY <1>8, <2>1 DEF QuitSignal, ClockInv, Running
<1>10. CASE ReceiveWork \/ PrologueDone \/ PrologueFails \/ BenchmarkFails \/ Send \/ Leave
  BY <1>10 DEF ReceiveWork, PrologueDone, PrologueFails, BenchmarkFails, Send, Leave,
               clock, ClockInv, Running, Timeout
<1>11. CASE Prologue \/ NextScript
  BY <1>0, <1>1, <1>11 DEF Prologue, NextScript
<1>12. CASE Benchmark
  BY <1>0, <1>1, <1>12 DEF Benchmark, clock, ClockInv, Running, Timeout
<1>13. CASE Measure
  BY <1>0, <1>1, <1>13 DEF Measure, clock, ClockInv, Running, Timeout
<1>14. CASE UNCHANGED vars
  BY <1>14 DEF vars, clock, ClockInv, Running, Timeout
<1> QED BY <1>3, <1>4, <1>5, <1>6, <1>7, <1>8, <1>10, <1>11, <1>12, <1>13, <1>14
       DEF Next, WaitStep, ItemStep, Finished

LEMMA InitClock == Init => ClockInv
<1> SUFFICES ASSUME Init PROVE ClockInv
  OBVIOUS
<1>1. child.leader = "none" /\ now = 0 /\ wake = 0 /\ pc = "receive"
  BY DEF Init
<1> QED BY <1>1 DEF ClockInv, Running

\* A command never runs longer than its timeout, whatever the timeout and the
\* sleeps in between.
THEOREM CommandsAreKilledInTime == Spec => []KilledInTime
<1>1. Typed /\ ClockInv => KilledInTime
  <2> SUFFICES ASSUME Typed, ClockInv PROVE KilledInTime
    OBVIOUS
  <2>1. now \in Nat /\ wake \in Nat /\ timeout_ms \in Nat
    BY DEF Typed, TypeOK
  <2>2. Second * Timeout(script) \in Nat
    BY TimeoutType, Product, CommandsAssumption DEF Typed, TypeOK
  <2> QED BY <2>1, <2>2 DEF ClockInv, KilledInTime, Running
<1> QED BY <1>1, InitTyped, NextTyped, InitClock, NextClock, PTL DEF Spec

LEMMA NextLook == Typed /\ Typed' /\ ClockInv /\ LookInv /\ [Next]_vars => LookInv'
<1> SUFFICES ASSUME Typed, Typed', ClockInv, LookInv, [Next]_vars PROVE LookInv'
  OBVIOUS
<1>0. /\ TypeOK /\ Second \in Nat \ {0}
      /\ now \in Nat /\ wake \in Nat /\ delay \in Nat /\ timeout_ms \in Nat /\ took \in Nat
      /\ child.at \in Nat
      /\ {"clean", "build", "accuracy_test", "perf_test"} \subseteq Script
  BY CommandsAssumption DEF Typed, TypeOK, Script
<1>1. ASSUME NEW s \in Script, Run(s), config' = config
      PROVE  LookInv'
  <2>1. pc' = "wait" /\ now' = 0 /\ wake' = 0 /\ delay' = 1 /\ child'.leader = "running"
    BY <1>0, <1>1, RunStarts
  <2>2. delay' <= wake' + 1 /\ delay' <= Second /\ wake' <= 2 * now' + 1 /\ wake' <= now' + Second
    BY <1>0, <2>1
  <2> QED BY <2>1, <2>2 DEF LookInv, TimeIsClose, Ended
<1>2. ASSUME Return(-1) \/ Return(1)
      PROVE  LookInv'
  <2>1. pc' = "returned" /\ retval' # 0
    BY <1>2 DEF Return
  <2> QED BY <2>1 DEF LookInv, TimeIsClose, Running
<1>3. CASE RefuseToWait \/ ReapSignalled \/ TimeOut
  BY <1>2, <1>3 DEF RefuseToWait, ReapSignalled, TimeOut
<1>4. CASE Reap
  <2>1. CASE child.leader = "failed"
    BY <1>2, <1>4, <2>1 DEF Reap
  <2>2. CASE child.leader = "exited"
    <3>1. /\ pc' = "returned" /\ took' = now /\ child'.at = child.at /\ stop_work' = stop_work
          /\ Running /\ now = wake
      BY <1>0, <1>4, <2>2 DEF Reap, Return, Running, TypeOK, ClockInv
    <3>2. child.at <= wake /\ (~stop_work => wake <= 2 * child.at + 1 /\ wake <= child.at + Second)
      BY <2>2, <3>1 DEF LookInv, Ended
    <3> QED BY <3>1, <3>2 DEF LookInv, TimeIsClose, Running
  <2> QED BY <1>4, <2>1, <2>2 DEF Reap
<1>5. CASE Poll
  <2>1. /\ pc' = "poll" /\ wake' = now + delay /\ delay' = NextDelay(timeout_ms - delay, delay)
        /\ now' = now /\ child'.leader = "running" /\ stop_work' = stop_work /\ now = wake /\ Running
        /\ delay <= timeout_ms
    BY <1>5 DEF Poll, ClockInv, Running, Typed, Sleeps
  <2>2. delay' \in Nat /\ delay' <= Second /\ delay' <= 2 * delay
    BY <1>0, <2>1, DelayBounds
  <2>3. ~stop_work => delay <= wake + 1 /\ delay <= Second
    BY <2>1 DEF LookInv
  <2>4. ~stop_work => /\ delay' <= wake' + 1 /\ delay' <= Second
                      /\ wake' <= 2 * now' + 1 /\ wake' <= now' + Second
    BY <1>0, <2>1, <2>2, <2>3
  <2> QED BY <2>1, <2>4 DEF LookInv, TimeIsClose, Running, Ended
<1>6. CASE Wake
  <2>1. /\ pc' = "wait" /\ now' = wake /\ Running
        /\ UNCHANGED <<child, stop_work, wake, delay>>
    BY <1>6 DEF Wake, history, Running
  <2>2. ~stop_work => wake' <= 2 * now' + 1 /\ wake' <= now' + Second
    BY <1>0, <2>1
  <2> QED BY <2>1, <2>2 DEF LookInv, TimeIsClose, Running
<1>7. CASE ChildEnds
  <2>1. /\ child'.at \in now .. wake /\ Running
        /\ UNCHANGED <<pc, stop_work, now, wake, delay>>
    BY <1>7 DEF ChildEnds, clock, Running
  <2>2. ~stop_work => wake <= 2 * now + 1 /\ wake <= now + Second
    BY <2>1 DEF LookInv
  <2>3. /\ child'.at <= wake
        /\ ~stop_work => wake <= 2 * child'.at + 1 /\ wake <= child'.at + Second
    BY <1>0, <2>1, <2>2
  <2> QED BY <2>1, <2>3 DEF LookInv, TimeIsClose, Running
<1>8. CASE QuitSignal
  <2>1. stop_work' /\ child.at <= wake' /\ child' = child /\ pc' = pc
    BY <1>8 DEF QuitSignal
  <2> QED BY <2>1 DEF LookInv, TimeIsClose
<1>9. CASE Prologue \/ NextScript
  BY <1>0, <1>1, <1>9 DEF Prologue, NextScript
<1>10. CASE ReceiveWork \/ PrologueDone \/ PrologueFails \/ BenchmarkFails \/ Send \/ Leave
  BY <1>10 DEF ReceiveWork, PrologueDone, PrologueFails, BenchmarkFails, Send, Leave,
               LookInv, TimeIsClose, Running
<1>11. CASE Benchmark
  BY <1>0, <1>1, <1>11 DEF Benchmark, LookInv, TimeIsClose, Running
<1>12. CASE Measure
  BY <1>0, <1>1, <1>12 DEF Measure, LookInv, TimeIsClose, Running
<1>13. CASE UNCHANGED vars
  BY <1>13 DEF vars, clock, result, LookInv, TimeIsClose, Running
<1> QED BY <1>3, <1>4, <1>5, <1>6, <1>7, <1>8, <1>9, <1>10, <1>11, <1>12, <1>13
       DEF Next, WaitStep, ItemStep, Finished

\* The time a command is said to take is never too short, and too long by less
\* than the command took and by a second at most, for any unit of time.
THEOREM TimesAreClose == Spec => []TimeIsClose
<1>1. Init => LookInv
  <2> SUFFICES ASSUME Init PROVE LookInv
    OBVIOUS
  <2>1. pc = "receive"
    BY DEF Init
  <2> QED BY <2>1 DEF LookInv, TimeIsClose, Running
<1>2. LookInv => TimeIsClose
  BY DEF LookInv
<1> QED BY <1>1, <1>2, InitTyped, NextTyped, InitClock, NextClock, NextLook, PTL DEF Spec

-----------------------------------------------------------------------------
(* What is left behind.                                                    *)

LEMMA NextLeft == Typed /\ Typed' /\ LeftInv /\ [Next]_vars => LeftInv'
<1> SUFFICES ASSUME Typed, Typed', LeftInv, [Next]_vars PROVE LeftInv'
  OBVIOUS
<1> USE DEF NoneLeftBehind, OneZombiePerItem
<1>0. /\ item \in Nat /\ zombies \in Nat /\ zombies <= item /\ behind \subseteq 1 .. item
      /\ pc # "receive" => item \in 1 .. item
  BY DEF Typed, TypeOK, Sleeps, LeftInv
\* A step of an item that has not failed: nothing is left behind.
<1>1. ASSUME pc \in {"item", "wait", "poll", "benchmark"} \/ (pc = "returned" /\ retval = 0)
      PROVE  item \notin behind /\ zombies < item
  BY <1>1 DEF LeftInv
\* A command ends.
<1>2. ASSUME pc = "wait", NEW status, Return(status), status # 0,
             behind' \subseteq behind \cup {item}, zombies' \in {zombies, zombies + 1}
      PROVE  LeftInv'
  <2>1. zombies' <= item /\ behind' \subseteq 1 .. item
    BY <1>0, <1>1, <1>2
  <2> QED BY <1>2, <2>1 DEF Return, LeftInv
<1>3. CASE RefuseToWait
  <2>1. pc = "wait" /\ Return(-1) /\ behind' \subseteq behind \cup {item} /\ zombies' = zombies + 1
    BY <1>3 DEF RefuseToWait
  <2> QED BY <1>2, <2>1
<1>4. CASE Reap
  <2>1. item \notin behind /\ zombies < item
    BY <1>1, <1>4 DEF Reap
  <2> QED BY <1>0, <1>4, <2>1 DEF Reap, Return, LeftInv
<1>5. CASE ReapSignalled
  <2>1. pc = "wait" /\ Return(-1) /\ behind' \subseteq behind \cup {item} /\ zombies' = zombies
    BY <1>5 DEF ReapSignalled
  <2> QED BY <1>2, <2>1
<1>6. CASE TimeOut
  <2>1. pc = "wait" /\ Return(-1) /\ behind' = behind /\ zombies' = zombies + 1
    BY <1>6 DEF TimeOut
  <2> QED BY <1>2, <2>1
<1>7. CASE Poll \/ Wake \/ ChildEnds
  BY <1>1, <1>7 DEF Poll, Wake, ChildEnds, result, history, LeftInv
<1>8. CASE ReceiveWork
  <2>1. item' = item + 1 /\ pc' = "item" /\ UNCHANGED <<behind, zombies>>
    BY <1>8 DEF ReceiveWork
  <2>2. item' \notin behind' /\ zombies' < item' /\ behind' \subseteq 1 .. item'
    BY <1>0, <2>1
  <2> QED BY <1>0, <2>1, <2>2 DEF LeftInv
<1>9. CASE Prologue \/ NextScript \/ PrologueDone
  BY <1>0, <1>1, <1>9 DEF Prologue, NextScript, PrologueDone, Run, result, history, LeftInv
<1>10. CASE PrologueFails \/ BenchmarkFails \/ Send
  BY <1>10 DEF PrologueFails, BenchmarkFails, Send, result, history, LeftInv
<1>11. CASE Benchmark
  BY <1>0, <1>1, <1>11 DEF Benchmark, Run, history, LeftInv
<1>12. CASE Measure
  BY <1>0, <1>1, <1>12 DEF Measure, Run, result, history, LeftInv
<1>13. CASE Leave
  BY <1>0, <1>1, <1>13 DEF Leave, result, history, LeftInv
<1>14. CASE QuitSignal \/ UNCHANGED vars
  BY <1>14 DEF QuitSignal, vars, result, history, LeftInv
<1> QED BY <1>3, <1>4, <1>5, <1>6, <1>7, <1>8, <1>9, <1>10, <1>11, <1>12, <1>13, <1>14
       DEF Next, WaitStep, ItemStep, Finished

LEMMA LeftAlways == Spec => []LeftInv
<1>1. Init => LeftInv
  BY DEF Init, LeftInv, NoneLeftBehind, OneZombiePerItem
<1> QED BY <1>1, InitTyped, NextTyped, NextLeft, PTL DEF Spec

\* An item that left a process running has failed and runs nothing more.
THEOREM LeftBehindMeansFailed == Spec => []NoneLeftBehind
<1>1. LeftInv => NoneLeftBehind
  BY DEF LeftInv
<1> QED BY <1>1, LeftAlways, PTL

\* At most one shell of each item is never waited for.
THEOREM ZombiesAreFew == Spec => []OneZombiePerItem
<1>1. LeftInv => OneZombiePerItem
  BY DEF LeftInv
<1> QED BY <1>1, LeftAlways, PTL

-----------------------------------------------------------------------------
(* What an answer stands for.                                              *)

\* The k benchmarks of an item.
LEMMA Benchmarks ==
  ASSUME NEW k \in Nat
  PROVE  LET b == [j \in 1 .. k |-> "perf_test"]
         IN  b \in Seq(Script) /\ Len(b) = k
BY DEF Script

\* A sequence that is another and one element more.
LEMMA AppendEquals ==
  ASSUME NEW S, NEW s \in Seq(S), NEW c \in S, NEW t \in Seq(S),
         Len(t) = Len(s) + 1, t[Len(s) + 1] = c, \A i \in 1 .. Len(s) : t[i] = s[i]
  PROVE  Append(s, c) = t
<1> DEFINE u == Append(s, c)
<1>1. /\ u \in Seq(S) /\ Len(u) = Len(s) + 1 /\ u[Len(s) + 1] = c
      /\ \A i \in 1 .. Len(s) : u[i] = s[i]
  BY AppendProperties
<1>2. Len(s) \in Nat
  BY LenProperties
<1> HIDE DEF u
<1>3. ASSUME NEW i \in 1 .. Len(u) PROVE u[i] = t[i]
  <2>1. i \in 1 .. Len(s) \/ i = Len(s) + 1
    BY <1>1, <1>2
  <2> QED BY <1>1, <2>1
<1>4. u = t
  BY <1>1, <1>3, SeqEqual
<1> QED BY <1>4 DEF u

\* The history before a script, and after it, when it exited with 0.
LEMMA EarlierSteps ==
  ASSUME NEW k \in Nat
  PROVE  /\ Append(Earlier("clean", k), "clean") = Earlier("build", k)
         /\ Append(Earlier("build", k), "build") = Earlier("accuracy_test", k)
         /\ Append(Earlier("accuracy_test", k), "accuracy_test") = Earlier("perf_test", 0)
         /\ Append(Earlier("perf_test", k), "perf_test") = Earlier("perf_test", k + 1)
<1> DEFINE C == <<"clean">>
           D == <<"clean", "build">>
           P == <<"clean", "build", "accuracy_test">>
           B(n) == [j \in 1 .. n |-> "perf_test"]
<1>1. /\ C \in Seq(Script) /\ Len(C) = 1 /\ C[1] = "clean"
      /\ D \in Seq(Script) /\ Len(D) = 2 /\ D[1] = "clean" /\ D[2] = "build"
      /\ P \in Seq(Script) /\ Len(P) = 3 /\ P[1] = "clean" /\ P[2] = "build"
      /\ P[3] = "accuracy_test"
      /\ "clean" \in Script /\ "build" \in Script /\ "accuracy_test" \in Script
      /\ "perf_test" \in Script
  BY DEF Script
<1>2. /\ Earlier("clean", k) = <<>> /\ Earlier("build", k) = C /\ Earlier("accuracy_test", k) = D
      /\ \A n \in Nat : Earlier("perf_test", n) = P \o B(n)
  BY DEF Earlier
<1>3. ASSUME NEW n \in Nat
      PROVE  B(n) \in Seq(Script) /\ Len(B(n)) = n /\ \A j \in 1 .. n : B(n)[j] = "perf_test"
  BY Benchmarks
<1>4. Append(<<>>, "clean") = C
  OBVIOUS
<1> HIDE DEF C, D, P, B
<1>5. Append(C, "build") = D
  <2>1. Len(D) = Len(C) + 1 /\ D[Len(C) + 1] = "build" /\ \A i \in 1 .. Len(C) : D[i] = C[i]
    BY <1>1
  <2> QED BY <1>1, <2>1, AppendEquals
<1>6. Append(D, "accuracy_test") = P \o B(0)
  <2>1. /\ Len(P) = Len(D) + 1 /\ P[Len(D) + 1] = "accuracy_test"
        /\ \A i \in 1 .. Len(D) : P[i] = D[i]
    BY <1>1
  <2>2. Append(D, "accuracy_test") = P
    BY <1>1, <2>1, AppendEquals
  <2>3. B(0) = <<>>
    BY <1>3, EmptySeq
  <2>4. P \o <<>> = P
    BY <1>1, ConcatEmptySeq
  <2> QED BY <2>2, <2>3, <2>4
<1>7. Append(P \o B(k), "perf_test") = P \o B(k + 1)
  <2>0. k + 1 \in Nat
    OBVIOUS
  <2> DEFINE b == B(k)
             d == B(k + 1)
             s == P \o b
             t == P \o d
  <2>1. /\ b \in Seq(Script) /\ Len(b) = k /\ \A j \in 1 .. k : b[j] = "perf_test"
        /\ d \in Seq(Script) /\ Len(d) = k + 1 /\ \A j \in 1 .. k + 1 : d[j] = "perf_test"
    BY <1>3, <2>0
  <2> HIDE DEF b, d
  <2>10. P \in Seq(Script) /\ b \in Seq(Script) /\ d \in Seq(Script)
    BY <1>1, <2>1
  <2>2. /\ s \in Seq(Script) /\ Len(s) = Len(P) + Len(b)
        /\ \A i \in 1 .. Len(P) + Len(b) : s[i] = IF i <= Len(P) THEN P[i] ELSE b[i - Len(P)]
    BY <2>10, ConcatProperties, Zenon
  <2>3. /\ t \in Seq(Script) /\ Len(t) = Len(P) + Len(d)
        /\ \A i \in 1 .. Len(P) + Len(d) : t[i] = IF i <= Len(P) THEN P[i] ELSE d[i - Len(P)]
    BY <2>10, ConcatProperties, Zenon
  <2> HIDE DEF s, t
  <2>4. Len(s) = 3 + k /\ Len(t) = Len(s) + 1
    BY <1>1, <2>1, <2>2, <2>3
  <2>5. t[Len(s) + 1] = "perf_test"
    <3>1. Len(s) + 1 \in 1 .. Len(P) + Len(d) /\ ~(Len(s) + 1 <= Len(P)) /\ Len(s) + 1 - Len(P) = k + 1
      BY <1>1, <2>1, <2>4
    <3>2. t[Len(s) + 1] = d[Len(s) + 1 - Len(P)]
      BY <2>3, <3>1
    <3> QED BY <2>0, <2>1, <3>1, <3>2
  <2>6. ASSUME NEW i \in 1 .. Len(s) PROVE t[i] = s[i]
    <3>1. i \in 1 .. Len(P) + Len(b) /\ i \in 1 .. Len(P) + Len(d)
      BY <1>1, <2>1, <2>4
    <3>2. CASE i <= Len(P)
      BY <2>2, <2>3, <3>1, <3>2
    <3>3. CASE ~(i <= Len(P))
      <4>1. i - Len(P) \in 1 .. k /\ i - Len(P) \in 1 .. k + 1
        BY <1>1, <2>4, <3>3
      <4>2. s[i] = b[i - Len(P)] /\ t[i] = d[i - Len(P)]
        BY <2>2, <2>3, <3>1, <3>3
      <4> QED BY <2>1, <4>1, <4>2
    <3> QED BY <3>2, <3>3
  <2>7. Append(s, "perf_test") = t
    BY <1>1, <2>2, <2>3, <2>4, <2>5, <2>6, AppendEquals
  <2> QED BY <2>7 DEF s, t, b, d
<1>8. Earlier("perf_test", 0) = P \o B(0) /\ Earlier("perf_test", k) = P \o B(k)
      /\ Earlier("perf_test", k + 1) = P \o B(k + 1)
  <2>1. 0 \in Nat /\ k + 1 \in Nat
    OBVIOUS
  <2> QED BY <1>2, <2>1, Zenon
<1> QED BY <1>2, <1>4, <1>5, <1>6, <1>7, <1>8

LEMMA NextEarned == Typed /\ Typed' /\ EarnedInv /\ [Next]_vars => EarnedInv'
<1> SUFFICES ASSUME Typed, Typed', EarnedInv, [Next]_vars PROVE EarnedInv'
  OBVIOUS
<1>0. /\ TypeOK /\ TypeOK' /\ NumRepeats \in Nat \ {0} /\ Len(values) \in Nat
      /\ {"clean", "build", "accuracy_test", "perf_test"} \subseteq Script
  BY RepeatsType DEF Typed, TypeOK, Script
\* A command starts.
<1>1. ASSUME NEW s \in Script, Run(s), UNCHANGED <<config, ran>>,
             IF s = "perf_test" THEN Len(values') < NumRepeats ELSE values' = <<>>,
             ran = Earlier(s, Len(values'))
      PROVE  EarnedInv'
  <2>1. pc' = "wait" /\ script' = s /\ NumRepeats' = NumRepeats
    BY <1>1 DEF Run, NumRepeats
  <2> QED BY <1>1, <2>1 DEF EarnedInv, Running
\* It ends.
<1>2. ASSUME pc = "wait", NEW status, Return(status),
             ran' = IF status = 0 THEN Append(ran, script) ELSE ran
      PROVE  EarnedInv'
  <2>1. /\ pc' = "returned" /\ retval' = status /\ UNCHANGED <<script, values>>
        /\ NumRepeats' = NumRepeats
    BY <1>2 DEF Return, NumRepeats
  <2>2. /\ IF script = "perf_test" THEN Len(values) < NumRepeats ELSE values = <<>>
        /\ ran = Earlier(script, Len(values))
    BY <1>2 DEF EarnedInv, Running
  <2> QED BY <1>2, <2>1, <2>2 DEF EarnedInv, Running
<1>3. CASE RefuseToWait
  BY <1>2, <1>3 DEF RefuseToWait
<1>4. CASE Reap
  <2>1. CASE child.leader = "exited"
    BY <1>2, <1>4, <2>1 DEF Reap
  <2>2. CASE child.leader = "failed"
    BY <1>2, <1>4, <2>2 DEF Reap
  <2> QED BY <1>4, <2>1, <2>2 DEF Reap
<1>5. CASE ReapSignalled
  BY <1>2, <1>5 DEF ReapSignalled
<1>6. CASE TimeOut
  BY <1>2, <1>6 DEF TimeOut
<1>7. CASE Poll \/ Wake \/ ChildEnds
  BY <1>7 DEF Poll, Wake, ChildEnds, result, history, EarnedInv, Running, NumRepeats
<1>8. CASE ReceiveWork
  BY <1>8 DEF ReceiveWork, EarnedInv, Running
<1>9. CASE Prologue
  <2>1. values = <<>> /\ ran = <<>>
    BY <1>9 DEF Prologue, EarnedInv
  <2>2. Earlier("clean", Len(values)) = <<>>
    BY DEF Earlier
  <2> QED BY <1>0, <1>1, <1>9, <2>1, <2>2 DEF Prologue, history
<1>10. CASE NextScript
  <2>1. /\ pc = "returned" /\ retval = 0 /\ script \in {"clean", "build"}
        /\ UNCHANGED <<config, ran, values>>
    BY <1>10 DEF NextScript, history
  <2>2. values = <<>> /\ ran = Append(Earlier(script, Len(values)), script)
    BY <2>1 DEF EarnedInv
  <2>3. CASE script = "clean"
    <3>1. Run("build") /\ ran = Earlier("build", Len(values))
      BY <1>0, <1>10, <2>2, <2>3, EarlierSteps DEF NextScript
    <3> QED BY <1>0, <1>1, <2>1, <2>2, <3>1
  <2>4. CASE script = "build"
    <3>1. Run("accuracy_test") /\ ran = Earlier("accuracy_test", Len(values))
      BY <1>0, <1>10, <2>2, <2>4, EarlierSteps DEF NextScript
    <3> QED BY <1>0, <1>1, <2>1, <2>2, <3>1
  <2> QED BY <2>1, <2>3, <2>4
<1>11. CASE PrologueDone
  <2>1. values = <<>> /\ ran = Append(Earlier("accuracy_test", Len(values)), "accuracy_test")
    BY <1>11 DEF PrologueDone, EarnedInv
  <2>2. ran = Earlier("perf_test", 0)
    BY <1>0, <2>1, EarlierSteps
  <2> QED BY <1>11, <2>1, <2>2 DEF PrologueDone, history, EarnedInv, Running
<1>12. CASE PrologueFails \/ BenchmarkFails
  BY <1>12 DEF PrologueFails, BenchmarkFails, result, EarnedInv, Running
<1>13. CASE Benchmark
  <2>1. CASE stop_work
    BY <1>13, <2>1 DEF Benchmark, EarnedInv, Running
  <2>2. CASE ~stop_work
    <3>1. values = <<>> /\ ran = Earlier("perf_test", 0) /\ Len(values) = 0
      BY <1>13 DEF Benchmark, EarnedInv
    <3>2. Run("perf_test") /\ UNCHANGED <<config, ran, values>>
      BY <1>13, <2>2 DEF Benchmark, history
    <3>3. Len(values') < NumRepeats
      BY <1>0, <3>1, <3>2
    <3> QED BY <1>0, <1>1, <3>1, <3>2, <3>3
  <2> QED BY <2>1, <2>2
<1>14. CASE Measure
  <2> DEFINE i == Len(values)
             stop == Noisy(i, values') \/ i > 4
  <2>1. /\ pc = "returned" /\ script = "perf_test" /\ retval = 0
        /\ values' = Append(values, took) /\ UNCHANGED <<config, ran, retval>>
        /\ IF stop \/ i + 1 = NumRepeats
           THEN /\ time' = mean(IF stop THEN i ELSE i + 1, values')
                /\ pc' = "report"
           ELSE Run("perf_test")
    BY <1>14 DEF Measure, history, result
  <2>2. i < NumRepeats /\ ran = Append(Earlier("perf_test", i), "perf_test")
    BY <2>1 DEF EarnedInv
  <2>3. Len(values') = i + 1
    BY <1>0, <2>1, AppendProperties DEF TypeOK
  <2>4. ran = Earlier("perf_test", Len(values'))
    BY <1>0, <2>2, <2>3, EarlierSteps
  <2>5. CASE ~(stop \/ i + 1 = NumRepeats)
    <3>1. Len(values') < NumRepeats
      BY <1>0, <2>2, <2>3, <2>5
    <3> QED BY <1>0, <1>1, <2>1, <2>4, <2>5, <3>1
  <2>6. CASE stop \/ i + 1 = NumRepeats
    <3>1. stop => i >= 1
      BY <1>0 DEF Noisy
    <3> DEFINE n == IF stop THEN i ELSE i + 1
    <3>2. n \in 1 .. Len(values') /\ time' = mean(n, values')
      BY <1>0, <2>1, <2>3, <2>6, <3>1
    <3>3. Measured(time)'
      BY <3>2 DEF Measured, mean
    <3>4. Earned'
      <4>1. NumRepeats' = NumRepeats /\ Len(values') \in 1 .. NumRepeats
        BY <1>0, <2>1, <2>2, <2>3 DEF NumRepeats
      <4> QED BY <2>1, <2>4, <4>1 DEF Earned
    <3>5. pc' = "report"
      BY <2>1, <2>6
    <3> QED BY <3>3, <3>4, <3>5 DEF EarnedInv, Running
  <2> QED BY <2>5, <2>6
<1>15. CASE Send
  <2>1. /\ pc = "report" /\ pc' = "receive" /\ answer' = (IF retval # 0 THEN MAX ELSE time)
        /\ UNCHANGED <<config, values, ran>>
    BY <1>15 DEF Send, history
  <2>2. answer' # MAX => retval = 0 /\ answer' = time
    BY <2>1
  <2>3. retval = 0 => Earned /\ Measured(time)
    BY <2>1 DEF EarnedInv
  <2>4. Earned => Earned'
    BY <2>1 DEF Earned, NumRepeats
  <2>5. answer' = time /\ Measured(time) => Measured(answer)'
    BY <2>1 DEF Measured, mean
  <2> QED BY <2>1, <2>2, <2>3, <2>4, <2>5 DEF EarnedInv, Running
<1>16. CASE Leave
  BY <1>16 DEF Leave, EarnedInv, Running
<1>17. CASE QuitSignal \/ UNCHANGED vars
  <2>1. UNCHANGED <<config, pc, script, retval, values, time, answer, ran>>
    BY <1>17 DEF QuitSignal, vars, result, history
  <2> QED BY <2>1 DEF EarnedInv, Running, Earned, Measured, mean, NumRepeats
<1> QED BY <1>3, <1>4, <1>5, <1>6, <1>7, <1>8, <1>9, <1>10, <1>11, <1>12, <1>13, <1>14, <1>15,
           <1>16, <1>17 DEF Next, WaitStep, ItemStep, Finished

LEMMA EarnedAlways == Spec => []EarnedInv
<1>1. Init => EarnedInv
  BY DEF Init, EarnedInv, Running
<1> QED BY <1>1, InitTyped, NextTyped, NextEarned, PTL DEF Spec

\* A fitness other than DBL_MAX was earned by the item's own scripts and
\* benchmarks, for any number of repeats and items.
THEOREM AnswersAreEarned == Spec => []AnswerIsEarned
<1>1. Typed /\ EarnedInv => AnswerIsEarned
  <2> SUFFICES ASSUME Typed, EarnedInv, Answered, answer # MAX
               PROVE  /\ Len(values) \in 1 .. NumRepeats
                      /\ ran = <<"clean", "build", "accuracy_test">>
                                 \o [k \in DOMAIN values |-> "perf_test"]
    BY DEF AnswerIsEarned
  <2>1. Earned
    BY DEF EarnedInv, Answered
  <2>2. DOMAIN values = 1 .. Len(values)
    BY DEF Typed, TypeOK
  <2> QED BY <2>1, <2>2 DEF Earned, Earlier
<1> QED BY <1>1, InitTyped, NextTyped, EarnedAlways, PTL DEF Spec

\* It is the mean of times that were measured, whatever the epsilon.
THEOREM AnswersAreMeasured == Spec => []AnswerIsMeasured
<1>1. EarnedInv => AnswerIsMeasured
  BY DEF EarnedInv, AnswerIsMeasured, Answered, Measured
<1> QED BY <1>1, EarnedAlways, PTL
=============================================================================

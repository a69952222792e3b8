------------------------------- MODULE Commands -------------------------------
(***************************************************************************)
(* What a worker does with one work item: the worker's loop, prologue()    *)
(* and benchmark() of src/src/taskfarm.c on top of run_command() and       *)
(* waitid_timeout() of src/src/common.c.                                   *)
(*                                                                         *)
(* A command is a shell in a process group of its own, which ends by       *)
(* itself or never.  The worker looks at it, sleeps, looks again, and      *)
(* kills the group when the time is over; its clock counts the 10 ms of    *)
(* the first sleep as 1.  A fitness is a mean <<sum, number>> of times.    *)
(*                                                                         *)
(* A definition marked "A fault" is used by no action: it is the operator  *)
(* after it with a plausible bug, which some property must detect.         *)
(***************************************************************************)
EXTENDS Integers, Sequences, SequencesExt

CONSTANTS
  Second,             \* max_delay, in units of the first delay: 100 in the code
  Timeouts,           \* what config->timeout may be, in seconds
  BenchmarkTimeouts,  \* the same of config->benchmark_timeout
  Repeats,            \* the same of config->benchmark_repeats
  Epsilon,            \* config->epsilon, a percentage
  MaxItems            \* bound: items the master sends

ASSUME CommandsAssumption ==
  /\ Second \in Nat \ {0}
  /\ Timeouts \subseteq Nat
  /\ BenchmarkTimeouts \subseteq Nat
  /\ Repeats \subseteq Nat
  /\ Epsilon \in Nat
  /\ MaxItems \in Nat

VARIABLES
  config,     \* timeout, benchmark_timeout, benchmark_repeats
  stop_work,  \* set by the signal handler
  pc,         \* the place in worker(), prologue(), benchmark() and waitid_timeout()
  item,       \* number of the work item
  script,     \* the command being run
  child,      \* its shell: leader, at (the time it ended), rest (of the group still runs)
  now, wake,  \* the time since the shell was started; when poll() returns
  timeout_ms, delay,
  retval, took,  \* result of run_command
  values,     \* of benchmark()
  time,
  answer,     \* what the master was sent for the item
  ran,        \* history: the commands of the item that exited with 0
  behind,     \* items of which a process was left running
  zombies     \* shells that are never waited for

clock == <<now, wake, timeout_ms, delay>>
result == <<retval, took>>
history == <<ran, behind, zombies>>
vars == <<config, stop_work, pc, item, script, child, clock, result, values, time,
          answer, history>>

\* DBL_MAX: no number of measurements.
MAX == <<1, 0>>

\* How a shell ends by itself.
Ended == {"exited", "failed", "signalled"}

Least(a, b) == IF a <= b THEN a ELSE b

\* config->timeout, or that of the benchmark, in seconds.
Timeout(s) == IF s = "perf_test" THEN config.benchmark_timeout ELSE config.timeout

-----------------------------------------------------------------------------
(* Statistics: the first n values.                                         *)

Sum(n, v) == FoldLeft(LAMBDA a, b : a + b, 0, SubSeq(v, 1, n))
SumOfSquares(n, v) == FoldLeft(LAMBDA a, b : a + b * b, 0, SubSeq(v, 1, n))

mean(n, v) == <<Sum(n, v), n>>

\* standard_deviation(n, v) > percent_of_values(Epsilon, n, v), squared.  The
\* percentage is one of the sum.  One value has no deviation, and compares
\* with nothing.
Noisy(n, v) ==
  /\ n > 1
  /\ 10000 * (n * SumOfSquares(n, v) - Sum(n, v) * Sum(n, v))
       > n * (n - 1) * Epsilon * Sum(n, v) * Epsilon * Sum(n, v)

-----------------------------------------------------------------------------
(* waitid_timeout and run_command.                                         *)

\* run_command up to its loop: the shell runs in a new process group.
Run(s) ==
  /\ script' = s
  /\ child' = [leader |-> "running", at |-> 0, rest |-> FALSE]
  /\ now' = 0
  /\ wake' = 0
  /\ timeout_ms' = Second * Timeout(s)
  /\ delay' = 1
  /\ pc' = "wait"

\* The commands of prologue() leave their time in that of the worker.
Return(status) ==
  /\ retval' = status
  /\ took' = now
  /\ time' = IF script = "perf_test" THEN time ELSE <<now, 1>>
  /\ pc' = "returned"
  /\ UNCHANGED <<config, stop_work, item, script, clock, values, answer>>

\* Without a timeout no option is given, which waitid refuses.
RefuseToWait ==
  /\ pc = "wait"
  /\ Timeout(script) <= 0
  /\ behind' = IF child.leader = "running" \/ child.rest
               THEN behind \cup {item} ELSE behind
  /\ zombies' = zombies + 1
  /\ Return(-1)
  /\ UNCHANGED <<child, ran>>

\* A fault: what the shell started is not killed.
ReapLeaderOnly ==
  /\ pc = "wait"
  /\ Timeout(script) > 0
  /\ child.leader \in {"exited", "failed"}
  /\ behind' = IF child.rest THEN behind \cup {item} ELSE behind
  /\ ran' = IF child.leader = "exited" THEN Append(ran, script) ELSE ran
  /\ Return(IF child.leader = "exited" THEN 0 ELSE 1)
  /\ UNCHANGED <<child, zombies>>

\* The shell has exited; what it started is killed.
Reap ==
  /\ pc = "wait"
  /\ Timeout(script) > 0
  /\ child.leader \in {"exited", "failed"}
  /\ child' = [child EXCEPT !.rest = FALSE]
  /\ ran' = IF child.leader = "exited" THEN Append(ran, script) ELSE ran
  /\ Return(IF child.leader = "exited" THEN 0 ELSE 1)
  /\ UNCHANGED <<behind, zombies>>

\* The shell was ended by a signal: the function returns before its killpg.
ReapSignalled ==
  /\ pc = "wait"
  /\ Timeout(script) > 0
  /\ child.leader = "signalled"
  /\ behind' = IF child.rest THEN behind \cup {item} ELSE behind
  /\ Return(-1)
  /\ UNCHANGED <<child, ran, zombies>>

\* A fault: the time is over only when it is overdrawn.
OverdrawnOnly == timeout_ms < 0

Expired == timeout_ms <= 0

\* The group is killed, and the shell is not waited for.  It may end by itself
\* just before: it counts as killed all the same.
TimeOut ==
  /\ pc = "wait"
  /\ Timeout(script) > 0
  /\ child.leader = "running"
  /\ Expired
  /\ child' = [child EXCEPT !.leader = "killed"]
  /\ zombies' = zombies + 1
  /\ Return(-1)
  /\ UNCHANGED <<ran, behind>>

\* A fault: the next sleep may outlast the time that is left.
NextDelayUncapped(left, d) == Least(Second, 2 * d)

\* A fault: the sleeps grow without limit.
NextDelayUnlimited(left, d) == Least(left, 2 * d)

NextDelay(left, d) == Least(left, Least(Second, 2 * d))

Poll ==
  /\ pc = "wait"
  /\ Timeout(script) > 0
  /\ child.leader = "running"
  /\ ~Expired
  /\ wake' = now + delay
  /\ timeout_ms' = timeout_ms - delay
  /\ delay' = NextDelay(timeout_ms - delay, delay)
  /\ pc' = "poll"
  /\ UNCHANGED <<config, stop_work, item, script, child, now, result, values, time,
                 answer, history>>

\* poll() returns; nothing happens to the worker while it sleeps.
Wake ==
  /\ pc = "poll"
  /\ now' = wake
  /\ pc' = "wait"
  /\ UNCHANGED <<config, stop_work, item, script, child, wake, timeout_ms, delay, result,
                 values, time, answer, history>>

\* The shell exits with 0 or not, or is ended by a signal, before the worker
\* looks again; processes it started may go on.
ChildEnds ==
  /\ pc \in {"wait", "poll"}
  /\ child.leader = "running"
  /\ \E how \in Ended, rest \in BOOLEAN, at \in now .. wake :
       child' = [leader |-> how, at |-> at, rest |-> rest]
  /\ UNCHANGED <<config, stop_work, pc, item, script, clock, result, values, time,
                 answer, history>>

-----------------------------------------------------------------------------
(* worker, prologue and benchmark.                                         *)

\* opt_task_receive_work
ReceiveWork ==
  /\ pc = "receive"
  /\ item < MaxItems
  /\ item' = item + 1
  /\ pc' = "item"
  /\ values' = <<>>
  /\ ran' = <<>>
  /\ answer' = MAX
  /\ UNCHANGED <<config, stop_work, script, child, clock, result, time, behind, zombies>>

\* prologue starts with the clean script.
Prologue ==
  /\ pc = "item"
  /\ ~stop_work
  /\ Run("clean")
  /\ UNCHANGED <<config, stop_work, item, result, values, time, answer, history>>

\* A fault: the exit status of the clean script is not looked at.
NextScriptAnyway ==
  /\ pc = "returned"
  /\ \/ script = "clean" /\ Run("build")
     \/ script = "build" /\ retval = 0 /\ Run("accuracy_test")
  /\ UNCHANGED <<config, stop_work, item, result, values, time, answer, history>>

\* Each script is run when the one before it exited with 0.
NextScript ==
  /\ pc = "returned"
  /\ retval = 0
  /\ \/ script = "clean" /\ Run("build")
     \/ script = "build" /\ Run("accuracy_test")
  /\ UNCHANGED <<config, stop_work, item, result, values, time, answer, history>>

\* A fault: the application's own test may fail.
PrologueDoneAnyway ==
  /\ pc = "returned"
  /\ script = "accuracy_test"
  /\ pc' = "benchmark"
  /\ UNCHANGED <<config, stop_work, item, script, child, clock, result, values, time,
                 answer, history>>

PrologueDone ==
  /\ pc = "returned"
  /\ script = "accuracy_test"
  /\ retval = 0
  /\ pc' = "benchmark"
  /\ UNCHANGED <<config, stop_work, item, script, child, clock, result, values, time,
                 answer, history>>

PrologueFails ==
  /\ pc = "returned"
  /\ script # "perf_test"
  /\ retval # 0
  /\ time' = MAX
  /\ pc' = "report"
  /\ UNCHANGED <<config, stop_work, item, script, child, clock, result, values, answer,
                 history>>

\* benchmark() runs nothing when it was told to stop, and fails.
Benchmark ==
  /\ pc = "benchmark"
  /\ \/ stop_work /\ retval' = 1 /\ pc' = "report"
        /\ UNCHANGED <<script, child, clock>>
     \/ ~stop_work /\ Run("perf_test") /\ UNCHANGED retval
  /\ UNCHANGED <<config, stop_work, item, took, values, time, answer, history>>

\* Zero repeats are one.
NumRepeats == IF config.benchmark_repeats = 0 THEN 1 ELSE config.benchmark_repeats

\* A fault: the mean of one value more than were measured.
MeasureOneMore ==
  /\ pc = "returned"
  /\ script = "perf_test"
  /\ retval = 0
  /\ values' = Append(values, took)
  /\ LET i == Len(values)
         stop == Noisy(i, values') \/ i > 4
     IN  IF stop \/ i + 1 = NumRepeats
         THEN /\ time' = mean(IF stop THEN i ELSE i + 2, Append(values', 0))
              /\ pc' = "report"
              /\ UNCHANGED <<script, child, clock>>
         ELSE Run("perf_test") /\ UNCHANGED time
  /\ UNCHANGED <<config, stop_work, item, result, answer, history>>

\* One repeat: number i, counted from 0, is compared with nothing yet.  The
\* first i of them may show that they are too noisy, or, if there are more than
\* four, that they agree; the loop ends with their mean in both cases.
Measure ==
  /\ pc = "returned"
  /\ script = "perf_test"
  /\ retval = 0
  /\ values' = Append(values, took)
  /\ LET i == Len(values)
         stop == Noisy(i, values') \/ i > 4
     IN  IF stop \/ i + 1 = NumRepeats
         THEN /\ time' = mean(IF stop THEN i ELSE i + 1, values')
              /\ pc' = "report"
              /\ UNCHANGED <<script, child, clock>>
         ELSE Run("perf_test") /\ UNCHANGED time
  /\ UNCHANGED <<config, stop_work, item, result, answer, history>>

\* The DBL_MAX of a failed repeat gives way to the mean of those before it.
BenchmarkFails ==
  /\ pc = "returned"
  /\ script = "perf_test"
  /\ retval # 0
  /\ time' = mean(Len(values), values)
  /\ pc' = "report"
  /\ UNCHANGED <<config, stop_work, item, script, child, clock, result, values, answer,
                 history>>

\* The fitness of a failed item is DBL_MAX.
Send ==
  /\ pc = "report"
  /\ ~stop_work
  /\ answer' = IF retval # 0 THEN MAX ELSE time
  /\ pc' = "receive"
  /\ UNCHANGED <<config, stop_work, item, script, child, clock, result, values, time,
                 history>>

\* The worker leaves its loop; the result of the item is dropped.
Leave ==
  /\ pc \in {"item", "report"}
  /\ stop_work
  /\ pc' = "left"
  /\ UNCHANGED <<config, stop_work, item, script, child, clock, result, values, time,
                 answer, history>>

\* The quit signal at any time: it ends the sleep, and the shell goes on.
QuitSignal ==
  /\ ~stop_work
  /\ stop_work' = TRUE
  /\ wake' \in IF pc = "poll" THEN now .. wake ELSE {wake}
  /\ child.at <= wake'
  /\ UNCHANGED <<config, pc, item, script, child, now, timeout_ms, delay, result, values,
                 time, answer, history>>

\* The worker has left, or the bound on items is reached.
Finished ==
  /\ pc = "left" \/ (pc = "receive" /\ item = MaxItems)
  /\ UNCHANGED vars

-----------------------------------------------------------------------------
Init ==
  /\ config \in [timeout : Timeouts, benchmark_timeout : BenchmarkTimeouts,
                 benchmark_repeats : Repeats]
  /\ stop_work = FALSE
  /\ pc = "receive"
  /\ item = 0
  /\ script = "clean"
  /\ child = [leader |-> "none", at |-> 0, rest |-> FALSE]
  /\ now = 0 /\ wake = 0 /\ timeout_ms = 0 /\ delay = 1
  /\ retval = -1 /\ took = 0
  /\ values = <<>>
  /\ time = <<0, 1>>
  /\ answer = MAX
  /\ ran = <<>> /\ behind = {} /\ zombies = 0

WaitStep == RefuseToWait \/ Reap \/ ReapSignalled \/ TimeOut \/ Poll \/ Wake

ItemStep ==
  Prologue \/ NextScript \/ PrologueDone \/ PrologueFails \/ Benchmark \/ Measure
    \/ BenchmarkFails \/ Send \/ Leave

Next ==
  ReceiveWork \/ WaitStep \/ ItemStep \/ ChildEnds \/ QuitSignal \/ Finished

Spec == Init /\ [][Next]_vars

\* The worker runs and time passes; commands need not end, nor the master send.
FairSpec == Spec /\ WF_vars(WaitStep \/ ItemStep)

-----------------------------------------------------------------------------
Script == {"clean", "build", "accuracy_test", "perf_test"}

\* Types of the variables; the time and the answer are means, of which
\* AnswerIsMeasured says more.  A timeout_ms below zero would be a poll() that
\* never returns.
TypeOK ==
  /\ config \in [timeout : Timeouts, benchmark_timeout : BenchmarkTimeouts,
                 benchmark_repeats : Repeats]
  /\ stop_work \in BOOLEAN
  /\ pc \in {"receive", "item", "wait", "poll", "returned", "benchmark", "report", "left"}
  /\ item \in 0 .. MaxItems
  /\ script \in Script
  /\ child \in [leader : {"none", "running", "killed"} \cup Ended, at : Nat, rest : BOOLEAN]
  /\ now \in Nat /\ wake \in Nat /\ timeout_ms \in Nat /\ delay \in Nat
  /\ retval \in {-1, 0, 1} /\ took \in Nat
  /\ values \in Seq(Nat)
  /\ ran \in Seq(Script) /\ behind \subseteq 1 .. MaxItems /\ zombies \in Nat

\* The worker has answered its item.
Answered == pc = "receive" /\ item > 0

\* A fitness other than DBL_MAX was earned by this item: its clean, build and
\* test scripts exited with 0 in that order, and then as many benchmarks as
\* there are values, and one at least (taskfarm.c:585-672, 726-735).
AnswerIsEarned ==
  Answered /\ answer # MAX =>
    /\ Len(values) \in 1 .. NumRepeats
    /\ ran = <<"clean", "build", "accuracy_test">> \o [k \in DOMAIN values |-> "perf_test"]

\* It is the mean of times that were measured: never that of no time at all,
\* which would be 0 and the best fitness there is, nor of a cell of values that
\* was not filled (taskfarm.c:646-668).
AnswerIsMeasured ==
  Answered /\ answer # MAX => \E k \in 1 .. Len(values) : answer = mean(k, values)

\* A command never runs longer than its timeout, and is looked at once more
\* exactly when it is over (common.c:157-217, the cap of delay at line 211).
KilledInTime ==
  /\ pc \in {"wait", "poll"} /\ ~stop_work => now <= Second * Timeout(script)
  /\ child.leader = "killed" /\ ~stop_work => now = Second * Timeout(script)

\* The time of a command is known only by looking: it is never too short, and
\* too long by less than the command took and by a second at most, which is
\* what keeps the fitness of slow programs comparable (common.c:209-211, 269).
TimeIsClose ==
  pc = "returned" /\ retval = 0 /\ ~stop_work =>
    child.at <= took /\ took <= 2 * child.at + 1 /\ took <= child.at + Second

\* An item one of whose commands left a process running has failed, and runs no
\* other command: a benchmark is never disturbed by its own build or tests
\* (common.c:187-216, "kill children too").
NoneLeftBehind ==
  item \in behind => pc \in {"returned", "report", "receive", "left"} /\ retval # 0

\* A shell that is never waited for stays in the process table: at most one for
\* each item (common.c:197-208; taskfarm.c:596-612, 650-653).
OneZombiePerItem == zombies <= item

\* Every item is answered or the worker leaves, whatever its commands do.
EveryItemAnswered == pc = "item" ~> pc \in {"receive", "left"}

\* A benchmark whose repeats differ too much is a failure ("Then all is NOT
\* well", taskfarm.c:655-658).
NoisyIsFailure ==
  Answered /\ (\E n \in 1 .. Len(values) - 1 : Noisy(n, values)) => answer = MAX
=============================================================================

------------------------------- MODULE Startup -------------------------------
(***************************************************************************)
(* main() of src/src/optsearch.c up to the first evaluation: the master    *)
(* reads the configuration (ReadConfig), all ranks share it (ShareConfig), *)
(* each registers the handler of the quit signal, and the master makes the *)
(* search space of the flags, opens a new database, places a particle in   *)
(* the space and prints its options (SearchSpace).                         *)
(***************************************************************************)
EXTENDS ShareConfig, SearchSpace

CONSTANT spso_max_dims

ASSUME SwarmAssumption == spso_max_dims \in Nat

VARIABLES
  master,       \* "reading", "sharing", "initialising", "placing", "searching",
                \* "aborted" (every rank is), "crashed"
  started,      \* the workers that are ready for work
  search_space, \* the dimensions, one for each flag
  database,     \* "closed", "new", "error"
  position,     \* coordinates of the first particle
  options       \* what its evaluation is told, one for each dimension

initVars == <<started, search_space, database, position, options>>

vars == <<readVars, shareVars, master, initVars>>

-----------------------------------------------------------------------------
ReadStep ==
  /\ master = "reading"
  /\ ReadNext
  /\ UNCHANGED <<shareVars, master, initVars>>

\* The barrier: the workers are waiting for the master there.
Barrier ==
  /\ master = "reading"
  /\ WholeFile
  /\ master' = "sharing"
  /\ UNCHANGED <<readVars, shareVars, initVars>>

ShareStep ==
  /\ master = "sharing"
  /\ Broadcast
  /\ UNCHANGED <<readVars, master, initVars>>

\* A fault: a text that is not there is only logged.
LogOnly ==
  /\ master = "sharing"
  /\ ~AllSent
  /\ ~Sendable(Broadcasts[sent + 1])
  /\ UNCHANGED vars

\* MPI_Abort: a text that is to be sent is not there.
Abort ==
  /\ master = "sharing"
  /\ ~AllSent
  /\ ~Sendable(Broadcasts[sent + 1])
  /\ master' = "aborted"
  /\ UNCHANGED <<readVars, shareVars, initVars>>

ReceiveStep(w) ==
  /\ master # "aborted"
  /\ Receive(w)
  /\ UNCHANGED <<readVars, master, initVars>>

-----------------------------------------------------------------------------
(* opt_init                                                                *)

\* opt_get_signum and sigaction: any other text ends the program.
CanRegister(signame) == signame = "signal"

\* A fault: one dimension more than there is room for.
OneTooMany(n) == n > 0 /\ n <= spso_max_dims

\* What spso_init asks of the number of dimensions.
DimensionsFit(n) == n > 0 /\ n < spso_max_dims

\* A worker registers the handler of its own copy of the signal, and waits for
\* work; a copy that is no longer there may read like anything.
StartWorker(w) ==
  /\ master # "aborted"
  /\ HasConfig(w) /\ w \notin started
  /\ CanRegister(copy[w]["quit-signal"]) \/ copy[w]["quit-signal"] = "dangling"
  /\ started' = started \cup {w}
  /\ UNCHANGED <<readVars, shareVars, master, search_space, database, position, options>>

\* MPI_Abort: a worker cannot register it.
RefuseWorker(w) ==
  /\ master # "aborted"
  /\ HasConfig(w) /\ w \notin started
  /\ ~CanRegister(copy[w]["quit-signal"])
  /\ master' = "aborted"
  /\ UNCHANGED <<readVars, shareVars, initVars>>

\* The master makes a dimension of each of the first num_flags flags; one that
\* cannot be converted is read through a null pointer.
MakeSearchSpace ==
  /\ master = "sharing"
  /\ AllSent
  /\ IF \A i \in 1 .. reader.num_flags : Convertible(reader.flags[i])
     THEN /\ search_space' = [i \in 1 .. reader.num_flags |-> opt_convert_flag(reader.flags[i])]
          /\ master' = "initialising"
     ELSE master' = "crashed" /\ UNCHANGED search_space
  /\ UNCHANGED <<readVars, shareVars, started, database, position, options>>

\* The master registers the handler, finds dimensions in the space, and calls
\* opt_db_init, which makes a new file or fails; none is there from before.
OpenDatabase ==
  /\ CanRegister(reader.top["quit-signal"])
  /\ Len(search_space) # 0
  /\ database' \in {"new", "error"}

\* spso_init takes the space.
StartSwarm ==
  /\ master = "initialising"
  /\ OpenDatabase /\ database' = "new"
  /\ DimensionsFit(Len(search_space))
  /\ master' = "placing"
  /\ UNCHANGED <<readVars, shareVars, started, search_space, position, options>>

\* MPI_Abort: no handler, no dimension, no database, or too many dimensions.
RefuseSearch ==
  /\ master = "initialising"
  /\ \/ ~CanRegister(reader.top["quit-signal"]) /\ UNCHANGED database
     \/ Len(search_space) = 0 /\ UNCHANGED database
     \/ OpenDatabase /\ (database' = "error" \/ ~DimensionsFit(Len(search_space)))
  /\ master' = "aborted"
  /\ UNCHANGED <<readVars, shareVars, started, search_space, position, options>>

-----------------------------------------------------------------------------
(* The first particle.                                                     *)

\* spso_initialise_particle: one coordinate after the other.
Place ==
  /\ master = "placing"
  /\ Len(position) < Len(search_space)
  /\ LET d == search_space[Len(position) + 1]
     IN  \E x \in opt_rand_int_range(d.min, d.max) : position' = Append(position, x)
  /\ UNCHANGED <<readVars, shareVars, master, started, search_space, database, options>>

\* A remainder by zero ends the program.
DivideByZero ==
  /\ master = "placing"
  /\ Len(position) < Len(search_space)
  /\ LET d == search_space[Len(position) + 1] IN MayDivideByZero(d.min, d.max)
  /\ master' = "crashed"
  /\ UNCHANGED <<readVars, shareVars, initVars>>

\* opt_position_to_string for the first item of the queue.
BuildOptions ==
  /\ master = "placing"
  /\ Len(position) = Len(search_space)
  /\ options' = [i \in DOMAIN position |->
                   convert_dimension_to_string(
                     opt_get_flag(reader.flags, search_space[i].uid), position[i])]
  /\ master' = "searching"
  /\ UNCHANGED <<readVars, shareVars, started, search_space, database, position>>

Finished ==
  /\ master \in {"aborted", "crashed", "searching"}
  /\ master = "searching" => started = Worker
  /\ UNCHANGED vars

-----------------------------------------------------------------------------
Init ==
  /\ ReadInit
  /\ ShareInit
  /\ master = "reading"
  /\ started = {}
  /\ search_space = <<>> /\ database = "closed" /\ position = <<>> /\ options = <<>>

MasterStep ==
  \/ Barrier \/ ShareStep \/ Abort
  \/ MakeSearchSpace \/ StartSwarm \/ RefuseSearch
  \/ Place \/ DivideByZero \/ BuildOptions

WorkerStep(w) == ReceiveStep(w) \/ StartWorker(w) \/ RefuseWorker(w)

Next == ReadStep \/ MasterStep \/ (\E w \in Worker : WorkerStep(w)) \/ Finished

Spec == Init /\ [][Next]_vars

\* Every rank runs; a broadcast that was made arrives.
FairSpec == Spec /\ WF_vars(MasterStep) /\ \A w \in Worker : WF_vars(WorkerStep(w))

-----------------------------------------------------------------------------
\* Types of what is not the reader's, and no rank is ahead of the master.
TypeOK ==
  /\ master \in {"reading", "sharing", "initialising", "placing", "searching", "aborted",
                 "crashed"}
  /\ sent \in 0 .. Len(Broadcasts) /\ got \in [Worker -> 0 .. sent]
  /\ started \subseteq Worker
  /\ search_space \in Seq([uid : Int, min : Int, max : Int])
  /\ database \in {"closed", "new", "error"}
  /\ position \in Seq(Int)
  /\ Len(position) <= Len(search_space)

\* The values that the file gives to a flag, as options.
Written(f) ==
  LET parts(v) == <<ValueOf(f, "prefix"), ValueOf(f, "name"), ValueOf(f, "separator"), v>>
  IN  CASE ValueOf(f, "type") = "range" ->
             {parts(v) : v \in atoi(ValueOf(f, "min")) .. atoi(ValueOf(f, "max"))}
        [] ValueOf(f, "type") = "list" -> {parts(v) : v \in ToSet(ValueOf(f, "values"))}
        [] OTHER -> {<<ValueOf(f, "on-prefix"), ValueOf(f, "name")>>,
                     <<ValueOf(f, "off-prefix"), ValueOf(f, "name")>>}

\* The coordinates of a dimension stand for the values that the file gives to
\* the flag, all of them and no others, and for leaving the flag out
\* (config.c:188-674; optimiser.c:504-752).
OptionsAsWritten ==
  \A i \in DOMAIN search_space :
    LET d == search_space[i]
        f == doc.flags[i]
        flag == opt_get_flag(reader.flags, d.uid)
        reversed == ValueOf(f, "type") = "range" /\ d.min > d.max
    IN  /\ flag = reader.flags[i]
        /\ ~reversed => {convert_dimension_to_string(flag, v) : v \in d.min .. d.max}
                          = Written(f) \cup {LeftOut}

\* A range that is not reversed and reaches 0, other than -2 to 0.
Ordinary(f) ==
  ValueOf(f, "type") = "range" =>
    /\ atoi(ValueOf(f, "min")) <= atoi(ValueOf(f, "max"))
    /\ 0 <= atoi(ValueOf(f, "max"))
    /\ ~(atoi(ValueOf(f, "min")) = -2 /\ atoi(ValueOf(f, "max")) = 0)

\* A particle is placed inside each ordinary dimension, and the program only
\* fails on a range that is not (random.c:139-186, spso.c:658-690).
PlacedInside ==
  /\ \A i \in DOMAIN position : Ordinary(doc.flags[i]) =>
       position[i] \in search_space[i].min .. search_space[i].max
  /\ master = "crashed" => \E i \in DOMAIN doc.flags : ~Ordinary(doc.flags[i])

\* No rank starts the search unless the file had every text that the ranks
\* need, and then each rank starts with all of them (config.c:695-769,
\* optsearch.c:180-187).
NoneStartsWithout ==
  (\E w \in Worker : HasConfig(w)) \/ master \in {"placing", "searching"} =>
    \A k \in ToSet(Broadcasts) : Field(k) # NULL

\* A file that the search can run on.
Fit ==
  /\ ToSet(TopKeys) \ Numbers \subseteq DOMAIN doc.top
  /\ ToSet(CompilerKeys) \subseteq DOMAIN doc.compiler
  /\ doc.top["quit-signal"] = "signal"
  /\ Len(doc.flags) \in 1 .. spso_max_dims - 1

\* Any rank may stop all of them, at any of several moments, and no rank asks
\* another: yet no search starts on a file that is not fit, and on one that is
\* nothing but the database keeps the ranks from starting (config.c:695-769,
\* optimiser.c:427-492, common.c:287-311, spso.c:221-227).
FitFilesStart ==
  /\ master \in {"placing", "searching"} => Fit
  /\ master = "aborted" => ~Fit \/ database = "error"

\* When the file has been read the search starts with every rank ready for work,
\* or all of them are stopped.
StartOrAbort ==
  master = "sharing" ~> \/ master \in {"aborted", "crashed"}
                        \/ master = "searching" /\ started = Worker
=============================================================================

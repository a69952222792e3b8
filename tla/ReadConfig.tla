------------------------------ MODULE ReadConfig ------------------------------
(***************************************************************************)
(* read_config of src/src/config.c: the handler of libyaml's events, one   *)
(* event a step, against a writer of configuration files.                  *)
(*                                                                         *)
(* The writer produces any file of the documented format (examples/, test/ *)
(* and README.md) and remembers what it says in doc; nest and key are what *)
(* it has opened and not closed.  The reader has six states, one key and a *)
(* pointer to the flag it is filling, and never looks at the nesting.      *)
(*                                                                         *)
(* A definition marked "A fault" is used by no action: it is the operator  *)
(* after it with a plausible bug, which some property must detect.         *)
(***************************************************************************)
EXTENDS Integers, Sequences, SequencesExt, FiniteSets

CONSTANTS
  Optional,    \* top-level keys a file may leave out
  Long,        \* those whose text may be long
  Numerals,    \* numbers that max and min may have
  MaxListed,   \* bound: values in a list
  MaxFlags,    \* bound: flags in a file
  FullFlags,   \* bound: flags of any type; those after them are on-off
  TypeFirst    \* files give a flag's type before what depends on it

NULL == "NULL"
None == "none"   \* a key that the file leaves out

\* The order of the example files.  Their order means nothing to the reader.
TopKeys == <<"quit-signal", "clean-script", "build-script", "accuracy-test",
             "performance-test", "epsilon", "timeout", "benchmark-timeout",
             "benchmark-repeats">>
CompilerKeys == <<"name", "version">>
Numbers == {"epsilon", "timeout", "benchmark-timeout", "benchmark-repeats"}

ASSUME LongAssumption == Long \subseteq ToSet(TopKeys) \ Numbers

VARIABLES
  nest,    \* the collections that are open, outermost first
  key,     \* a key whose value is still to be written
  doc,     \* what the file says
  reader   \* state, map_key, oa, and the config as far as it is filled

readVars == <<nest, key, doc, reader>>

\* atoi
atoi(s) == CASE s = "-2" -> -2 [] s = "-1" -> -1 [] s = "1" -> 1 [] s = "3" -> 3 [] OTHER -> 0

-----------------------------------------------------------------------------
(* The reader.                                                             *)

\* calloc: a flag of no type.
NewFlag(uid) ==
  [uid |-> uid, type |-> "OPT_NO_FLAG", name |-> NULL, prefix |-> NULL,
   neg_prefix |-> NULL, separator |-> NULL, min |-> 0, max |-> 0, values |-> <<>>]

\* The NULL that ends the array.
NoFlag == [NewFlag(-1) EXCEPT !.type = NULL]

\* The flag that flag_buffer points at.
Buffer(r) == Len(r.flags)

\* Setting the type clears the data that belongs to it.
SetType(r, v) ==
  LET b == Buffer(r)
  IN  CASE v = "range" ->
             [r EXCEPT !.flags[b].type = "OPT_RANGE_FLAG", !.flags[b].min = 0,
                       !.flags[b].max = 0, !.num_flags = @ + 1]
        [] v = "list" ->
             [r EXCEPT !.flags[b].type = "OPT_LIST_FLAG", !.flags[b].values = <<>>,
                       !.num_flags = @ + 1]
        [] v = "on-off" ->
             [r EXCEPT !.flags[b].type = "OPT_ONOFF_FLAG", !.num_flags = @ + 1]
        [] OTHER -> r

\* A separator is kept only when the type is known to need one.
SetSeparator(r, v) ==
  LET b == Buffer(r)
  IN  IF r.flags[b].type \in {"OPT_LIST_FLAG", "OPT_RANGE_FLAG"}
      THEN [r EXCEPT !.flags[b].separator = v]
      ELSE r

\* The value of an attribute of a flag; attributes that are unknown are ignored.
SetAttribute(r, v) ==
  LET b == Buffer(r)
      k == r.map_key
  IN  CASE k = "name" -> [r EXCEPT !.flags[b].name = v]
        [] k = "type" -> SetType(r, v)
        [] k \in {"on-prefix", "prefix"} -> [r EXCEPT !.flags[b].prefix = v]
        [] k = "off-prefix" -> [r EXCEPT !.flags[b].neg_prefix = v]
        [] k = "separator" -> SetSeparator(r, v)
        [] k = "max" -> [r EXCEPT !.flags[b].max = atoi(v)]
        [] k = "min" -> [r EXCEPT !.flags[b].min = atoi(v)]
        [] OTHER -> r

\* is_map
MapStates == {"TOP_LEVEL_MAP", "COMPILER_MAP", "COMPILER_FLAG_MAP"}

\* A fault: the key is not given up when its value was read.
ScalarKeepsKey(r, v) ==
  IF r.map_key = NULL THEN [r EXCEPT !.map_key = v]
  ELSE CASE r.state = "TOP_LEVEL_MAP" /\ r.map_key \in ToSet(TopKeys) ->
              [r EXCEPT !.top[r.map_key] = v, !.map_key = NULL]
         [] r.state = "COMPILER_MAP" /\ r.map_key \in ToSet(CompilerKeys) ->
              [r EXCEPT !.compiler[r.map_key] = v, !.map_key = NULL]
         [] r.state = "COMPILER_FLAG_MAP" -> SetAttribute(r, v)
         [] OTHER -> r

\* YAML_SCALAR_EVENT: a key, the value of the key before, or a listed value.
Scalar(r, v) ==
  IF r.state \in MapStates
  THEN IF r.map_key = NULL
       THEN [r EXCEPT !.map_key = v]
       ELSE LET filled ==
                  CASE r.state = "TOP_LEVEL_MAP" /\ r.map_key \in ToSet(TopKeys) ->
                         [r EXCEPT !.top[r.map_key] = v]
                    [] r.state = "COMPILER_MAP" /\ r.map_key \in ToSet(CompilerKeys) ->
                         [r EXCEPT !.compiler[r.map_key] = v]
                    [] r.state = "COMPILER_FLAG_MAP" -> SetAttribute(r, v)
                    [] OTHER -> r
            IN  [filled EXCEPT !.map_key = NULL]
  ELSE IF r.state = "COMPILER_FLAG_MAP_SEQ" /\ r.oa = "values"
       THEN [r EXCEPT !.flags[Buffer(r)].values = Append(@, v)]
       ELSE r

\* YAML_SEQUENCE_START_EVENT
SequenceStart(r) ==
  LET inner ==
        CASE r.state = "COMPILER_MAP" /\ r.map_key = "flags" ->
               [r EXCEPT !.state = "COMPILER_FLAGS_SEQ"]
          [] r.state = "COMPILER_FLAG_MAP" ->
               [r EXCEPT !.state = "COMPILER_FLAG_MAP_SEQ",
                         !.oa = IF r.map_key \in {"values", "depends-on"}
                                THEN r.map_key ELSE @]
          [] OTHER -> r
  IN  [inner EXCEPT !.map_key = NULL]

\* A fault: every sequence is taken for the sequence of the flags.
SequenceEndKeepsKind(r) ==
  CASE r.state = "COMPILER_FLAGS_SEQ" -> [r EXCEPT !.state = "COMPILER_MAP"]
    [] r.state = "COMPILER_FLAG_MAP_SEQ" -> [r EXCEPT !.state = "COMPILER_MAP"]
    [] OTHER -> r

\* YAML_SEQUENCE_END_EVENT
SequenceEnd(r) ==
  CASE r.state = "COMPILER_FLAGS_SEQ" -> [r EXCEPT !.state = "COMPILER_MAP"]
    [] r.state = "COMPILER_FLAG_MAP_SEQ" ->
         [r EXCEPT !.state = "COMPILER_FLAG_MAP", !.oa = None]
    [] OTHER -> r

\* YAML_MAPPING_START_EVENT
MappingStart(r) ==
  LET inner ==
        CASE r.state = "INITIAL" -> [r EXCEPT !.state = "TOP_LEVEL_MAP"]
          [] r.state = "TOP_LEVEL_MAP" /\ r.map_key = "compiler" ->
               [r EXCEPT !.state = "COMPILER_MAP"]
          [] r.state = "COMPILER_FLAGS_SEQ" ->
               [r EXCEPT !.state = "COMPILER_FLAG_MAP",
                         !.flags = Append(@, NewFlag(r.uid_counter)),
                         !.uid_counter = @ + 1]
          [] OTHER -> r
  IN  [inner EXCEPT !.map_key = NULL]

\* YAML_MAPPING_END_EVENT
MappingEnd(r) ==
  CASE r.state = "TOP_LEVEL_MAP" -> [r EXCEPT !.state = "INITIAL"]
    [] r.state = "COMPILER_MAP" ->
         [r EXCEPT !.state = "TOP_LEVEL_MAP", !.flags = Append(@, NoFlag)]
    [] r.state = "COMPILER_FLAG_MAP" -> [r EXCEPT !.state = "COMPILER_FLAGS_SEQ"]
    [] OTHER -> r

-----------------------------------------------------------------------------
(* The writer.                                                             *)

Innermost == IF nest = <<>> THEN None ELSE Last(nest)
ThisFlag == doc.flags[Len(doc.flags)]

\* A mapping of the file is a function of its keys.
Plus(m, k, v) == [l \in DOMAIN m \cup {k} |-> IF l = k THEN v ELSE m[l]]

ValueOf(m, k) == IF k \in DOMAIN m THEN m[k] ELSE None

\* What the documentation asks of a flag of each type.
Attributes(type) ==
  CASE type = "range" -> {"prefix", "separator", "max", "min"}
    [] type = "list" -> {"prefix", "separator", "values"}
    [] type = "on-off" -> {"on-prefix", "off-prefix"}

\* Types that the flag being written may have.
Types == IF Len(doc.flags) > FullFlags THEN {"on-off"} ELSE {"range", "list", "on-off"}

\* A text is what the program tells apart: "signal" names one that a handler can
\* be registered for, a "long" one may be moved by realloc.
TextOf(k) ==
  CASE k \in {"max", "min"} -> Numerals
    [] k = "type" -> Types
    [] k \in Numbers -> {"number"}
    [] OTHER -> {"short"} \cup (IF k \in Long THEN {"long"} ELSE {})
                          \cup (IF k = "quit-signal" THEN {"signal"} ELSE {})

\* Keys that may come next, in a list of which some may be left out.
NextKeys(order, written, optional) ==
  {order[i] : i \in {j \in DOMAIN order :
     /\ \A l \in j .. Len(order) : order[l] \notin written
     /\ \A l \in 1 .. j - 1 : order[l] \in written \cup optional}}

\* Attributes the reader has no use for, a sequence and a scalar; the writer
\* gives at most one of them, to the first flag.
Ignored == {"depends-on", "default"}

\* What was written of the flag that not every flag has.
OwnAttributes == DOMAIN ThisFlag \ ({"name", "type"} \cup Ignored)

\* Attributes of the flag that may come next.
NextAttributes ==
  LET written == DOMAIN ThisFlag
      type == ValueOf(ThisFlag, "type")
      types == IF type = None THEN Types ELSE {type}
  IN  {k \in {"name", "type"} : k \notin written}
        \cup {k \in Ignored : Ignored \cap written = {} /\ Len(doc.flags) = 1}
        \cup {k \in UNION {Attributes(t) : t \in types} :
                /\ k \notin written
                /\ TypeFirst => type # None
                /\ \E t \in types : OwnAttributes \cup {k} \subseteq Attributes(t)}

WriteKey ==
  /\ key = NULL
  /\ \E k \in CASE Innermost = "file" ->
                     NextKeys(TopKeys \o <<"compiler">>, DOMAIN doc.top, Optional)
                [] Innermost = "compiler" ->
                     NextKeys(CompilerKeys \o <<"flags">>, DOMAIN doc.compiler, Optional)
                [] Innermost = "flag" -> NextAttributes
                [] OTHER -> {} :
       key' = k /\ reader' = Scalar(reader, k)
  /\ UNCHANGED <<nest, doc>>

WriteValue ==
  /\ key \notin {NULL, "compiler", "flags", "values", "depends-on"}
  /\ \E v \in TextOf(key) :
       /\ key = "type" => OwnAttributes \subseteq Attributes(v)
       /\ doc' = CASE Innermost = "file" -> [doc EXCEPT !.top = Plus(@, key, v)]
                   [] Innermost = "compiler" ->
                        [doc EXCEPT !.compiler = Plus(@, key, v)]
                   [] OTHER ->
                        [doc EXCEPT !.flags[Len(doc.flags)] = Plus(@, key, v)]
       /\ reader' = Scalar(reader, v)
  /\ key' = NULL
  /\ UNCHANGED nest

\* The value of a key is a collection, or a flag starts.
OpenMapping ==
  /\ \/ nest = <<>> /\ DOMAIN doc.top = {} /\ nest' = <<"file">> /\ UNCHANGED doc
     \/ key = "compiler" /\ nest' = Append(nest, "compiler")
          /\ doc' = [doc EXCEPT !.top = Plus(@, key, "mapping")]
     \/ Innermost = "flags" /\ Len(doc.flags) < MaxFlags /\ nest' = Append(nest, "flag")
          /\ doc' = [doc EXCEPT !.flags = Append(@, <<>>)]
  /\ key' = NULL
  /\ reader' = MappingStart(reader)

OpenSequence ==
  /\ \/ key = "flags"
          /\ doc' = [doc EXCEPT !.compiler = Plus(@, key, "sequence")]
     \/ key \in {"values", "depends-on"}
          /\ doc' = [doc EXCEPT !.flags[Len(doc.flags)] = Plus(@, key, <<>>)]
  /\ nest' = Append(nest, key)
  /\ key' = NULL
  /\ reader' = SequenceStart(reader)

\* One more value of a list, or one more flag that the flag depends on.
WriteItem ==
  /\ Innermost \in {"values", "depends-on"}
  /\ LET listed == ThisFlag[Innermost]
         item == <<"first", "second", "third">>[Len(listed) + 1]
     IN  /\ Len(listed) < IF Innermost = "values" THEN MaxListed ELSE 1
         /\ doc' = [doc EXCEPT !.flags[Len(doc.flags)][Innermost] = Append(@, item)]
         /\ reader' = Scalar(reader, item)
  /\ UNCHANGED <<nest, key>>

CloseMapping ==
  /\ key = NULL
  /\ CASE Innermost = "flag" -> /\ "name" \in DOMAIN ThisFlag
                                /\ "type" \in DOMAIN ThisFlag
                                /\ Attributes(ValueOf(ThisFlag, "type")) \subseteq DOMAIN ThisFlag
       [] Innermost = "compiler" -> "flags" \in DOMAIN doc.compiler
       [] Innermost = "file" -> "compiler" \in DOMAIN doc.top
       [] OTHER -> FALSE
  /\ nest' = Front(nest)
  /\ reader' = MappingEnd(reader)
  /\ UNCHANGED <<key, doc>>

CloseSequence ==
  /\ Innermost \in {"flags", "values", "depends-on"}
  /\ nest' = Front(nest)
  /\ reader' = SequenceEnd(reader)
  /\ UNCHANGED <<key, doc>>

\* The end of the stream.
WholeFile == nest = <<>> /\ DOMAIN doc.top # {}

-----------------------------------------------------------------------------
\* opt_new_config and the defaults.
ReadInit ==
  /\ nest = <<>>
  /\ key = NULL
  /\ doc = [top |-> <<>>, compiler |-> <<>>, flags |-> <<>>]
  /\ reader = [state |-> "INITIAL", map_key |-> NULL, oa |-> None, uid_counter |-> 0,
               num_flags |-> 0, flags |-> <<>>,
               compiler |-> [k \in ToSet(CompilerKeys) |-> NULL],
               top |-> [k \in ToSet(TopKeys) |-> IF k \in Numbers THEN "default" ELSE NULL]]

ReadNext ==
  \/ WriteKey \/ WriteValue \/ OpenMapping \/ OpenSequence \/ WriteItem
  \/ CloseMapping \/ CloseSequence

-----------------------------------------------------------------------------
StateOf(open) ==
  CASE open = None -> "INITIAL" [] open = "file" -> "TOP_LEVEL_MAP"
    [] open = "compiler" -> "COMPILER_MAP" [] open = "flags" -> "COMPILER_FLAGS_SEQ"
    [] open = "flag" -> "COMPILER_FLAG_MAP" [] OTHER -> "COMPILER_FLAG_MAP_SEQ"

\* Without a stack of its own the reader is where the file is, takes each key
\* for a key, and counts the flags whose type it has seen (config.c:217-625).
ReaderFollowsFile ==
  /\ reader.state = StateOf(Innermost)
  /\ reader.map_key = key
  /\ reader.num_flags = Cardinality({i \in DOMAIN doc.flags : "type" \in DOMAIN doc.flags[i]})

\* The text of a key, or what an absent one stands for.
Text(m, k, absent) == IF k \in DOMAIN m THEN ValueOf(m, k) ELSE absent

\* What a flag of the file means.
FlagMeans(f, flag) ==
  /\ flag.name = ValueOf(f, "name")
  /\ CASE ValueOf(f, "type") = "range" ->
            /\ flag.type = "OPT_RANGE_FLAG"
            /\ flag.min = atoi(ValueOf(f, "min")) /\ flag.max = atoi(ValueOf(f, "max"))
            /\ flag.prefix = ValueOf(f, "prefix")
            /\ flag.separator = ValueOf(f, "separator")
       [] ValueOf(f, "type") = "list" ->
            /\ flag.type = "OPT_LIST_FLAG"
            /\ flag.values = ValueOf(f, "values")
            /\ flag.prefix = ValueOf(f, "prefix")
            /\ flag.separator = ValueOf(f, "separator")
       [] OTHER ->
            /\ flag.type = "OPT_ONOFF_FLAG"
            /\ flag.prefix = ValueOf(f, "on-prefix")
            /\ flag.neg_prefix = ValueOf(f, "off-prefix")

\* When the file ends the config is what the file says: each setting in its
\* field, each flag with the attributes of its own and of no other, as many
\* as num_flags counts, in their order, with their number as uid and a NULL
\* behind the last (config.c:188-674).
ConfigAsWritten ==
  WholeFile =>
    /\ \A k \in ToSet(TopKeys) :
         reader.top[k] = Text(doc.top, k, IF k \in Numbers THEN "default" ELSE NULL)
    /\ \A k \in ToSet(CompilerKeys) : reader.compiler[k] = Text(doc.compiler, k, NULL)
    /\ reader.num_flags = Len(doc.flags)
    /\ Len(reader.flags) = Len(doc.flags) + 1
    /\ Last(reader.flags) = NoFlag
    /\ \A i \in DOMAIN doc.flags :
         reader.flags[i].uid = i - 1 /\ FlagMeans(doc.flags[i], reader.flags[i])

\* A range has the bounds that are written, whatever the order of the keys,
\* which means nothing in a mapping (test/large-test-config.yml:473-478 gives
\* the type last).
RangeAsWritten ==
  WholeFile =>
    \A i \in DOMAIN doc.flags : ValueOf(doc.flags[i], "type") = "range" =>
      /\ reader.flags[i].min = atoi(ValueOf(doc.flags[i], "min"))
      /\ reader.flags[i].max = atoi(ValueOf(doc.flags[i], "max"))
=============================================================================

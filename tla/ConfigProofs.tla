----------------------------- MODULE ConfigProofs -----------------------------
(***************************************************************************)
(* Proofs about what Startup works with: when the files give the type of a *)
(* flag first, the configuration is what the file says, the coordinates of *)
(* the search space stand for the options that the file gives, and the     *)
(* first particle is placed inside it, for any file.  Whatever the order   *)
(* of the keys, types are kept, and the ranks start on the files they can  *)
(* run on and on no others.                                                *)
(***************************************************************************)
EXTENDS StartupProofs, SearchSpaceProofs

\* A sequence, of whatever elements.
IsList(s) == Len(s) \in Nat /\ s = [i \in 1 .. Len(s) |-> s[i]]

FlagFields ==
  {"uid", "type", "name", "prefix", "neg_prefix", "separator", "min", "max", "values"}

\* The enumeration's name of a type.
Code(type) ==
  CASE type = "range" -> "OPT_RANGE_FLAG" [] type = "list" -> "OPT_LIST_FLAG"
    [] OTHER -> "OPT_ONOFF_FLAG"

-----------------------------------------------------------------------------
(* The invariant of the reader while it reads.                             *)

\* The end of the array has been written.
CompilerClosed == "compiler" \in DOMAIN doc.top /\ Len(nest) < 2

\* The compiler is opened once, and before the file ends.
CompilerOnce ==
  /\ key = "compiler" => "compiler" \notin DOMAIN doc.top
  /\ Len(nest) >= 2 => "compiler" \in DOMAIN doc.top
  /\ nest = <<>> => DOMAIN doc.top = {} \/ "compiler" \in DOMAIN doc.top

\* Each setting has its text as soon as it is written.
Settings ==
  /\ DOMAIN reader.top = ToSet(TopKeys) /\ DOMAIN reader.compiler = ToSet(CompilerKeys)
  /\ \A k \in ToSet(TopKeys) :
       reader.top[k] = Text(doc.top, k, IF k \in Numbers THEN "default" ELSE NULL)
  /\ \A k \in ToSet(CompilerKeys) : reader.compiler[k] = Text(doc.compiler, k, NULL)

\* An attribute of a flag's own is written after the type that has it, and once;
\* oa is the list that is open.
AttributeFits ==
  /\ key # NULL /\ Innermost = "flag" =>
       /\ key \notin DOMAIN ThisFlag
       /\ \/ key \in {"name", "type"} \cup Ignored
          \/ "type" \in DOMAIN ThisFlag /\ key \in Attributes(ThisFlag["type"])
  /\ Innermost \in {"values", "depends-on"} => Innermost \in DOMAIN ThisFlag
  /\ reader.oa = IF Innermost \in {"values", "depends-on"} THEN Innermost ELSE None

\* What has been written of a flag, and what has been read of it.
ReadSoFar(f, flag) ==
  /\ DOMAIN flag = FlagFields
  /\ IF "type" \in DOMAIN f
     THEN /\ flag.type = Code(f["type"])
          /\ DOMAIN f \subseteq {"name", "type"} \cup Ignored \cup Attributes(f["type"])
     ELSE DOMAIN f \subseteq {"name"} \cup Ignored
  /\ "name" \in DOMAIN f => flag.name = f["name"]
  /\ "prefix" \in DOMAIN f => flag.prefix = f["prefix"]
  /\ "on-prefix" \in DOMAIN f => flag.prefix = f["on-prefix"]
  /\ "off-prefix" \in DOMAIN f => flag.neg_prefix = f["off-prefix"]
  /\ "separator" \in DOMAIN f => flag.separator = f["separator"] /\ f["separator"] # NULL
  /\ "min" \in DOMAIN f => flag.min = atoi(f["min"])
  /\ "max" \in DOMAIN f => flag.max = atoi(f["max"])
  /\ IF "values" \in DOMAIN f THEN IsList(f["values"]) /\ flag.values = f["values"]
                              ELSE flag.values = <<>>

\* The array has an entry for each flag of the file, and one more in the end.
FlagsRead ==
  /\ IsList(reader.flags)
  /\ Len(reader.flags) = IF CompilerClosed THEN Len(doc.flags) + 1 ELSE Len(doc.flags)
  /\ CompilerClosed => reader.flags[Len(doc.flags) + 1] = NoFlag
  /\ reader.uid_counter = Len(doc.flags)
  /\ \A i \in 1 .. Len(doc.flags) :
       reader.flags[i].uid = i - 1 /\ ReadSoFar(doc.flags[i], reader.flags[i])

\* A flag that has been closed has all its attributes.
Complete(f) == {"name", "type"} \cup Attributes(f["type"]) \subseteq DOMAIN f

ClosedComplete ==
  \A i \in 1 .. Len(doc.flags) :
    i < Len(doc.flags) \/ Len(nest) < 4 => "type" \in DOMAIN doc.flags[i] /\ Complete(doc.flags[i])

ConfigInv == CompilerOnce /\ Settings /\ AttributeFits /\ FlagsRead /\ ClosedComplete

-----------------------------------------------------------------------------
(* One flag.                                                               *)

\* What setting its type, or an attribute, does to the flag.
TypeSet(flag, v) ==
  CASE v = "range" -> [flag EXCEPT !.type = "OPT_RANGE_FLAG", !.min = 0, !.max = 0]
    [] v = "list" -> [flag EXCEPT !.type = "OPT_LIST_FLAG", !.values = <<>>]
    [] v = "on-off" -> [flag EXCEPT !.type = "OPT_ONOFF_FLAG"]
    [] OTHER -> flag

SeparatorSet(flag, v) ==
  IF flag.type \in {"OPT_LIST_FLAG", "OPT_RANGE_FLAG"} THEN [flag EXCEPT !.separator = v]
  ELSE flag

AttributeSet(flag, k, v) ==
  CASE k = "name" -> [flag EXCEPT !.name = v]
    [] k = "type" -> TypeSet(flag, v)
    [] k \in {"on-prefix", "prefix"} -> [flag EXCEPT !.prefix = v]
    [] k = "off-prefix" -> [flag EXCEPT !.neg_prefix = v]
    [] k = "separator" -> SeparatorSet(flag, v)
    [] k = "max" -> [flag EXCEPT !.max = atoi(v)]
    [] k = "min" -> [flag EXCEPT !.min = atoi(v)]
    [] OTHER -> flag

\* An attribute that is written to the file, and read, leaves file and flag in step.
LEMMA FlagReads ==
  ASSUME NEW f, NEW flag, ReadSoFar(f, flag),
         NEW k, k \in {"name", "type", "default"}
                  \/ ("type" \in DOMAIN f /\ k \in Attributes(f["type"]) \ {"values"}),
         k \notin DOMAIN f,
         "type" \in DOMAIN f => f["type"] \in FlagTypes,
         NEW v, k = "type" => v \in FlagTypes, k = "separator" => v # NULL
  PROVE  /\ ReadSoFar(Plus(f, k, v), AttributeSet(flag, k, v))
         /\ AttributeSet(flag, k, v).uid = flag.uid
<1> DEFINE h == Plus(f, k, v)
           g == AttributeSet(flag, k, v)
<1>1. DOMAIN h = DOMAIN f \cup {k} /\ h[k] = v /\ \A l \in DOMAIN f : l # k => h[l] = f[l]
  BY DEF Plus
<1>2. DOMAIN flag = FlagFields
  BY DEF ReadSoFar
<1> HIDE DEF h
<1>3. CASE k = "name"
  <2>1. g = [flag EXCEPT !.name = v]
    BY <1>3 DEF AttributeSet
  <2> QED BY <1>1, <1>2, <1>3, <2>1 DEF ReadSoFar, FlagFields, h
<1>4. CASE k = "type"
  <2>1. g = TypeSet(flag, v) /\ v \in FlagTypes /\ DOMAIN f \subseteq {"name"} \cup Ignored
        /\ DOMAIN h \subseteq {"name", "type"} \cup Ignored
    BY <1>1, <1>4 DEF AttributeSet, ReadSoFar
  <2>2. /\ DOMAIN g = FlagFields /\ g.name = flag.name /\ g.uid = flag.uid
        /\ g.type = Code(v) /\ (flag.values = <<>> => g.values = <<>>)
    BY <1>2, <2>1 DEF TypeSet, FlagFields, Code, FlagTypes
  <2>3. flag.values = <<>>
    BY <2>1 DEF ReadSoFar, Ignored
  <2> QED BY <1>1, <1>4, <2>1, <2>2, <2>3 DEF ReadSoFar, Ignored, h
<1>5. CASE k = "default"
  <2>1. g = flag
    BY <1>5 DEF AttributeSet
  <2> QED BY <1>1, <1>2, <1>5, <2>1 DEF ReadSoFar, Ignored, h
<1>6. CASE k \notin {"name", "type", "default"}
  <2> DEFINE t == f["type"]
  <2>1. "type" \in DOMAIN f /\ k \in Attributes(t) \ {"values"} /\ t \in FlagTypes
        /\ h["type"] = t /\ flag.type = Code(t) /\ "type" \in DOMAIN h
        /\ DOMAIN h \subseteq {"name", "type"} \cup Ignored \cup Attributes(t)
    BY <1>1, <1>6 DEF ReadSoFar
  <2> HIDE DEF t
  <2>2. CASE t = "range"
    <3>1. /\ k \in {"prefix", "separator", "max", "min"} /\ flag.type = "OPT_RANGE_FLAG"
          /\ "on-prefix" \notin DOMAIN h
      BY <2>1, <2>2 DEF Attributes, Code, Ignored
    <3>2. g = IF k = "prefix" THEN [flag EXCEPT !.prefix = v]
              ELSE IF k = "separator" THEN [flag EXCEPT !.separator = v]
              ELSE IF k = "max" THEN [flag EXCEPT !.max = atoi(v)]
              ELSE [flag EXCEPT !.min = atoi(v)]
      BY <3>1 DEF AttributeSet, SeparatorSet
    <3> HIDE DEF g
    <3> QED BY <1>1, <1>2, <2>1, <3>1, <3>2 DEF ReadSoFar, FlagFields, h, g
  <2>3. CASE t = "list"
    <3>1. /\ k \in {"prefix", "separator"} /\ flag.type = "OPT_LIST_FLAG"
          /\ "on-prefix" \notin DOMAIN h
      BY <2>1, <2>3 DEF Attributes, Code, Ignored
    <3>2. g = IF k = "prefix" THEN [flag EXCEPT !.prefix = v] ELSE [flag EXCEPT !.separator = v]
      BY <3>1 DEF AttributeSet, SeparatorSet
    <3> HIDE DEF g
    <3> QED BY <1>1, <1>2, <2>1, <3>1, <3>2 DEF ReadSoFar, FlagFields, h, g
  <2>4. CASE t = "on-off"
    <3>1. k \in {"on-prefix", "off-prefix"} /\ "prefix" \notin DOMAIN h
      BY <2>1, <2>4 DEF Attributes, Code, Ignored
    <3>2. g = IF k = "on-prefix" THEN [flag EXCEPT !.prefix = v]
              ELSE [flag EXCEPT !.neg_prefix = v]
      BY <3>1 DEF AttributeSet
    <3> HIDE DEF g
    <3> QED BY <1>1, <1>2, <2>1, <3>1, <3>2 DEF ReadSoFar, FlagFields, h, g
  <2> QED BY <2>1, <2>2, <2>3, <2>4 DEF FlagTypes
<1> QED BY <1>3, <1>4, <1>5, <1>6

\* A list is opened in the file, and the reader leaves the flag as it is.
LEMMA ListOpens ==
  ASSUME NEW f, NEW flag, ReadSoFar(f, flag),
         NEW k, \/ k = "depends-on"
                \/ k = "values" /\ "type" \in DOMAIN f /\ k \in Attributes(f["type"]),
         k \notin DOMAIN f
  PROVE  ReadSoFar(Plus(f, k, <<>>), flag)
<1> DEFINE h == Plus(f, k, <<>>)
<1>1. /\ DOMAIN h = DOMAIN f \cup {k} /\ h[k] = <<>>
      /\ \A l \in DOMAIN f : l # k => h[l] = f[l]
  BY DEF Plus
<1>2. IsList(<<>>)
  BY DEF IsList
<1> HIDE DEF h
<1>3. CASE k = "depends-on"
  BY <1>1, <1>3 DEF ReadSoFar, Ignored, h
<1>4. CASE k = "values"
  BY <1>1, <1>2, <1>4 DEF ReadSoFar, h
<1> QED BY <1>3, <1>4

LEMMA SequencesAreLists ==
  ASSUME NEW S, NEW s \in Seq(S)
  PROVE  IsList(s)
BY DEF IsList

LEMMA ListGrows ==
  ASSUME NEW s, NEW x, IsList(s)
  PROVE  /\ IsList(Append(s, x)) /\ Len(Append(s, x)) = Len(s) + 1
         /\ \A i \in 1 .. Len(s) : Append(s, x)[i] = s[i]
         /\ Append(s, x)[Len(s) + 1] = x
<1> DEFINE S == {s[i] : i \in 1 .. Len(s)} \cup {x}
<1>1. s \in Seq(S)
  BY DEF IsList
<1> HIDE DEF S
<1>2. /\ Append(s, x) \in Seq(S) /\ Len(Append(s, x)) = Len(s) + 1
      /\ \A i \in 1 .. Len(s) : Append(s, x)[i] = s[i]
      /\ Append(s, x)[Len(s) + 1] = x
  <2>1. x \in S
    BY DEF S
  <2> QED BY <1>1, <2>1, AppendProperties
<1> DEFINE a == Append(s, x)
<1> HIDE DEF a
<1>3. IsList(a)
  <2>1. a \in Seq(S)
    BY <1>2 DEF a
  <2> QED BY <2>1, SequencesAreLists
<1> QED BY <1>2, <1>3 DEF a

\* One more item of the list that is open.
LEMMA ItemReads ==
  ASSUME NEW f, NEW flag, ReadSoFar(f, flag), NEW x \in {"values", "depends-on"},
         x \in DOMAIN f, NEW item
  PROVE  LET h == [f EXCEPT ![x] = Append(@, item)]
             g == IF x = "values" THEN [flag EXCEPT !.values = Append(@, item)] ELSE flag
         IN  ReadSoFar(h, g) /\ g.uid = flag.uid
<1> DEFINE h == [f EXCEPT ![x] = Append(@, item)]
           g == IF x = "values" THEN [flag EXCEPT !.values = Append(@, item)] ELSE flag
<1>1. /\ DOMAIN h = DOMAIN f /\ h[x] = Append(f[x], item)
      /\ \A l \in DOMAIN f : l # x => h[l] = f[l]
  OBVIOUS
<1>2. DOMAIN flag = FlagFields
  BY DEF ReadSoFar
<1> HIDE DEF h
<1>3. CASE x = "depends-on"
  BY <1>1, <1>3 DEF ReadSoFar, h
<1>4. CASE x = "values"
  <2>1. IsList(f["values"]) /\ flag.values = f["values"] /\ "values" \in DOMAIN f
    BY <1>4 DEF ReadSoFar
  <2>2. IsList(h["values"])
    <3>1. IsList(Append(f["values"], item))
      BY <2>1, ListGrows
    <3> QED BY <1>1, <1>4, <3>1
  <2>3. /\ DOMAIN g = FlagFields /\ g.values = h["values"] /\ g.uid = flag.uid
        /\ g.type = flag.type /\ g.name = flag.name /\ g.prefix = flag.prefix
        /\ g.neg_prefix = flag.neg_prefix /\ g.separator = flag.separator
        /\ g.min = flag.min /\ g.max = flag.max
    BY <1>1, <1>2, <1>4, <2>1 DEF FlagFields
  <2> HIDE DEF g
  <2> QED BY <1>1, <1>4, <2>2, <2>3 DEF ReadSoFar, h, g
<1> QED BY <1>3, <1>4

LEMMA FlagStarts ==
  ASSUME NEW uid
  PROVE  ReadSoFar(<<>>, NewFlag(uid)) /\ NewFlag(uid).uid = uid
BY DEF ReadSoFar, NewFlag, FlagFields

-----------------------------------------------------------------------------
(* What the reader does with an event, field by field.                     *)

LEMMA ReadsKeyOnly ==
  ASSUME NEW r, NEW v, DOMAIN r = Fields, r.state \in MapStates, r.map_key = NULL
  PROVE  LET s == Scalar(r, v)
         IN  /\ s.top = r.top /\ s.compiler = r.compiler /\ s.flags = r.flags
             /\ s.uid_counter = r.uid_counter /\ s.oa = r.oa
BY DEF Scalar, Fields

LEMMA ReadsSetting ==
  ASSUME NEW r, NEW v, DOMAIN r = Fields, r.map_key # NULL
  PROVE  LET s == Scalar(r, v)
         IN  /\ r.state = "TOP_LEVEL_MAP" /\ r.map_key \in ToSet(TopKeys) =>
                  /\ s.top = [r.top EXCEPT ![r.map_key] = v] /\ s.compiler = r.compiler
                  /\ s.flags = r.flags /\ s.uid_counter = r.uid_counter /\ s.oa = r.oa
             /\ r.state = "COMPILER_MAP" /\ r.map_key \in ToSet(CompilerKeys) =>
                  /\ s.compiler = [r.compiler EXCEPT ![r.map_key] = v] /\ s.top = r.top
                  /\ s.flags = r.flags /\ s.uid_counter = r.uid_counter /\ s.oa = r.oa
BY DEF Scalar, Fields, MapStates

\* The flag that flag_buffer points at changes, and nothing else of what is kept.
LastSet(r, s, g) ==
  /\ s.flags = [r.flags EXCEPT ![Len(r.flags)] = g]
  /\ s.top = r.top /\ s.compiler = r.compiler /\ s.uid_counter = r.uid_counter /\ s.oa = r.oa

LEMMA ReadsAttribute ==
  ASSUME NEW r, NEW v, DOMAIN r = Fields, IsList(r.flags), Len(r.flags) > 0,
         DOMAIN r.flags[Len(r.flags)] = FlagFields
  PROVE  LastSet(r, SetAttribute(r, v), AttributeSet(r.flags[Len(r.flags)], r.map_key, v))
<1> DEFINE n == Len(r.flags)
           k == r.map_key
           flag == r.flags[n]
           s == SetAttribute(r, v)
           g == AttributeSet(flag, k, v)
<1>1. n \in DOMAIN r.flags /\ r.flags = [r.flags EXCEPT ![n] = flag]
  BY DEF IsList
<1>2. CASE k = "name"
  BY <1>1, <1>2 DEF SetAttribute, AttributeSet, LastSet, Buffer, Fields, FlagFields
<1>3. CASE k = "type"
  <2>1. s = SetType(r, v) /\ g = TypeSet(flag, v)
    BY <1>3 DEF SetAttribute, AttributeSet
  <2>2. CASE v = "range"
    <3>1. /\ s = [r EXCEPT !.flags[n].type = "OPT_RANGE_FLAG", !.flags[n].min = 0,
                           !.flags[n].max = 0, !.num_flags = @ + 1]
          /\ g = [flag EXCEPT !.type = "OPT_RANGE_FLAG", !.min = 0, !.max = 0]
      BY <2>1, <2>2 DEF SetType, TypeSet, Buffer
    <3>2. s.flags = [r.flags EXCEPT ![n] = g]
      BY <1>1, <3>1 DEF Fields, FlagFields
    <3> QED BY <3>1, <3>2 DEF LastSet, Fields
  <2>3. CASE v = "list"
    <3>1. /\ s = [r EXCEPT !.flags[n].type = "OPT_LIST_FLAG", !.flags[n].values = <<>>,
                           !.num_flags = @ + 1]
          /\ g = [flag EXCEPT !.type = "OPT_LIST_FLAG", !.values = <<>>]
      BY <2>1, <2>3 DEF SetType, TypeSet, Buffer
    <3>2. s.flags = [r.flags EXCEPT ![n] = g]
      BY <1>1, <3>1 DEF Fields, FlagFields
    <3> QED BY <3>1, <3>2 DEF LastSet, Fields
  <2>4. CASE v = "on-off"
    <3>1. /\ s = [r EXCEPT !.flags[n].type = "OPT_ONOFF_FLAG", !.num_flags = @ + 1]
          /\ g = [flag EXCEPT !.type = "OPT_ONOFF_FLAG"]
      BY <2>1, <2>4 DEF SetType, TypeSet, Buffer
    <3>2. s.flags = [r.flags EXCEPT ![n] = g]
      BY <1>1, <3>1 DEF Fields, FlagFields
    <3> QED BY <3>1, <3>2 DEF LastSet, Fields
  <2>5. CASE v \notin {"range", "list", "on-off"}
    BY <1>1, <2>1, <2>5 DEF SetType, TypeSet, LastSet
  <2> QED BY <2>2, <2>3, <2>4, <2>5
<1>4. CASE k \in {"on-prefix", "prefix"}
  BY <1>1, <1>4 DEF SetAttribute, AttributeSet, LastSet, Buffer, Fields, FlagFields
<1>5. CASE k = "off-prefix"
  BY <1>1, <1>5 DEF SetAttribute, AttributeSet, LastSet, Buffer, Fields, FlagFields
<1>6. CASE k = "separator"
  <2>1. s = SetSeparator(r, v) /\ g = SeparatorSet(flag, v)
    BY <1>6 DEF SetAttribute, AttributeSet
  <2>2. CASE flag.type \in {"OPT_LIST_FLAG", "OPT_RANGE_FLAG"}
    BY <1>1, <2>1, <2>2 DEF SetSeparator, SeparatorSet, LastSet, Buffer, Fields, FlagFields
  <2>3. CASE flag.type \notin {"OPT_LIST_FLAG", "OPT_RANGE_FLAG"}
    BY <1>1, <2>1, <2>3 DEF SetSeparator, SeparatorSet, LastSet, Buffer
  <2> QED BY <2>2, <2>3
<1>7. CASE k = "max"
  BY <1>1, <1>7 DEF SetAttribute, AttributeSet, LastSet, Buffer, Fields, FlagFields
<1>8. CASE k = "min"
  BY <1>1, <1>8 DEF SetAttribute, AttributeSet, LastSet, Buffer, Fields, FlagFields
<1>9. CASE k \notin {"name", "type", "on-prefix", "prefix", "off-prefix", "separator", "max", "min"}
  BY <1>1, <1>9 DEF SetAttribute, AttributeSet, LastSet
<1> QED BY <1>2, <1>3, <1>4, <1>5, <1>6, <1>7, <1>8, <1>9

LEMMA ReadsFlagValue ==
  ASSUME NEW r, NEW v, DOMAIN r = Fields, r.state = "COMPILER_FLAG_MAP", r.map_key # NULL,
         IsList(r.flags), Len(r.flags) > 0, DOMAIN r.flags[Len(r.flags)] = FlagFields
  PROVE  LastSet(r, Scalar(r, v), AttributeSet(r.flags[Len(r.flags)], r.map_key, v))
<1> DEFINE a == SetAttribute(r, v)
<1>1. LastSet(r, a, AttributeSet(r.flags[Len(r.flags)], r.map_key, v))
  BY ReadsAttribute
<1>2. Scalar(r, v) = [a EXCEPT !.map_key = NULL]
  BY DEF Scalar, MapStates
<1>3. DOMAIN a = Fields
  BY DEF SetAttribute, SetType, SetSeparator, Fields
<1> HIDE DEF a
<1> QED BY <1>1, <1>2, <1>3 DEF LastSet, Fields

LEMMA ReadsListed ==
  ASSUME NEW r, NEW v, DOMAIN r = Fields, r.state = "COMPILER_FLAG_MAP_SEQ",
         IsList(r.flags), Len(r.flags) > 0, DOMAIN r.flags[Len(r.flags)] = FlagFields
  PROVE  LET flag == r.flags[Len(r.flags)]
         IN  LastSet(r, Scalar(r, v),
                     IF r.oa = "values" THEN [flag EXCEPT !.values = Append(@, v)] ELSE flag)
<1> DEFINE n == Len(r.flags)
<1>1. n \in DOMAIN r.flags /\ r.flags = [r.flags EXCEPT ![n] = r.flags[n]]
  BY DEF IsList
<1>2. CASE r.oa = "values"
  <2>1. Scalar(r, v) = [r EXCEPT !.flags[n].values = Append(@, v)]
    BY <1>2 DEF Scalar, MapStates, Buffer
  <2> QED BY <1>1, <1>2, <2>1 DEF LastSet, Fields, FlagFields
<1>3. CASE r.oa # "values"
  <2>1. Scalar(r, v) = r
    BY <1>3 DEF Scalar, MapStates
  <2> QED BY <1>1, <1>3, <2>1 DEF LastSet
<1> QED BY <1>2, <1>3

LEMMA StartsAndEnds ==
  ASSUME NEW r, DOMAIN r = Fields
  PROVE  /\ LET s == MappingStart(r)
            IN  /\ s.top = r.top /\ s.compiler = r.compiler /\ s.oa = r.oa
                /\ r.state = "COMPILER_FLAGS_SEQ" =>
                     /\ s.flags = Append(r.flags, NewFlag(r.uid_counter))
                     /\ s.uid_counter = r.uid_counter + 1
                /\ r.state # "COMPILER_FLAGS_SEQ" =>
                     s.flags = r.flags /\ s.uid_counter = r.uid_counter
         /\ LET s == SequenceStart(r)
            IN  /\ s.top = r.top /\ s.compiler = r.compiler /\ s.flags = r.flags
                /\ s.uid_counter = r.uid_counter
                /\ s.oa = IF r.state = "COMPILER_FLAG_MAP"
                             /\ r.map_key \in {"values", "depends-on"} THEN r.map_key ELSE r.oa
         /\ LET s == MappingEnd(r)
            IN  /\ s.top = r.top /\ s.compiler = r.compiler /\ s.oa = r.oa
                /\ s.uid_counter = r.uid_counter
                /\ s.flags = IF r.state = "COMPILER_MAP" THEN Append(r.flags, NoFlag) ELSE r.flags
         /\ LET s == SequenceEnd(r)
            IN  /\ s.top = r.top /\ s.compiler = r.compiler /\ s.flags = r.flags
                /\ s.uid_counter = r.uid_counter
                /\ s.oa = IF r.state = "COMPILER_FLAG_MAP_SEQ" THEN None ELSE r.oa
<1>1. LET s == MappingStart(r)
      IN  /\ s.top = r.top /\ s.compiler = r.compiler /\ s.oa = r.oa
          /\ r.state = "COMPILER_FLAGS_SEQ" =>
               /\ s.flags = Append(r.flags, NewFlag(r.uid_counter))
               /\ s.uid_counter = r.uid_counter + 1
          /\ r.state # "COMPILER_FLAGS_SEQ" => s.flags = r.flags /\ s.uid_counter = r.uid_counter
  BY DEF MappingStart, Fields
<1>2. LET s == SequenceStart(r)
      IN  /\ s.top = r.top /\ s.compiler = r.compiler /\ s.flags = r.flags
          /\ s.uid_counter = r.uid_counter
          /\ s.oa = IF r.state = "COMPILER_FLAG_MAP"
                       /\ r.map_key \in {"values", "depends-on"} THEN r.map_key ELSE r.oa
  BY DEF SequenceStart, Fields
<1>3. LET s == MappingEnd(r)
      IN  /\ s.top = r.top /\ s.compiler = r.compiler /\ s.oa = r.oa
          /\ s.uid_counter = r.uid_counter
          /\ s.flags = IF r.state = "COMPILER_MAP" THEN Append(r.flags, NoFlag) ELSE r.flags
  BY DEF MappingEnd, Fields
<1>4. LET s == SequenceEnd(r)
      IN  /\ s.top = r.top /\ s.compiler = r.compiler /\ s.flags = r.flags
          /\ s.uid_counter = r.uid_counter
          /\ s.oa = IF r.state = "COMPILER_FLAG_MAP_SEQ" THEN None ELSE r.oa
  BY DEF SequenceEnd, Fields
<1> QED BY <1>1, <1>2, <1>3, <1>4

-----------------------------------------------------------------------------
(* What leaves a part of the invariant alone.                              *)

LEMMA TextOfPlus ==
  ASSUME NEW m, NEW k, NEW v, NEW l, NEW absent
  PROVE  Text(Plus(m, k, v), l, absent) = IF l = k THEN v ELSE Text(m, l, absent)
BY DEF Text, ValueOf, Plus

LEMMA SettingsStand ==
  ASSUME Settings, reader'.top = reader.top, reader'.compiler = reader.compiler,
         \A absent : \A k \in ToSet(TopKeys) :
           Text(doc'.top, k, absent) = Text(doc.top, k, absent),
         \A absent : \A k \in ToSet(CompilerKeys) :
           Text(doc'.compiler, k, absent) = Text(doc.compiler, k, absent)
  PROVE  Settings'
BY DEF Settings

LEMMA FlagsStand ==
  ASSUME FlagsRead, doc'.flags = doc.flags, reader'.flags = reader.flags,
         reader'.uid_counter = reader.uid_counter, CompilerClosed' <=> CompilerClosed
  PROVE  FlagsRead'
BY DEF FlagsRead

LEMMA CompleteStand ==
  ASSUME ClosedComplete, doc'.flags = doc.flags, Len(nest') < 4 => Len(nest) < 4
  PROVE  ClosedComplete'
BY DEF ClosedComplete

\* While the compiler is open the array and the file have the same flags.
LEMMA WhileOpen ==
  ASSUME ReaderInv, ConfigInv, Len(nest) >= 2
  PROVE  /\ ~CompilerClosed /\ Len(reader.flags) = Len(doc.flags)
         /\ reader.uid_counter = Len(doc.flags) /\ IsList(reader.flags)
         /\ Len(doc.flags) \in Nat /\ DOMAIN doc.flags = 1 .. Len(doc.flags)
         /\ IsList(doc.flags)
<1>1. Len(nest) \in 0 .. 5 /\ Recorded
  BY Here
<1>2. ~CompilerClosed
  BY <1>1 DEF CompilerClosed
<1>3. IsList(doc.flags) /\ DOMAIN doc.flags = 1 .. Len(doc.flags)
  BY <1>1 DEF Recorded, IsList
<1> QED BY <1>2, <1>3 DEF ConfigInv, FlagsRead, IsList

\* The flag that is open, in the file and in the array.
LEMMA OpenFlag ==
  ASSUME ReaderInv, ConfigInv, Len(nest) >= 4
  PROVE  LET n == Len(doc.flags)
         IN  /\ n \in Nat \ {0} /\ n \in DOMAIN doc.flags /\ Len(reader.flags) = n
             /\ DOMAIN doc.flags = 1 .. n /\ DOMAIN reader.flags = 1 .. n
             /\ reader.flags[n].uid = n - 1 /\ DOMAIN reader.flags[n] = FlagFields
             /\ ReadSoFar(doc.flags[n], reader.flags[n])
             /\ "type" \in DOMAIN doc.flags[n] => doc.flags[n]["type"] \in FlagTypes
<1> DEFINE n == Len(doc.flags)
<1>1. /\ Len(reader.flags) = n /\ IsList(reader.flags) /\ n \in Nat /\ DOMAIN doc.flags = 1 .. n
      /\ Len(nest) \in 0 .. 5 /\ Recorded
  BY WhileOpen, Here
<1>2. n > 0
  BY Here DEF Formed
<1>3. reader.flags[n].uid = n - 1 /\ ReadSoFar(doc.flags[n], reader.flags[n])
  BY <1>1, <1>2 DEF ConfigInv, FlagsRead
<1>4. "type" \in DOMAIN doc.flags[n] => doc.flags[n]["type"] \in FlagTypes
  BY <1>1, <1>2 DEF Recorded
<1> QED BY <1>1, <1>2, <1>3, <1>4 DEF ReadSoFar, IsList

\* Both change in the same way.
LEMMA OpenFlagChanges ==
  ASSUME ReaderInv, ConfigInv, Len(nest) >= 4, Len(nest') >= 4, Len(nest') \in Nat,
         NEW f, NEW g, ReadSoFar(f, g), g.uid = reader.flags[Len(doc.flags)].uid,
         doc'.flags = [doc.flags EXCEPT ![Len(doc.flags)] = f],
         reader'.flags = [reader.flags EXCEPT ![Len(reader.flags)] = g],
         reader'.uid_counter = reader.uid_counter
  PROVE  FlagsRead' /\ ClosedComplete' /\ doc'.flags[Len(doc'.flags)] = f
<1> DEFINE n == Len(doc.flags)
<1>1. /\ n \in Nat \ {0} /\ DOMAIN doc.flags = 1 .. n /\ DOMAIN reader.flags = 1 .. n
      /\ Len(reader.flags) = n /\ reader.flags[n].uid = n - 1
      /\ IsList(reader.flags) /\ IsList(doc.flags) /\ reader.uid_counter = n
  BY OpenFlag, WhileOpen, Here
<1>2. doc'.flags = [i \in 1 .. n |-> IF i = n THEN f ELSE doc.flags[i]]
  BY <1>1
<1>3. reader'.flags = [i \in 1 .. n |-> IF i = n THEN g ELSE reader.flags[i]]
  BY <1>1
<1> HIDE DEF n
<1>4. Len(doc'.flags) = n /\ \A i \in 1 .. n : doc'.flags[i] = IF i = n THEN f ELSE doc.flags[i]
  BY <1>1, <1>2
<1>5. /\ Len(reader'.flags) = n
      /\ \A i \in 1 .. n : reader'.flags[i] = IF i = n THEN g ELSE reader.flags[i]
      /\ IsList(reader'.flags)
  <2> DEFINE h == reader'.flags
  <2>1. Len(h) = n /\ DOMAIN h = 1 .. n /\ \A i \in 1 .. n : h[i] = IF i = n THEN g ELSE reader.flags[i]
    BY <1>1, <1>3
  <2>2. h = [i \in 1 .. n |-> h[i]]
    BY <1>3, <2>1
  <2> HIDE DEF h
  <2>3. IsList(h)
    BY <1>1, <2>1, <2>2 DEF IsList
  <2> QED BY <2>1, <2>3 DEF h
<1>6. ~CompilerClosed'
  BY DEF CompilerClosed
<1>7. \A i \in 1 .. n : reader'.flags[i].uid = i - 1 /\ ReadSoFar(doc'.flags[i], reader'.flags[i])
  <2> SUFFICES ASSUME NEW i \in 1 .. n
               PROVE  reader'.flags[i].uid = i - 1 /\ ReadSoFar(doc'.flags[i], reader'.flags[i])
    OBVIOUS
  <2>1. CASE i = n
    BY <1>1, <1>4, <1>5, <2>1 DEF n
  <2>2. CASE i # n
    <3>1. reader'.flags[i] = reader.flags[i] /\ doc'.flags[i] = doc.flags[i]
      BY <1>4, <1>5, <2>2
    <3>2. reader.flags[i].uid = i - 1 /\ ReadSoFar(doc.flags[i], reader.flags[i])
      BY DEF ConfigInv, FlagsRead, n
    <3> QED BY <3>1, <3>2
  <2> QED BY <2>1, <2>2
<1>8. FlagsRead'
  BY <1>1, <1>4, <1>5, <1>6, <1>7 DEF FlagsRead
<1>9. ClosedComplete'
  <2> SUFFICES ASSUME NEW i \in 1 .. n, i < n
               PROVE  "type" \in DOMAIN doc'.flags[i] /\ Complete(doc'.flags[i])
    BY <1>4 DEF ClosedComplete
  <2>1. doc'.flags[i] = doc.flags[i]
    BY <1>1, <1>4
  <2> QED BY <2>1 DEF ConfigInv, ClosedComplete, n
<1>10. doc'.flags[Len(doc'.flags)] = f
  BY <1>1, <1>4
<1> QED BY <1>8, <1>9, <1>10

-----------------------------------------------------------------------------
(* The steps of the writer, each with the reader's answer to its event.    *)

LEMMA SettingNames ==
  /\ ToSet(TopKeys) = FileKeys \ {"compiler"}
  /\ ToSet(CompilerKeys) = {"name", "version"}
<1>1. DOMAIN TopKeys = 1 .. 9 /\ DOMAIN CompilerKeys = 1 .. 2
  BY DEF TopKeys, CompilerKeys
<1>2. ToSet(CompilerKeys) = {"name", "version"}
  BY <1>1 DEF ToSet, CompilerKeys
<1>3. \A k : k \in ToSet(TopKeys) <=> \E i \in 1 .. 9 : k = TopKeys[i]
  BY <1>1 DEF ToSet
<1>4. 1 .. 9 = {1, 2, 3, 4, 5, 6, 7, 8, 9}
  OBVIOUS
<1>5. ToSet(TopKeys) = FileKeys \ {"compiler"}
  BY <1>3, <1>4 DEF TopKeys, FileKeys
<1> QED BY <1>2, <1>5

LEMMA NextKeysAreNew ==
  ASSUME NEW S, NEW order \in Seq(S), NEW written, NEW optional,
         NEW k \in NextKeys(order, written, optional)
  PROVE  k \notin written
<1>1. PICK i \in DOMAIN order : k = order[i] /\ \A l \in i .. Len(order) : order[l] \notin written
  BY DEF NextKeys
<1>2. i \in i .. Len(order)
  OBVIOUS
<1> QED BY <1>1, <1>2

LEMMA NextAttributesFit ==
  ASSUME TypeFirst, Formed, Len(nest) >= 4, NEW k \in NextAttributes
  PROVE  /\ k \notin DOMAIN ThisFlag
         /\ \/ k \in {"name", "type"} \cup Ignored
            \/ "type" \in DOMAIN ThisFlag /\ k \in Attributes(ThisFlag["type"])
<1>1. k \notin DOMAIN ThisFlag
  BY OfFlag
<1> DEFINE type == ValueOf(ThisFlag, "type")
           types == IF type = None THEN Types ELSE {type}
<1>2. k \in {"name", "type"} \cup Ignored \/ (k \in UNION {Attributes(t) : t \in types} /\ type # None)
  BY DEF NextAttributes
<1>3. type # None => "type" \in DOMAIN ThisFlag /\ type = ThisFlag["type"]
  BY DEF ValueOf
<1> QED BY <1>1, <1>2, <1>3

\* No key is waiting, and no list is open.
LEMMA NothingWaits ==
  ASSUME key' = NULL, Innermost' \notin {"values", "depends-on"}, reader'.oa = None
  PROVE  AttributeFits'
BY DEF AttributeFits

LEMMA WriteKeyReads ==
  ASSUME TypeFirst, ReaderInv, ConfigInv, WriteKey
  PROVE  ConfigInv'
<1> USE Here
<1>1. key = NULL /\ UNCHANGED <<nest, doc>> /\ Innermost' = Innermost /\ ThisFlag' = ThisFlag
  BY DEF WriteKey, Innermost, ThisFlag
<1>2. PICK k \in CASE Innermost = "file" ->
                        NextKeys(TopKeys \o <<"compiler">>, DOMAIN doc.top, Optional)
                   [] Innermost = "compiler" ->
                        NextKeys(CompilerKeys \o <<"flags">>, DOMAIN doc.compiler, Optional)
                   [] Innermost = "flag" -> NextAttributes
                   [] OTHER -> {} :
        key' = k /\ reader' = Scalar(reader, k)
  BY DEF WriteKey
<1>3. \/ Innermost = "file" /\ (k = "compiler" => "compiler" \notin DOMAIN doc.top)
      \/ Innermost = "compiler" /\ k # "compiler"
      \/ /\ Innermost = "flag" /\ k # "compiler" /\ k \notin DOMAIN ThisFlag
         /\ \/ k \in {"name", "type"} \cup Ignored
            \/ "type" \in DOMAIN ThisFlag /\ k \in Attributes(ThisFlag["type"])
  <2>1. CASE Innermost = "file"
    <3>1. k \in NextKeys(TopKeys \o <<"compiler">>, DOMAIN doc.top, Optional)
      BY <1>2, <2>1
    <3>2. TopKeys \in Seq(FileKeys) /\ <<"compiler">> \in Seq(FileKeys)
      BY DEF TopKeys, FileKeys
    <3>3. TopKeys \o <<"compiler">> \in Seq(FileKeys)
      BY <3>2, ConcatProperties
    <3>4. k \notin DOMAIN doc.top
      BY <3>1, <3>3, NextKeysAreNew
    <3> QED BY <2>1, <3>4
  <2>2. CASE Innermost = "compiler"
    <3>1. k \in NextKeys(CompilerKeys \o <<"flags">>, DOMAIN doc.compiler, Optional)
      BY <1>2, <2>2
    <3>2. k \in {"name", "version", "flags"}
      BY <3>1, OfCompiler
    <3> QED BY <2>2, <3>2
  <2>3. CASE Innermost = "flag"
    <3>1. k \in NextAttributes
      BY <1>2, <2>3
    <3>2. Len(nest) >= 4
      <4>1. Len(nest) = 4
        BY <2>3
      <4> QED BY <4>1
    <3>3. k \in FlagKeys
      BY <3>1, <3>2, OfFlag
    <3> QED BY <2>3, <3>1, <3>2, <3>3, NextAttributesFit DEF FlagKeys
  <2>4. CASE Innermost \notin {"file", "compiler", "flag"}
    BY <1>2, <2>4
  <2> QED BY <2>1, <2>2, <2>3, <2>4
<1>4. reader.state \in MapStates
  BY <1>3, States DEF MapStates
<1>5. /\ reader'.top = reader.top /\ reader'.compiler = reader.compiler
      /\ reader'.flags = reader.flags /\ reader'.uid_counter = reader.uid_counter
      /\ reader'.oa = reader.oa
  BY <1>1, <1>2, <1>4, ReadsKeyOnly
<1>6. CompilerOnce'
  BY <1>1, <1>2, <1>3 DEF ConfigInv, CompilerOnce
<1>7. Settings'
  BY <1>1, <1>5, SettingsStand DEF ConfigInv
<1>8. AttributeFits'
  BY <1>1, <1>2, <1>3, <1>5 DEF ConfigInv, AttributeFits
<1>9. FlagsRead'
  BY <1>1, <1>5, FlagsStand DEF ConfigInv, CompilerClosed
<1>10. ClosedComplete'
  BY <1>1, CompleteStand DEF ConfigInv
<1> QED BY <1>6, <1>7, <1>8, <1>9, <1>10 DEF ConfigInv

LEMMA WriteValueReads ==
  ASSUME ReaderInv, ConfigInv, WriteValue
  PROVE  ConfigInv'
<1> USE Here
<1>1. /\ key \notin {NULL, "compiler", "flags", "values", "depends-on"}
      /\ key' = NULL /\ UNCHANGED nest /\ Innermost' = Innermost
  BY DEF WriteValue, Innermost
<1>2. PICK v \in TextOf(key) :
        /\ doc' = CASE Innermost = "file" -> [doc EXCEPT !.top = Plus(@, key, v)]
                    [] Innermost = "compiler" ->
                         [doc EXCEPT !.compiler = Plus(@, key, v)]
                    [] OTHER -> [doc EXCEPT !.flags[Len(doc.flags)] = Plus(@, key, v)]
        /\ reader' = Scalar(reader, v)
  BY DEF WriteValue
<1>3. reader.map_key # NULL /\ reader.map_key = key
  BY <1>1
<1>4. DOMAIN doc = {"top", "compiler", "flags"}
  BY DEF Recorded
<1>5. Innermost \notin {"values", "depends-on"} /\ reader.oa = None
  BY <1>1 DEF KeyFits, ConfigInv, AttributeFits
<1>6. CASE Innermost = "file"
  <2>1. key \in ToSet(TopKeys)
    BY <1>1, <1>6, SettingNames DEF KeyFits
  <2>2. /\ doc'.top = Plus(doc.top, key, v) /\ doc'.compiler = doc.compiler
        /\ doc'.flags = doc.flags
    <3>1. doc' = [doc EXCEPT !.top = Plus(@, key, v)]
      BY <1>2, <1>6
    <3> QED BY <1>4, <3>1
  <2>3. /\ reader'.top = [reader.top EXCEPT ![key] = v] /\ reader'.compiler = reader.compiler
        /\ reader'.flags = reader.flags /\ reader'.uid_counter = reader.uid_counter
        /\ reader'.oa = reader.oa
    <3>1. reader.state = "TOP_LEVEL_MAP"
      BY <1>6, States
    <3> QED BY <1>2, <1>3, <2>1, <3>1, ReadsSetting
  <2>4. DOMAIN doc'.top = DOMAIN doc.top \cup {key}
    BY <2>2 DEF Plus
  <2>5. Len(nest) = 1
    BY <1>6
  <2>6. CompilerOnce'
    BY <1>1, <2>4, <2>5 DEF CompilerOnce, ConfigInv, NULL
  <2>7. Settings'
    BY <2>1, <2>2, <2>3, TextOfPlus DEF ConfigInv, Settings
  <2>8. AttributeFits'
    BY <1>1, <1>5, <2>3, NothingWaits
  <2>9. FlagsRead'
    BY <1>1, <2>2, <2>3, <2>4, FlagsStand DEF ConfigInv, CompilerClosed
  <2>10. ClosedComplete'
    BY <1>1, <2>2, CompleteStand DEF ConfigInv
  <2> QED BY <2>6, <2>7, <2>8, <2>9, <2>10 DEF ConfigInv
<1>7. CASE Innermost = "compiler"
  <2>1. key \in ToSet(CompilerKeys)
    BY <1>1, <1>7, SettingNames DEF KeyFits
  <2>2. /\ doc'.compiler = Plus(doc.compiler, key, v) /\ doc'.top = doc.top
        /\ doc'.flags = doc.flags
    <3>1. doc' = [doc EXCEPT !.compiler = Plus(@, key, v)]
      BY <1>2, <1>7
    <3> QED BY <1>4, <3>1
  <2>3. /\ reader'.compiler = [reader.compiler EXCEPT ![key] = v] /\ reader'.top = reader.top
        /\ reader'.flags = reader.flags /\ reader'.uid_counter = reader.uid_counter
        /\ reader'.oa = reader.oa
    <3>1. reader.state = "COMPILER_MAP"
      BY <1>7, States
    <3> QED BY <1>2, <1>3, <2>1, <3>1, ReadsSetting
  <2>4. CompilerOnce'
    BY <1>1, <2>2 DEF CompilerOnce, ConfigInv, NULL
  <2>5. Settings'
    BY <2>1, <2>2, <2>3, TextOfPlus DEF ConfigInv, Settings
  <2>6. AttributeFits'
    BY <1>1, <1>5, <2>3, NothingWaits
  <2>7. FlagsRead'
    BY <1>1, <2>2, <2>3, FlagsStand DEF ConfigInv, CompilerClosed
  <2>8. ClosedComplete'
    BY <1>1, <2>2, CompleteStand DEF ConfigInv
  <2> QED BY <2>4, <2>5, <2>6, <2>7, <2>8 DEF ConfigInv
<1>8. CASE Innermost = "flag"
  <2> DEFINE n == Len(doc.flags)
             f == Plus(doc.flags[n], key, v)
             g == AttributeSet(reader.flags[n], key, v)
  <2>1. Len(nest) >= 4 /\ Len(nest') >= 4 /\ Len(nest') \in Nat
    <3>1. Len(nest) = 4
      BY <1>8
    <3> QED BY <1>1, <3>1
  <2>2. /\ n \in Nat \ {0} /\ n \in DOMAIN doc.flags /\ Len(reader.flags) = n
        /\ DOMAIN reader.flags[n] = FlagFields /\ ReadSoFar(doc.flags[n], reader.flags[n])
        /\ "type" \in DOMAIN doc.flags[n] => doc.flags[n]["type"] \in FlagTypes
        /\ IsList(reader.flags)
    BY <2>1, OpenFlag, WhileOpen
  <2>3. /\ key \notin DOMAIN doc.flags[n]
        /\ \/ key \in {"name", "type", "default"}
           \/ /\ "type" \in DOMAIN doc.flags[n]
              /\ key \in Attributes(doc.flags[n]["type"]) \ {"values"}
    BY <1>1, <1>8 DEF ConfigInv, AttributeFits, ThisFlag, Ignored
  <2>4. (key = "type" => v \in FlagTypes) /\ (key = "separator" => v # NULL)
    <3>1. "type" \notin Long /\ "separator" \notin Long
      BY LongAssumption, SettingNames DEF FileKeys
    <3>2. TextOf("type") \subseteq FlagTypes /\ TextOf("separator") = {"short"}
      BY <3>1 DEF TextOf, Types, FlagTypes, Numbers
    <3> QED BY <1>2, <3>2 DEF NULL
  <2>5. ReadSoFar(f, g) /\ g.uid = reader.flags[n].uid
    <3> HIDE DEF n
    <3> QED BY <2>2, <2>3, <2>4, FlagReads
  <2>6. /\ doc'.flags = [doc.flags EXCEPT ![n] = f] /\ doc'.top = doc.top
        /\ doc'.compiler = doc.compiler
    <3>1. doc' = [doc EXCEPT !.flags[n] = Plus(@, key, v)]
      BY <1>2, <1>8
    <3> QED BY <1>4, <2>2, <3>1
  <2>7. LastSet(reader, reader', g)
    <3>1. reader.state = "COMPILER_FLAG_MAP"
      BY <1>8, States
    <3>2. Len(reader.flags) > 0
      BY <2>2
    <3> QED BY <1>2, <1>3, <2>2, <3>1, <3>2, ReadsFlagValue
  <2> HIDE DEF f, g
  <2>8. FlagsRead' /\ ClosedComplete'
    BY <2>1, <2>2, <2>5, <2>6, <2>7, OpenFlagChanges DEF LastSet
  <2>9. CompilerOnce'
    BY <1>1, <2>6 DEF CompilerOnce, ConfigInv, NULL
  <2>10. Settings'
    BY <2>6, <2>7, SettingsStand DEF ConfigInv, LastSet
  <2>11. AttributeFits'
    BY <1>1, <1>5, <2>7, NothingWaits DEF LastSet
  <2> QED BY <2>8, <2>9, <2>10, <2>11 DEF ConfigInv
<1> QED BY <1>1, <1>6, <1>7, <1>8 DEF KeyFits

\* A flag starts, in the file and in the array.
LEMMA FlagOpens ==
  ASSUME ReaderInv, ConfigInv, Len(nest) = 3, Len(nest') = 4,
         doc'.flags = Append(doc.flags, <<>>),
         reader'.flags = Append(reader.flags, NewFlag(reader.uid_counter)),
         reader'.uid_counter = reader.uid_counter + 1
  PROVE  FlagsRead' /\ ClosedComplete'
<1> DEFINE n == Len(doc.flags)
           h == doc'.flags
           s == reader'.flags
<1>1. /\ Len(reader.flags) = n /\ reader.uid_counter = n /\ n \in Nat
      /\ IsList(reader.flags) /\ IsList(doc.flags)
  BY WhileOpen
<1>2. Len(h) = n + 1 /\ h[n + 1] = <<>> /\ \A i \in 1 .. n : h[i] = doc.flags[i]
  BY <1>1, ListGrows
<1>3. /\ Len(s) = n + 1 /\ s[n + 1] = NewFlag(n) /\ IsList(s)
      /\ \A i \in 1 .. n : s[i] = reader.flags[i]
  BY <1>1, ListGrows
<1>4. \A i \in 1 .. n : reader.flags[i].uid = i - 1 /\ ReadSoFar(doc.flags[i], reader.flags[i])
  BY DEF ConfigInv, FlagsRead
<1>5. \A i \in 1 .. n : "type" \in DOMAIN doc.flags[i] /\ Complete(doc.flags[i])
  BY DEF ConfigInv, ClosedComplete
<1>6. reader'.uid_counter = n + 1
  BY <1>1
<1> HIDE DEF n
<1>7. ASSUME NEW i \in 1 .. n + 1
      PROVE  s[i].uid = i - 1 /\ ReadSoFar(h[i], s[i])
  <2>1. CASE i = n + 1
    <3>1. ReadSoFar(<<>>, NewFlag(n)) /\ NewFlag(n).uid = n
      BY FlagStarts
    <3>2. i - 1 = n
      BY <1>1, <2>1
    <3> QED BY <1>2, <1>3, <2>1, <3>1, <3>2
  <2>2. CASE i # n + 1
    <3>1. i \in 1 .. n
      BY <1>1, <2>2
    <3> QED BY <1>2, <1>3, <1>4, <3>1
  <2> QED BY <2>1, <2>2
<1>8. ~CompilerClosed'
  BY DEF CompilerClosed
<1>9. FlagsRead'
  BY <1>2, <1>3, <1>6, <1>7, <1>8 DEF FlagsRead
<1>10. ASSUME NEW i \in 1 .. n + 1, i < n + 1
       PROVE  "type" \in DOMAIN h[i] /\ Complete(h[i])
  <2>1. i \in 1 .. n
    BY <1>1, <1>10
  <2> QED BY <1>2, <1>5, <2>1
<1>11. ClosedComplete'
  BY <1>2, <1>10 DEF ClosedComplete
<1> QED BY <1>9, <1>11

LEMMA OpenMappingReads ==
  ASSUME ReaderInv, ConfigInv, OpenMapping
  PROVE  ConfigInv'
<1> USE Here
<1>1. key' = NULL /\ reader' = MappingStart(reader)
  BY DEF OpenMapping
<1>2. /\ reader'.top = reader.top /\ reader'.compiler = reader.compiler /\ reader'.oa = reader.oa
      /\ reader.state = "COMPILER_FLAGS_SEQ" =>
           /\ reader'.flags = Append(reader.flags, NewFlag(reader.uid_counter))
           /\ reader'.uid_counter = reader.uid_counter + 1
      /\ reader.state # "COMPILER_FLAGS_SEQ" =>
           reader'.flags = reader.flags /\ reader'.uid_counter = reader.uid_counter
  BY <1>1, StartsAndEnds
<1>3. DOMAIN doc = {"top", "compiler", "flags"}
  BY DEF Recorded
<1>4. CASE nest = <<>> /\ DOMAIN doc.top = {} /\ nest' = <<"file">> /\ UNCHANGED doc
  <2>1. Len(nest) = 0 /\ Len(nest') = 1 /\ Innermost = None /\ Innermost' = "file"
    BY <1>4 DEF Innermost, Last
  <2>2. reader'.flags = reader.flags /\ reader'.uid_counter = reader.uid_counter
    BY <1>2, <2>1, States
  <2>3. CompilerOnce'
    BY <1>1, <2>1, <1>4 DEF CompilerOnce, NULL
  <2>4. Settings'
    BY <1>2, <1>4, SettingsStand DEF ConfigInv
  <2>5. AttributeFits'
    <3>1. reader.oa = None
      BY <2>1 DEF ConfigInv, AttributeFits, None
    <3> QED BY <1>1, <1>2, <2>1, <3>1, NothingWaits
  <2>6. FlagsRead'
    BY <1>4, <2>1, <2>2, FlagsStand DEF ConfigInv, CompilerClosed
  <2>7. ClosedComplete'
    BY <1>4, <2>1, CompleteStand DEF ConfigInv
  <2> QED BY <2>3, <2>4, <2>5, <2>6, <2>7 DEF ConfigInv
<1>5. CASE /\ key = "compiler" /\ nest' = Append(nest, "compiler")
           /\ doc' = [doc EXCEPT !.top = Plus(@, key, "mapping")]
  <2>1. Innermost = "file"
    BY <1>5 DEF KeyFits, FlagKeys, NULL
  <2>2. Len(nest) = 1
    BY <2>1
  <2>3. "compiler" \in At(Len(nest) + 1) /\ "compiler" \in Kinds
    BY <2>2 DEF At, Kinds
  <2>4. Len(nest') = 2 /\ Innermost' = "compiler"
    BY <1>5, <2>2, <2>3, Opened
  <2>5. /\ doc'.top = Plus(doc.top, "compiler", "mapping") /\ doc'.compiler = doc.compiler
        /\ doc'.flags = doc.flags
    BY <1>3, <1>5
  <2>6. "compiler" \in DOMAIN doc'.top
    BY <2>5 DEF Plus
  <2>7. reader'.flags = reader.flags /\ reader'.uid_counter = reader.uid_counter
    BY <1>2, <2>1, States
  <2>8. ~CompilerClosed /\ ~CompilerClosed'
    BY <1>5, <2>4 DEF ConfigInv, CompilerOnce, CompilerClosed
  <2>9. CompilerOnce'
    BY <1>1, <2>6 DEF CompilerOnce, NULL
  <2>10. Settings'
    <3>1. "compiler" \notin ToSet(TopKeys)
      BY SettingNames
    <3> QED BY <1>2, <2>5, <3>1, TextOfPlus, SettingsStand DEF ConfigInv
  <2>11. AttributeFits'
    <3>1. reader.oa = None
      BY <2>1 DEF ConfigInv, AttributeFits
    <3> QED BY <1>1, <1>2, <2>4, <3>1, NothingWaits
  <2>12. FlagsRead'
    BY <2>5, <2>7, <2>8, FlagsStand DEF ConfigInv
  <2>13. ClosedComplete'
    BY <2>2, <2>5, CompleteStand DEF ConfigInv
  <2> QED BY <2>9, <2>10, <2>11, <2>12, <2>13 DEF ConfigInv
<1>6. CASE /\ Innermost = "flags" /\ nest' = Append(nest, "flag")
           /\ doc' = [doc EXCEPT !.flags = Append(@, <<>>)]
  <2>1. Len(nest) = 3
    BY <1>6
  <2>2. "flag" \in At(Len(nest) + 1) /\ "flag" \in Kinds
    BY <2>1 DEF At, Kinds
  <2>3. Len(nest') = 4 /\ Innermost' = "flag"
    BY <1>6, <2>1, <2>2, Opened
  <2>4. /\ doc'.top = doc.top /\ doc'.compiler = doc.compiler
        /\ doc'.flags = Append(doc.flags, <<>>)
    BY <1>3, <1>6
  <2>5. reader.state = "COMPILER_FLAGS_SEQ"
    BY <1>6, States
  <2>6. FlagsRead' /\ ClosedComplete'
    BY <1>2, <2>1, <2>3, <2>4, <2>5, FlagOpens
  <2>7. "compiler" \in DOMAIN doc.top
    BY <2>1 DEF ConfigInv, CompilerOnce
  <2>8. CompilerOnce'
    BY <1>1, <2>4, <2>7 DEF CompilerOnce, NULL
  <2>9. Settings'
    BY <1>2, <2>4, SettingsStand DEF ConfigInv
  <2>10. AttributeFits'
    <3>1. reader.oa = None
      BY <1>6 DEF ConfigInv, AttributeFits
    <3> QED BY <1>1, <1>2, <2>3, <3>1, NothingWaits
  <2> QED BY <2>6, <2>8, <2>9, <2>10 DEF ConfigInv
<1> QED BY <1>4, <1>5, <1>6 DEF OpenMapping

LEMMA OpenSequenceReads ==
  ASSUME ReaderInv, ConfigInv, OpenSequence
  PROVE  ConfigInv'
<1> USE Here
<1>1. key' = NULL /\ reader' = SequenceStart(reader) /\ nest' = Append(nest, key)
  BY DEF OpenSequence
<1>2. /\ reader'.top = reader.top /\ reader'.compiler = reader.compiler
      /\ reader'.flags = reader.flags /\ reader'.uid_counter = reader.uid_counter
      /\ reader'.oa = IF reader.state = "COMPILER_FLAG_MAP" /\ key \in {"values", "depends-on"}
                      THEN key ELSE reader.oa
  BY <1>1, StartsAndEnds
<1>3. DOMAIN doc = {"top", "compiler", "flags"}
  BY DEF Recorded
<1>4. CASE key = "flags" /\ doc' = [doc EXCEPT !.compiler = Plus(@, key, "sequence")]
  <2>1. Innermost = "compiler"
    BY <1>4 DEF KeyFits, FileKeys, FlagKeys, NULL
  <2>2. Len(nest) = 2
    BY <2>1
  <2>3. "flags" \in At(Len(nest) + 1) /\ "flags" \in Kinds
    BY <2>2 DEF At, Kinds
  <2>4. Len(nest') = 3 /\ Innermost' = "flags"
    BY <1>1, <1>4, <2>2, <2>3, Opened
  <2>5. /\ doc'.top = doc.top /\ doc'.compiler = Plus(doc.compiler, "flags", "sequence")
        /\ doc'.flags = doc.flags
    BY <1>3, <1>4
  <2>6. "compiler" \in DOMAIN doc.top
    BY <2>2 DEF ConfigInv, CompilerOnce
  <2>7. CompilerOnce'
    BY <1>1, <2>5, <2>6 DEF CompilerOnce, NULL
  <2>8. Settings'
    <3>1. "flags" \notin ToSet(CompilerKeys)
      BY SettingNames
    <3> QED BY <1>2, <2>5, <3>1, TextOfPlus, SettingsStand DEF ConfigInv
  <2>9. AttributeFits'
    <3>1. reader'.oa = None
      BY <1>2, <1>4, <2>1 DEF ConfigInv, AttributeFits
    <3> QED BY <1>1, <2>4, <3>1, NothingWaits
  <2>10. FlagsRead'
    BY <1>2, <2>2, <2>4, <2>5, FlagsStand DEF ConfigInv, CompilerClosed
  <2>11. ClosedComplete'
    BY <2>2, <2>5, CompleteStand DEF ConfigInv
  <2> QED BY <2>7, <2>8, <2>9, <2>10, <2>11 DEF ConfigInv
<1>5. CASE /\ key \in {"values", "depends-on"}
           /\ doc' = [doc EXCEPT !.flags[Len(doc.flags)] = Plus(@, key, <<>>)]
  <2> DEFINE n == Len(doc.flags)
             f == Plus(doc.flags[n], key, <<>>)
             g == reader.flags[n]
  <2>1. Innermost = "flag"
    BY <1>5 DEF KeyFits, FileKeys, NULL
  <2>2. Len(nest) = 4
    BY <2>1
  <2>3. key \in At(Len(nest) + 1) /\ key \in Kinds
    BY <1>5, <2>2 DEF At, Kinds
  <2>4. Len(nest') = 5 /\ Innermost' = key
    BY <1>1, <2>2, <2>3, Opened
  <2>5. /\ n \in Nat \ {0} /\ n \in DOMAIN doc.flags /\ Len(reader.flags) = n
        /\ DOMAIN reader.flags = 1 .. n /\ ReadSoFar(doc.flags[n], g) /\ IsList(reader.flags)
    BY <2>2, OpenFlag, WhileOpen
  <2>6. /\ key \notin DOMAIN doc.flags[n]
        /\ \/ key = "depends-on"
           \/ /\ key = "values" /\ "type" \in DOMAIN doc.flags[n]
              /\ key \in Attributes(doc.flags[n]["type"])
    BY <1>5, <2>1 DEF ConfigInv, AttributeFits, ThisFlag, Ignored, NULL
  <2>7. ReadSoFar(f, g)
    <3> HIDE DEF n
    <3> QED BY <2>5, <2>6, ListOpens
  <2>8. /\ doc'.flags = [doc.flags EXCEPT ![n] = f] /\ doc'.top = doc.top
        /\ doc'.compiler = doc.compiler
    BY <1>3, <1>5, <2>5
  <2>9. reader'.flags = [reader.flags EXCEPT ![n] = g]
    BY <1>2, <2>5 DEF IsList
  <2>10. key \in DOMAIN f
    BY DEF Plus
  <2> HIDE DEF f
  <2>11. Len(nest) >= 4 /\ Len(nest') >= 4 /\ Len(nest') \in Nat
    BY <2>2, <2>4
  <2>12. FlagsRead' /\ ClosedComplete' /\ ThisFlag' = f
    BY <1>2, <2>5, <2>7, <2>8, <2>9, <2>11, OpenFlagChanges DEF ThisFlag
  <2>13. CompilerOnce'
    <3>1. "compiler" \in DOMAIN doc.top
      BY <2>2 DEF ConfigInv, CompilerOnce
    <3> QED BY <1>1, <2>8, <3>1 DEF CompilerOnce, NULL
  <2>14. Settings'
    BY <1>2, <2>8, SettingsStand DEF ConfigInv
  <2>15. AttributeFits'
    <3>1. reader'.oa = key
      BY <1>2, <1>5, <2>1, States
    <3> QED BY <1>1, <1>5, <2>4, <2>10, <2>12, <3>1 DEF AttributeFits
  <2> QED BY <2>12, <2>13, <2>14, <2>15 DEF ConfigInv
<1> QED BY <1>4, <1>5 DEF OpenSequence

LEMMA WriteItemReads ==
  ASSUME ReaderInv, ConfigInv, WriteItem
  PROVE  ConfigInv'
<1> USE Here
<1> DEFINE n == Len(doc.flags)
           x == Innermost
<1>1. /\ x \in {"values", "depends-on"} /\ Innermost' = x
      /\ UNCHANGED <<nest, key>>
  BY DEF WriteItem, Innermost
<1>2. PICK item :
        /\ doc' = [doc EXCEPT !.flags[Len(doc.flags)][Innermost] = Append(@, item)]
        /\ reader' = Scalar(reader, item)
  BY DEF WriteItem
<1> DEFINE f == [doc.flags[n] EXCEPT ![x] = Append(@, item)]
           flag == reader.flags[n]
           g == IF x = "values" THEN [flag EXCEPT !.values = Append(@, item)] ELSE flag
<1>3. Len(nest) = 5 /\ key = NULL
  BY <1>1 DEF KeyFits
<1>4. /\ n \in Nat \ {0} /\ n \in DOMAIN doc.flags /\ Len(reader.flags) = n
      /\ DOMAIN reader.flags[n] = FlagFields /\ ReadSoFar(doc.flags[n], flag)
      /\ IsList(reader.flags)
  BY <1>3, OpenFlag, WhileOpen
<1>5. x \in DOMAIN doc.flags[n] /\ reader.oa = x
  BY <1>1 DEF ConfigInv, AttributeFits, ThisFlag
<1>6. ReadSoFar(f, g) /\ g.uid = flag.uid
  <2> DEFINE a == doc.flags[n]
             b == reader.flags[n]
  <2>1. ReadSoFar(a, b) /\ x \in {"values", "depends-on"} /\ x \in DOMAIN a
    BY <1>1, <1>4, <1>5
  <2> HIDE DEF a, b, x
  <2>2. LET h == [a EXCEPT ![x] = Append(@, item)]
            c == IF x = "values" THEN [b EXCEPT !.values = Append(@, item)] ELSE b
        IN  ReadSoFar(h, c) /\ c.uid = b.uid
    BY <2>1, ItemReads
  <2> QED BY <2>2 DEF a, b
<1>7. DOMAIN doc = {"top", "compiler", "flags"}
  BY DEF Recorded
<1>8. doc'.flags = [doc.flags EXCEPT ![n] = f] /\ doc'.top = doc.top /\ doc'.compiler = doc.compiler
  BY <1>2, <1>4, <1>7
<1>9. LastSet(reader, reader', g)
  <2>1. reader.state = "COMPILER_FLAG_MAP_SEQ" /\ Len(reader.flags) > 0
    BY <1>1, <1>4, States
  <2> QED BY <1>2, <1>4, <1>5, <2>1, ReadsListed
<1>10. DOMAIN f = DOMAIN doc.flags[n]
  OBVIOUS
<1> HIDE DEF f, g
<1>11. FlagsRead' /\ ClosedComplete' /\ ThisFlag' = f
  <2>1. Len(nest) >= 4 /\ Len(nest') >= 4 /\ Len(nest') \in Nat
    BY <1>1, <1>3
  <2> QED BY <1>4, <1>6, <1>8, <1>9, <2>1, OpenFlagChanges DEF LastSet, ThisFlag
<1>12. CompilerOnce'
  BY <1>1, <1>8 DEF ConfigInv, CompilerOnce
<1>13. Settings'
  BY <1>8, <1>9, SettingsStand DEF ConfigInv, LastSet
<1>14. AttributeFits'
  BY <1>1, <1>3, <1>5, <1>9, <1>10, <1>11 DEF AttributeFits, LastSet
<1> QED BY <1>11, <1>12, <1>13, <1>14 DEF ConfigInv

\* The array of the flags ends.
LEMMA ArrayEnds ==
  ASSUME ReaderInv, ConfigInv, Len(nest) = 2, Len(nest') = 1, UNCHANGED doc,
         reader'.flags = Append(reader.flags, NoFlag),
         reader'.uid_counter = reader.uid_counter
  PROVE  FlagsRead'
<1> DEFINE n == Len(doc.flags)
           s == reader'.flags
<1>1. /\ Len(reader.flags) = n /\ reader.uid_counter = n /\ n \in Nat /\ IsList(reader.flags)
  BY WhileOpen
<1>2. /\ Len(s) = n + 1 /\ s[n + 1] = NoFlag /\ IsList(s)
      /\ \A i \in 1 .. n : s[i] = reader.flags[i]
  BY <1>1, ListGrows
<1>3. \A i \in 1 .. n : reader.flags[i].uid = i - 1 /\ ReadSoFar(doc.flags[i], reader.flags[i])
  BY DEF ConfigInv, FlagsRead
<1>4. CompilerClosed'
  BY DEF ConfigInv, CompilerOnce, CompilerClosed
<1> HIDE DEF s
<1> QED BY <1>1, <1>2, <1>3, <1>4 DEF FlagsRead, s

LEMMA CloseMappingReads ==
  ASSUME ReaderInv, ConfigInv, CloseMapping
  PROVE  ConfigInv'
<1> USE Here
<1>1. /\ key = NULL /\ key' = NULL /\ doc' = doc /\ reader' = MappingEnd(reader)
      /\ nest' = Front(nest)
  BY DEF CloseMapping
<1>2. /\ reader'.top = reader.top /\ reader'.compiler = reader.compiler /\ reader'.oa = reader.oa
      /\ reader'.uid_counter = reader.uid_counter
      /\ reader'.flags = IF reader.state = "COMPILER_MAP" THEN Append(reader.flags, NoFlag)
                         ELSE reader.flags
  BY <1>1, StartsAndEnds
<1>3. Settings'
  BY <1>1, <1>2, SettingsStand DEF ConfigInv
<1>4. \/ Innermost = "flag" /\ Len(nest) = 4
      \/ Innermost = "compiler" /\ Len(nest) = 2
      \/ Innermost = "file" /\ Len(nest) = 1
  BY DEF CloseMapping
<1>5. Len(nest') = Len(nest) - 1 /\ Innermost' \notin {"values", "depends-on"}
  <2>1. Len(nest) > 0
    <3>1. Len(nest) \in 0 .. 5 /\ Len(nest) # 0
      BY <1>4 DEF None
    <3>2. \A n \in 0 .. 5 : n # 0 => n > 0
      OBVIOUS
    <3> QED BY <3>1, <3>2
  <2>2. /\ Len(nest') = Len(nest) - 1
        /\ Innermost = "file" => Innermost' = None
        /\ Innermost = "compiler" => Innermost' = "file"
        /\ Innermost = "flag" => Innermost' = "flags"
    BY <1>1, <2>1, Outer
  <2> QED BY <1>4, <2>2 DEF None
<1>6. AttributeFits'
  BY <1>1, <1>2, <1>4, <1>5, NothingWaits DEF ConfigInv, AttributeFits
<1>7. CompilerOnce'
  <2>1. Innermost = "file" => "compiler" \in DOMAIN doc.top
    BY DEF CloseMapping
  <2>2. Len(nest) >= 2 => "compiler" \in DOMAIN doc.top
    BY DEF ConfigInv, CompilerOnce
  <2>3. "compiler" \in DOMAIN doc.top
    BY <1>4, <2>1, <2>2
  <2> QED BY <1>1, <2>3 DEF CompilerOnce, NULL
<1>8. CASE Innermost = "flag"
  <2>1. Len(nest) = 4 /\ Len(nest') = 3
    BY <1>5, <1>8
  <2>2. reader'.flags = reader.flags
    BY <1>2, <1>8, States
  <2>3. FlagsRead'
    BY <1>1, <1>2, <2>1, <2>2, FlagsStand DEF ConfigInv, CompilerClosed
  <2>4. "type" \in DOMAIN ThisFlag /\ Complete(ThisFlag)
    BY <1>8 DEF CloseMapping, Complete, ValueOf
  <2>5. ClosedComplete'
    <3> SUFFICES ASSUME NEW i \in 1 .. Len(doc.flags)
                 PROVE  "type" \in DOMAIN doc.flags[i] /\ Complete(doc.flags[i])
      BY <1>1 DEF ClosedComplete
    <3>1. CASE i = Len(doc.flags)
      BY <2>4, <3>1 DEF ThisFlag
    <3>2. CASE i # Len(doc.flags)
      <4>1. i < Len(doc.flags)
        BY <3>2 DEF Recorded
      <4> QED BY <4>1 DEF ConfigInv, ClosedComplete
    <3> QED BY <3>1, <3>2
  <2> QED BY <1>3, <1>6, <1>7, <2>3, <2>5 DEF ConfigInv
<1>9. CASE Innermost = "compiler"
  <2>1. Len(nest) = 2 /\ Len(nest') = 1
    BY <1>5, <1>9
  <2>2. reader'.flags = Append(reader.flags, NoFlag)
    BY <1>2, <1>9, States
  <2>3. FlagsRead'
    BY <1>1, <1>2, <2>1, <2>2, ArrayEnds
  <2>4. ClosedComplete'
    BY <1>1, <2>1, CompleteStand DEF ConfigInv
  <2> QED BY <1>3, <1>6, <1>7, <2>3, <2>4 DEF ConfigInv
<1>10. CASE Innermost = "file"
  <2>1. Len(nest) = 1 /\ Len(nest') = 0
    BY <1>5, <1>10
  <2>2. reader'.flags = reader.flags
    BY <1>2, <1>10, States
  <2>3. FlagsRead'
    BY <1>1, <1>2, <2>1, <2>2, FlagsStand DEF ConfigInv, CompilerClosed
  <2>4. ClosedComplete'
    BY <1>1, <2>1, CompleteStand DEF ConfigInv
  <2> QED BY <1>3, <1>6, <1>7, <2>3, <2>4 DEF ConfigInv
<1> QED BY <1>4, <1>8, <1>9, <1>10

LEMMA CloseSequenceReads ==
  ASSUME ReaderInv, ConfigInv, CloseSequence
  PROVE  ConfigInv'
<1> USE Here
<1>1. /\ key' = key /\ doc' = doc /\ reader' = SequenceEnd(reader) /\ nest' = Front(nest)
  BY DEF CloseSequence
<1>2. /\ reader'.top = reader.top /\ reader'.compiler = reader.compiler
      /\ reader'.flags = reader.flags /\ reader'.uid_counter = reader.uid_counter
      /\ reader'.oa = IF reader.state = "COMPILER_FLAG_MAP_SEQ" THEN None ELSE reader.oa
  BY <1>1, StartsAndEnds
<1>3. \/ Innermost = "flags" /\ Len(nest) = 3
      \/ Innermost \in {"values", "depends-on"} /\ Len(nest) = 5
  BY DEF CloseSequence
<1>4. key = NULL
  BY <1>3 DEF KeyFits
<1>5. Len(nest') = Len(nest) - 1 /\ Innermost' \notin {"values", "depends-on"}
  <2>1. Len(nest) > 0
    BY <1>3
  <2> QED BY <1>1, <1>3, <2>1, Outer
<1>6. reader'.oa = None
  BY <1>2, <1>3, States DEF ConfigInv, AttributeFits
<1>7. AttributeFits'
  BY <1>1, <1>4, <1>5, <1>6, NothingWaits
<1>8. Settings'
  BY <1>1, <1>2, SettingsStand DEF ConfigInv
<1>9. CompilerOnce'
  <2>1. "compiler" \in DOMAIN doc.top
    BY <1>3 DEF ConfigInv, CompilerOnce
  <2> QED BY <1>1, <1>4, <2>1 DEF CompilerOnce, NULL
<1>10. FlagsRead'
  BY <1>1, <1>2, <1>3, <1>5, FlagsStand DEF ConfigInv, CompilerClosed
<1>11. ClosedComplete'
  BY <1>1, <1>3, <1>5, CompleteStand DEF ConfigInv
<1> QED BY <1>7, <1>8, <1>9, <1>10, <1>11 DEF ConfigInv

LEMMA ConfigStarts == Init => ConfigInv
<1> SUFFICES ASSUME Init PROVE ConfigInv
  OBVIOUS
<1>1. nest = <<>> /\ key = NULL /\ Innermost = None /\ Len(nest) = 0
  BY DEF Init, ReadInit, Innermost
<1>2. /\ doc = [top |-> <<>>, compiler |-> <<>>, flags |-> <<>>] /\ Len(doc.flags) = 0
      /\ DOMAIN doc.top = {} /\ DOMAIN doc.compiler = {}
  BY DEF Init, ReadInit
<1>3. /\ reader.oa = None /\ reader.uid_counter = 0 /\ reader.flags = <<>>
      /\ reader.compiler = [k \in ToSet(CompilerKeys) |-> NULL]
      /\ reader.top = [k \in ToSet(TopKeys) |-> IF k \in Numbers THEN "default" ELSE NULL]
  BY DEF Init, ReadInit
<1>4. CompilerOnce
  BY <1>1, <1>2 DEF CompilerOnce, NULL
<1>5. Settings
  BY <1>2, <1>3 DEF Settings, Text
<1>6. AttributeFits
  BY <1>1, <1>3 DEF AttributeFits, None
<1>7. FlagsRead
  BY <1>2, <1>3 DEF FlagsRead, CompilerClosed, IsList
<1>8. ClosedComplete
  BY <1>2 DEF ClosedComplete
<1> QED BY <1>4, <1>5, <1>6, <1>7, <1>8 DEF ConfigInv

LEMMA ConfigStands ==
  ASSUME ConfigInv, UNCHANGED readVars
  PROVE  ConfigInv'
BY DEF ConfigInv, readVars, CompilerOnce, Settings, AttributeFits, FlagsRead, ClosedComplete,
       CompilerClosed, Innermost, ThisFlag

LEMMA ConfigKeeps ==
  ASSUME TypeFirst, ReaderInv, ConfigInv, [Next]_vars
  PROVE  ConfigInv'
<1>1. CASE ReadStep
  BY <1>1, WriteKeyReads, WriteValueReads, OpenMappingReads, OpenSequenceReads, WriteItemReads,
     CloseMappingReads, CloseSequenceReads DEF ReadStep, ReadNext
<1>2. CASE MasterStep
  BY <1>2, ConfigStands
     DEF MasterStep, Barrier, ShareStep, Abort, MakeSearchSpace, StartSwarm, RefuseSearch, Place,
         DivideByZero, BuildOptions
<1>3. CASE \E w \in Worker : WorkerStep(w)
  BY <1>3, ConfigStands DEF WorkerStep, ReceiveStep, StartWorker, RefuseWorker
<1>4. CASE UNCHANGED vars
  BY <1>4, ConfigStands DEF vars
<1> QED BY <1>1, <1>2, <1>3, <1>4 DEF Next, Finished

LEMMA ConfigHolds == ASSUME TypeFirst PROVE Spec => [](ReaderInv /\ ConfigInv)
<1>1. ReaderInv /\ ConfigInv /\ [Next]_vars => (ReaderInv /\ ConfigInv)'
  BY ReaderKeeps, ConfigKeeps
<1> QED BY <1>1, ReaderStarts, ConfigStarts, PTL DEF Spec

-----------------------------------------------------------------------------
(* The whole file.                                                         *)

LEMMA FlagIsMeant ==
  ASSUME NEW f, NEW flag, ReadSoFar(f, flag),
         "type" \in DOMAIN f, f["type"] \in FlagTypes, Complete(f)
  PROVE  FlagMeans(f, flag)
<1>1. flag.name = f["name"] /\ ValueOf(f, "name") = f["name"] /\ ValueOf(f, "type") = f["type"]
      /\ flag.type = Code(f["type"])
  BY DEF Complete, ReadSoFar, ValueOf
<1>2. CASE f["type"] = "range"
  <2>1. {"prefix", "separator", "max", "min"} \subseteq DOMAIN f
    BY <1>2 DEF Complete, Attributes
  <2> QED BY <1>1, <1>2, <2>1 DEF FlagMeans, ReadSoFar, ValueOf, Code
<1>3. CASE f["type"] = "list"
  <2>1. {"prefix", "separator", "values"} \subseteq DOMAIN f
    BY <1>3 DEF Complete, Attributes
  <2> QED BY <1>1, <1>3, <2>1 DEF FlagMeans, ReadSoFar, ValueOf, Code
<1>4. CASE f["type"] = "on-off"
  <2>1. {"on-prefix", "off-prefix"} \subseteq DOMAIN f
    BY <1>4 DEF Complete, Attributes
  <2> QED BY <1>1, <1>4, <2>1 DEF FlagMeans, ReadSoFar, ValueOf, Code
<1> QED BY <1>2, <1>3, <1>4 DEF FlagTypes

LEMMA AllRead ==
  ASSUME ReaderInv, ConfigInv, WholeFile
  PROVE  LET n == Len(doc.flags)
         IN  /\ n \in Nat /\ DOMAIN doc.flags = 1 .. n /\ reader.num_flags = n
             /\ Len(reader.flags) = n + 1 /\ reader.flags[n + 1] = NoFlag
             /\ \A i \in 1 .. n :
                  /\ reader.flags[i].uid = i - 1
                  /\ ReadSoFar(doc.flags[i], reader.flags[i])
                  /\ FlagMeans(doc.flags[i], reader.flags[i])
                  /\ doc.flags[i]["type"] \in FlagTypes
                  /\ ValueOf(doc.flags[i], "type") = doc.flags[i]["type"]
<1> USE Here
<1> DEFINE n == Len(doc.flags)
<1>1. Len(nest) = 0 /\ n \in Nat /\ DOMAIN doc.flags = 1 .. n
  BY DEF WholeFile, Recorded
<1>2. CompilerClosed
  BY <1>1 DEF ConfigInv, CompilerOnce, CompilerClosed, WholeFile
<1>3. /\ Len(reader.flags) = n + 1 /\ reader.flags[n + 1] = NoFlag
      /\ \A i \in 1 .. n : reader.flags[i].uid = i - 1 /\ ReadSoFar(doc.flags[i], reader.flags[i])
  BY <1>2 DEF ConfigInv, FlagsRead
<1>4. \A i \in 1 .. n : "type" \in DOMAIN doc.flags[i] /\ Complete(doc.flags[i])
  BY <1>1 DEF ConfigInv, ClosedComplete
<1>5. \A i \in 1 .. n : /\ doc.flags[i]["type"] \in FlagTypes
                        /\ ValueOf(doc.flags[i], "type") = doc.flags[i]["type"]
  BY <1>4 DEF Recorded, ValueOf
<1>6. \A i \in 1 .. n : FlagMeans(doc.flags[i], reader.flags[i])
  BY <1>3, <1>4, <1>5, FlagIsMeant
<1>7. reader.num_flags = n
  <2>1. TypedFlags = 1 .. n
    BY <1>1, <1>4 DEF TypedFlags
  <2>2. Cardinality(1 .. n) = n
    BY <1>1, FS_Interval
  <2> QED BY <2>1, <2>2
<1> QED BY <1>1, <1>3, <1>5, <1>6, <1>7

\* The configuration is what the file says, for every file of the documented
\* format that gives the type of a flag before what depends on it, with any number
\* of flags and of listed values (config.c:188-674).
THEOREM ConfigIsAsWritten == ASSUME TypeFirst PROVE Spec => []ConfigAsWritten
<1>1. ASSUME ReaderInv, ConfigInv PROVE ConfigAsWritten
  <2> SUFFICES ASSUME WholeFile
               PROVE  /\ \A k \in ToSet(TopKeys) : reader.top[k]
                           = Text(doc.top, k, IF k \in Numbers THEN "default" ELSE NULL)
                      /\ \A k \in ToSet(CompilerKeys) :
                           reader.compiler[k] = Text(doc.compiler, k, NULL)
                      /\ reader.num_flags = Len(doc.flags)
                      /\ Len(reader.flags) = Len(doc.flags) + 1
                      /\ Last(reader.flags) = NoFlag
                      /\ \A i \in DOMAIN doc.flags :
                           /\ reader.flags[i].uid = i - 1
                           /\ FlagMeans(doc.flags[i], reader.flags[i])
    BY <1>1 DEF ConfigAsWritten
  <2>1. Settings
    BY <1>1 DEF ConfigInv
  <2>2. Last(reader.flags) = NoFlag
    BY <1>1, AllRead DEF Last
  <2> QED BY <1>1, <2>1, <2>2, AllRead DEF Settings
<1> QED BY <1>1, ConfigHolds, PTL

-----------------------------------------------------------------------------
(* The search space.                                                       *)

\* The search space has a dimension for each flag once it has been made.
SpaceMade ==
  /\ master \in {"reading", "sharing"} => search_space = <<>>
  /\ \/ search_space = <<>>
     \/ search_space = [i \in 1 .. reader.num_flags |-> opt_convert_flag(reader.flags[i])]

\* Each coordinate is one that the random numbers can give.
Drawn ==
  /\ IsList(position) /\ Len(position) <= Len(search_space)
  /\ \A i \in 1 .. Len(position) :
       position[i] \in opt_rand_int_range(search_space[i].min, search_space[i].max)

SearchInv ==
  /\ master # "reading" => WholeFile
  /\ SpaceMade
  /\ Drawn
  /\ master = "crashed" => \E i \in DOMAIN doc.flags : ~Ordinary(doc.flags[i])

StartInv == ReaderInv /\ ConfigInv /\ ShareInv /\ SearchInv

LEMMA AtoiIsInt == \A s : atoi(s) \in Int
BY DEF atoi

\* Bounds of the dimension of a flag.
LEMMA DimensionOf ==
  ASSUME NEW f, NEW flag, ReadSoFar(f, flag), FlagMeans(f, flag), f["type"] \in FlagTypes,
         ValueOf(f, "type") = f["type"], flag.uid \in Int
  PROVE  LET d == opt_convert_flag(flag)
         IN  /\ Convertible(flag) /\ IsList(flag.values)
             /\ d \in [uid : Int, min : Int, max : Int] /\ d.uid = flag.uid
             /\ f["type"] = "range" => d.min = atoi(ValueOf(f, "min"))
                                         /\ d.max = atoi(ValueOf(f, "max")) + 1
             /\ f["type"] # "range" => d.min = 0 /\ d.max >= 0
<1> DEFINE d == opt_convert_flag(flag)
<1>0. IsList(flag.values) /\ Len(flag.values) \in Nat
  BY DEF ReadSoFar, IsList
<1>1. CASE f["type"] = "range"
  <2>1. /\ flag.type = "OPT_RANGE_FLAG" /\ flag.min = atoi(ValueOf(f, "min"))
        /\ flag.max = atoi(ValueOf(f, "max"))
    BY <1>1 DEF FlagMeans
  <2>2. d = [uid |-> flag.uid, min |-> flag.min, max |-> flag.max + 1]
    BY <2>1 DEF opt_convert_flag
  <2>3. flag.min \in Int /\ flag.max + 1 \in Int
    BY <2>1, AtoiIsInt
  <2> QED BY <1>0, <1>1, <2>1, <2>2, <2>3 DEF Convertible
<1>2. CASE f["type"] = "list"
  <2>1. flag.type = "OPT_LIST_FLAG"
    BY <1>2 DEF FlagMeans
  <2>2. d = [uid |-> flag.uid, min |-> 0, max |-> Len(flag.values)]
    BY <2>1 DEF opt_convert_flag
  <2> QED BY <1>0, <1>2, <2>1, <2>2 DEF Convertible
<1>3. CASE f["type"] = "on-off"
  <2>1. flag.type = "OPT_ONOFF_FLAG"
    BY <1>3 DEF FlagMeans
  <2>2. d = [uid |-> flag.uid, min |-> 0, max |-> 2]
    BY <2>1 DEF opt_convert_flag
  <2> QED BY <1>0, <1>3, <2>1, <2>2 DEF Convertible
<1> QED BY <1>1, <1>2, <1>3 DEF FlagTypes

LEMMA RandIsInt ==
  ASSUME NEW min \in Int, NEW max \in Int
  PROVE  opt_rand_int_range(min, max) \subseteq Int
<1> DEFINE low == IF max < min THEN max ELSE min
           high == IF max < min THEN min ELSE max
           w == Width(low, high)
<1>1. low \in Int /\ high \in Int
  OBVIOUS
<1> HIDE DEF low, high
<1>2. w \in Int
  BY <1>1 DEF Width, Magnitude
<1> HIDE DEF w
<1>3. \A r \in Remainders(w) : low + r \in Int
  BY <1>1, <1>2 DEF Remainders, Magnitude
<1>4. opt_rand_int_range(min, max)
        \subseteq {min} \cup (low .. high) \cup {low + r : r \in Remainders(w)}
  BY DEF opt_rand_int_range, low, high, w
<1> QED BY <1>1, <1>3, <1>4

\* The range of one value is as good as those of RandomCoordinateInside.
LEMMA InsideOrOne ==
  ASSUME NEW lo \in Int, NEW hi \in Int,
         lo <= hi, ~(lo = -2 /\ hi = 1), hi >= 1 \/ lo = hi
  PROVE  opt_rand_int_range(lo, hi) \subseteq lo .. hi /\ ~MayDivideByZero(lo, hi)
<1>1. CASE lo = hi
  BY <1>1 DEF opt_rand_int_range, MayDivideByZero
<1>2. CASE hi >= 1
  <2>1. 1 <= hi
    BY <1>2
  <2> QED BY <2>1, RandomCoordinateInside
<1> QED BY <1>1, <1>2

\* A particle is placed inside the dimension of an ordinary flag, and placing it
\* there does not divide by zero.
LEMMA OrdinaryIsSafe ==
  ASSUME NEW f, NEW flag, ReadSoFar(f, flag), FlagMeans(f, flag), f["type"] \in FlagTypes,
         ValueOf(f, "type") = f["type"], flag.uid \in Int, Ordinary(f)
  PROVE  LET d == opt_convert_flag(flag)
         IN  opt_rand_int_range(d.min, d.max) \subseteq d.min .. d.max
               /\ ~MayDivideByZero(d.min, d.max)
<1> DEFINE d == opt_convert_flag(flag)
<1>1. /\ d.min \in Int /\ d.max \in Int
      /\ f["type"] = "range" => d.min = atoi(ValueOf(f, "min"))
                                  /\ d.max = atoi(ValueOf(f, "max")) + 1
      /\ f["type"] # "range" => d.min = 0 /\ d.max >= 0
  BY DimensionOf
<1>2. d.min <= d.max /\ ~(d.min = -2 /\ d.max = 1) /\ (d.max >= 1 \/ d.min = d.max)
  <2>1. CASE f["type"] = "range"
    <3> DEFINE lo == atoi(ValueOf(f, "min"))
               hi == atoi(ValueOf(f, "max"))
    <3>1. lo \in Int /\ hi \in Int /\ lo <= hi /\ 0 <= hi /\ ~(lo = -2 /\ hi = 0)
      BY <2>1, AtoiIsInt DEF Ordinary
    <3> HIDE DEF lo, hi
    <3>2. lo <= hi + 1 /\ ~(lo = -2 /\ hi + 1 = 1) /\ hi + 1 >= 1
      BY <3>1
    <3> QED BY <1>1, <2>1, <3>2 DEF lo, hi
  <2>2. CASE f["type"] # "range"
    BY <1>1, <2>2
  <2> QED BY <2>1, <2>2
<1> HIDE DEF d
<1>3. opt_rand_int_range(d.min, d.max) \subseteq d.min .. d.max /\ ~MayDivideByZero(d.min, d.max)
  BY <1>1, <1>2, InsideOrOne
<1> QED BY <1>3 DEF d

\* A dimension that has been made, and its flag.
LEMMA Dimensions ==
  ASSUME ReaderInv, ConfigInv, SearchInv, NEW i \in 1 .. Len(search_space)
  PROVE  LET f == doc.flags[i]
             flag == reader.flags[i]
         IN  /\ WholeFile /\ i \in DOMAIN doc.flags
             /\ search_space[i] = opt_convert_flag(flag)
             /\ ReadSoFar(f, flag) /\ FlagMeans(f, flag) /\ f["type"] \in FlagTypes
             /\ ValueOf(f, "type") = f["type"] /\ flag.uid = i - 1 /\ flag.uid \in Int
             /\ i \in Int
<1>1. search_space # <<>>
  OBVIOUS
<1>2. WholeFile
  BY <1>1 DEF SearchInv, SpaceMade
<1>3. search_space = [j \in 1 .. Len(doc.flags) |-> opt_convert_flag(reader.flags[j])]
        /\ Len(doc.flags) \in Nat
  BY <1>1, <1>2, AllRead DEF SearchInv, SpaceMade
<1>4. i \in 1 .. Len(doc.flags) /\ search_space[i] = opt_convert_flag(reader.flags[i])
  <2> DEFINE n == Len(doc.flags)
  <2> HIDE DEF n
  <2>1. Len([j \in 1 .. n |-> opt_convert_flag(reader.flags[j])]) = n
    BY <1>3 DEF n
  <2> QED BY <1>3, <2>1 DEF n
<1> QED BY <1>2, <1>4, AllRead

LEMMA SearchStarts == Init => SearchInv
BY DEF Init, ReadInit, SearchInv, SpaceMade, Drawn, IsList

\* The file has been read and does not change any more; no coordinate is drawn.
LEMMA SearchStands ==
  ASSUME SearchInv, UNCHANGED readVars, UNCHANGED <<search_space, position>>,
         \/ master' = master
         \/ master = "reading" /\ WholeFile /\ master' = "sharing"
         \/ master # "reading" /\ master' = "aborted"
         \/ master = "initialising" /\ master' = "placing"
         \/ master = "placing" /\ master' = "searching"
  PROVE  SearchInv'
<1>1. WholeFile' <=> WholeFile
  BY DEF WholeFile, readVars
<1>2. Drawn' /\ SpaceMade'
  BY DEF SearchInv, Drawn, SpaceMade, readVars
<1>3. (\E i \in DOMAIN doc.flags : ~Ordinary(doc.flags[i])) =>
        (\E i \in DOMAIN doc.flags : ~Ordinary(doc.flags[i]))'
  BY DEF readVars
<1>4. /\ master' # "reading" => WholeFile'
      /\ master' = "crashed" => master = "crashed"
  BY <1>1 DEF SearchInv
<1> QED BY <1>2, <1>3, <1>4 DEF SearchInv

LEMMA ReadKeepsSearch ==
  ASSUME SearchInv, ReadStep
  PROVE  SearchInv'
<1>1. /\ master = "reading" /\ master' = "reading"
      /\ search_space' = search_space /\ position' = position /\ search_space = <<>>
  BY DEF ReadStep, initVars, SearchInv, SpaceMade
<1>2. Drawn'
  BY <1>1 DEF SearchInv, Drawn
<1> QED BY <1>1, <1>2 DEF SearchInv, SpaceMade

LEMMA MakeSearchSpaceKeeps ==
  ASSUME ReaderInv, ConfigInv, SearchInv, MakeSearchSpace
  PROVE  SearchInv'
<1> DEFINE n == Len(doc.flags)
<1>1. WholeFile /\ search_space = <<>> /\ master = "sharing"
  BY DEF MakeSearchSpace, SearchInv, SpaceMade
<1>2. n \in Nat /\ reader.num_flags = n
  BY <1>1, AllRead
<1>3. \A i \in 1 .. n : Convertible(reader.flags[i])
  <2> SUFFICES ASSUME NEW i \in 1 .. n PROVE Convertible(reader.flags[i])
    OBVIOUS
  <2>1. i \in Int
    BY <1>2
  <2> QED BY <1>1, <2>1, AllRead, DimensionOf
<1>4. /\ search_space' = [i \in 1 .. reader.num_flags |-> opt_convert_flag(reader.flags[i])]
      /\ master' = "initialising" /\ UNCHANGED readVars /\ position' = position
  BY <1>2, <1>3 DEF MakeSearchSpace
<1>5. Drawn'
  <2>1. IsList(position) /\ Len(position) = 0
    <3>1. IsList(position) /\ Len(position) <= 0
      BY <1>1 DEF SearchInv, Drawn
    <3> QED BY <3>1 DEF IsList
  <2>2. Len(search_space') = n
    <3> HIDE DEF n
    <3> QED BY <1>2, <1>4
  <2> QED BY <1>2, <1>4, <2>1, <2>2 DEF Drawn
<1>6. WholeFile' /\ reader' = reader
  BY <1>1, <1>4 DEF WholeFile, readVars
<1>7. SpaceMade'
  BY <1>4, <1>6 DEF SpaceMade
<1> QED BY <1>4, <1>5, <1>6, <1>7 DEF SearchInv

LEMMA PlaceKeeps ==
  ASSUME SearchInv, Place
  PROVE  SearchInv'
<1> DEFINE l == Len(position)
           d == search_space[l + 1]
<1>1. PICK x \in opt_rand_int_range(d.min, d.max) : position' = Append(position, x)
  BY DEF Place
<1>2. /\ master = "placing" /\ master' = master /\ UNCHANGED readVars
      /\ search_space' = search_space /\ l < Len(search_space) /\ WholeFile
  BY DEF Place, SearchInv
<1>3. IsList(position) /\ l \in Nat
  BY DEF SearchInv, Drawn, IsList
<1>4. /\ IsList(position') /\ Len(position') = l + 1 /\ position'[l + 1] = x
      /\ \A i \in 1 .. l : position'[i] = position[i]
  BY <1>1, <1>3, ListGrows
<1>5. l + 1 <= Len(search_space)
  BY <1>2, <1>3 DEF SearchInv, SpaceMade
<1>6. Drawn'
  <2> SUFFICES ASSUME NEW i \in 1 .. l + 1
               PROVE  position'[i] \in opt_rand_int_range(search_space[i].min, search_space[i].max)
    BY <1>2, <1>4, <1>5 DEF Drawn
  <2>1. CASE i = l + 1
    BY <1>1, <1>4, <2>1
  <2>2. CASE i # l + 1
    <3>1. i \in 1 .. l
      BY <1>3, <2>2
    <3> QED BY <1>4, <3>1 DEF SearchInv, Drawn
  <2> QED BY <2>1, <2>2
<1>7. WholeFile' /\ SpaceMade'
  BY <1>2 DEF WholeFile, SpaceMade, SearchInv, readVars
<1> QED BY <1>2, <1>6, <1>7 DEF SearchInv

LEMMA DivideByZeroKeeps ==
  ASSUME ReaderInv, ConfigInv, SearchInv, DivideByZero
  PROVE  SearchInv'
<1> DEFINE l == Len(position)
           d == search_space[l + 1]
<1>1. /\ master = "placing" /\ master' = "crashed" /\ UNCHANGED readVars
      /\ search_space' = search_space /\ position' = position /\ l < Len(search_space)
      /\ MayDivideByZero(d.min, d.max) /\ WholeFile
  BY DEF DivideByZero, initVars, SearchInv
<1>2. l \in Nat
  BY DEF SearchInv, Drawn, IsList
<1>3. l + 1 \in 1 .. Len(search_space)
  <2>1. Len(search_space) \in Nat
    BY <1>1, AllRead DEF SearchInv, SpaceMade
  <2> QED BY <1>1, <1>2, <2>1
<1> DEFINE f == doc.flags[l + 1]
           flag == reader.flags[l + 1]
<1>4. /\ d = opt_convert_flag(flag) /\ ReadSoFar(f, flag) /\ FlagMeans(f, flag)
      /\ f["type"] \in FlagTypes /\ ValueOf(f, "type") = f["type"] /\ flag.uid \in Int
      /\ l + 1 \in DOMAIN doc.flags
  BY <1>3, Dimensions
<1>5. ~Ordinary(f)
  <2>1. MayDivideByZero(opt_convert_flag(flag).min, opt_convert_flag(flag).max)
    BY <1>1, <1>4
  <2> HIDE DEF f, flag
  <2> QED BY <1>4, <2>1, OrdinaryIsSafe
<1>6. \E i \in DOMAIN doc'.flags : ~Ordinary(doc'.flags[i])
  BY <1>1, <1>4, <1>5 DEF readVars
<1>7. WholeFile' /\ SpaceMade' /\ Drawn'
  BY <1>1 DEF WholeFile, SpaceMade, Drawn, SearchInv, readVars
<1>8. (\E i \in DOMAIN doc.flags : ~Ordinary(doc.flags[i]))'
  BY <1>6
<1> QED BY <1>1, <1>7, <1>8 DEF SearchInv

LEMMA SearchKeeps ==
  ASSUME ReaderInv, ConfigInv, ShareInv, SearchInv, [Next]_vars
  PROVE  SearchInv'
<1>1. CASE ReadStep
  BY <1>1, ReadKeepsSearch
<1>2. CASE MakeSearchSpace
  BY <1>2, MakeSearchSpaceKeeps
<1>3. CASE Place
  BY <1>3, PlaceKeeps
<1>4. CASE DivideByZero
  BY <1>4, DivideByZeroKeeps
<1>5. CASE \/ Barrier \/ ShareStep \/ Abort \/ StartSwarm \/ RefuseSearch \/ BuildOptions
           \/ UNCHANGED vars
  BY <1>5, SearchStands
     DEF Barrier, ShareStep, Abort, StartSwarm, RefuseSearch, BuildOptions, initVars, vars
<1>6. CASE \E w \in Worker : WorkerStep(w)
  <2>1. PICK w \in Worker : ReceiveStep(w) \/ StartWorker(w) \/ RefuseWorker(w)
    BY <1>6 DEF WorkerStep
  <2>2. HasConfig(w) => master # "reading"
    BY Eleven DEF ShareInv, Paced, HasConfig
  <2> QED BY <2>1, <2>2, SearchStands DEF ReceiveStep, StartWorker, RefuseWorker, initVars
<1> QED BY <1>1, <1>2, <1>3, <1>4, <1>5, <1>6 DEF Next, MasterStep, Finished

LEMMA StartHolds == ASSUME TypeFirst PROVE Spec => []StartInv
<1>1. Init => StartInv
  BY ReaderStarts, ConfigStarts, ShareStarts, SearchStarts DEF StartInv
<1>2. StartInv /\ [Next]_vars => StartInv'
  BY ReaderKeeps, ConfigKeeps, ShareKeeps, SearchKeeps DEF StartInv
<1> QED BY <1>1, <1>2, PTL DEF Spec

\* The values of the flag as it was read are the ones that are written.
LEMMA ValuesAreWritten ==
  ASSUME NEW f, NEW flag, ReadSoFar(f, flag), FlagMeans(f, flag), f["type"] \in FlagTypes,
         ValueOf(f, "type") = f["type"]
  PROVE  Values(flag) = Written(f)
<1>1. CASE f["type"] = "range"
  <2>1. /\ flag.type = "OPT_RANGE_FLAG" /\ flag.name = ValueOf(f, "name")
        /\ flag.min = atoi(ValueOf(f, "min")) /\ flag.max = atoi(ValueOf(f, "max"))
        /\ flag.prefix = ValueOf(f, "prefix") /\ flag.separator = ValueOf(f, "separator")
    BY <1>1 DEF FlagMeans
  <2> QED BY <1>1, <2>1 DEF Values, Written
<1>2. CASE f["type"] = "list"
  <2>1. /\ flag.type = "OPT_LIST_FLAG" /\ flag.name = ValueOf(f, "name")
        /\ flag.values = ValueOf(f, "values")
        /\ flag.prefix = ValueOf(f, "prefix") /\ flag.separator = ValueOf(f, "separator")
    BY <1>2 DEF FlagMeans
  <2>2. ToSet(flag.values) = {flag.values[k] : k \in DOMAIN flag.values}
    BY DEF ToSet
  <2> QED BY <1>2, <2>1, <2>2 DEF Values, Written
<1>3. CASE f["type"] = "on-off"
  <2>1. /\ flag.type = "OPT_ONOFF_FLAG" /\ flag.name = ValueOf(f, "name")
        /\ flag.prefix = ValueOf(f, "on-prefix") /\ flag.neg_prefix = ValueOf(f, "off-prefix")
    BY <1>3 DEF FlagMeans
  <2> QED BY <1>3, <2>1 DEF Values, Written
<1> QED BY <1>1, <1>2, <1>3 DEF FlagTypes

\* A range has a separator once it is complete.
LEMMA SeparatorIsThere ==
  ASSUME NEW f, NEW flag, ReadSoFar(f, flag), Complete(f), f["type"] = "range"
  PROVE  flag.separator # NULL
<1>1. "separator" \in DOMAIN f
  BY DEF Complete, Attributes
<1> QED BY <1>1 DEF ReadSoFar

\* A particle is placed inside every ordinary dimension, and the program fails here
\* only on a range that is not ordinary: for all bounds that a range can have and
\* all random numbers (random.c:139-186, spso.c:658-690).
THEOREM ParticlesStartInside == ASSUME TypeFirst PROVE Spec => []PlacedInside
<1>1. ASSUME StartInv PROVE PlacedInside
  <2> USE <1>1 DEF StartInv
  <2> SUFFICES ASSUME NEW i \in DOMAIN position, Ordinary(doc.flags[i])
               PROVE  position[i] \in search_space[i].min .. search_space[i].max
    BY DEF PlacedInside, SearchInv
  <2>1. i \in 1 .. Len(position)
    BY DEF SearchInv, Drawn, IsList
  <2>2. Len(search_space) \in Nat
    <3>1. CASE search_space = <<>>
      BY <3>1
    <3>2. CASE search_space # <<>>
      BY <3>2, AllRead DEF SearchInv, SpaceMade
    <3> QED BY <3>1, <3>2
  <2>3. i \in 1 .. Len(search_space)
    BY <2>1, <2>2 DEF SearchInv, Drawn, IsList
  <2>4. position[i] \in opt_rand_int_range(search_space[i].min, search_space[i].max)
    BY <2>1 DEF SearchInv, Drawn
  <2> DEFINE f == doc.flags[i]
             flag == reader.flags[i]
  <2>5. /\ search_space[i] = opt_convert_flag(flag) /\ ReadSoFar(f, flag) /\ FlagMeans(f, flag)
        /\ f["type"] \in FlagTypes /\ ValueOf(f, "type") = f["type"] /\ flag.uid \in Int
    BY <2>3, Dimensions
  <2>6. opt_rand_int_range(search_space[i].min, search_space[i].max)
          \subseteq search_space[i].min .. search_space[i].max
    BY <2>5, OrdinaryIsSafe
  <2> QED BY <2>4, <2>6
<1> QED BY <1>1, StartHolds, PTL

\* The coordinates of the search space stand for the options that the file gives,
\* all of them and no others, and for leaving the flag out (config.c:188-674;
\* optimiser.c:504-752).
THEOREM SearchSpaceIsAsWritten == ASSUME TypeFirst PROVE Spec => []OptionsAsWritten
<1>1. ASSUME StartInv PROVE OptionsAsWritten
  <2> USE <1>1 DEF StartInv
  <2>1. DOMAIN search_space = 1 .. Len(search_space)
    <3>1. CASE search_space = <<>>
      BY <3>1
    <3>2. CASE search_space # <<>>
      BY <3>2, AllRead DEF SearchInv, SpaceMade
    <3> QED BY <3>1, <3>2
  <2> SUFFICES ASSUME NEW i \in 1 .. Len(search_space)
               PROVE  LET d == search_space[i]
                          f == doc.flags[i]
                          flag == opt_get_flag(reader.flags, d.uid)
                          reversed == ValueOf(f, "type") = "range" /\ d.min > d.max
                      IN  /\ flag = reader.flags[i]
                          /\ ~reversed =>
                               {convert_dimension_to_string(flag, v) : v \in d.min .. d.max}
                                 = Written(f) \cup {LeftOut}
    BY <2>1 DEF OptionsAsWritten
  <2> DEFINE d == search_space[i]
             f == doc.flags[i]
             flag == reader.flags[i]
  <2>2. /\ d = opt_convert_flag(flag) /\ ReadSoFar(f, flag) /\ FlagMeans(f, flag)
        /\ f["type"] \in FlagTypes /\ ValueOf(f, "type") = f["type"] /\ flag.uid = i - 1
        /\ flag.uid \in Int /\ i \in Int /\ WholeFile /\ i \in 1 .. Len(doc.flags)
    BY Dimensions, AllRead
  <2>3. Complete(f)
    BY <2>2 DEF ConfigInv, ClosedComplete, WholeFile
  <2> HIDE DEF f, flag
  <2>4. Convertible(flag) /\ IsList(flag.values) /\ d.uid = i - 1
    BY <2>2, DimensionOf
  <2>5. opt_get_flag(reader.flags, d.uid) = flag
    <3>1. d.uid + 1 = i
      BY <2>2, <2>4
    <3> QED BY <3>1 DEF opt_get_flag, flag
  <2>6. ASSUME ~(f["type"] = "range" /\ d.min > d.max)
        PROVE  {convert_dimension_to_string(flag, v) : v \in d.min .. d.max}
                 = Written(f) \cup {LeftOut}
    <3> DEFINE S == {flag.values[k] : k \in 1 .. Len(flag.values)}
    <3>1. flag.values \in Seq(S)
      BY <2>4 DEF IsList
    <3>2. flag.type = "OPT_RANGE_FLAG" =>
            /\ flag.min \in Int /\ flag.max \in Int /\ flag.min <= flag.max + 1
            /\ flag.separator # "NULL"
      <4> SUFFICES ASSUME flag.type = "OPT_RANGE_FLAG"
                   PROVE  /\ flag.min \in Int /\ flag.max \in Int /\ flag.min <= flag.max + 1
                          /\ flag.separator # "NULL"
        OBVIOUS
      <4>1. f["type"] = "range"
        BY <2>2 DEF FlagMeans, FlagTypes
      <4>2. flag.min = atoi(ValueOf(f, "min")) /\ flag.max = atoi(ValueOf(f, "max"))
        BY <2>2, <4>1 DEF FlagMeans
      <4>3. flag.min \in Int /\ flag.max \in Int
        BY <4>2, AtoiIsInt
      <4>4. d.min = flag.min /\ d.max = flag.max + 1
        BY <2>2 DEF opt_convert_flag
      <4>5. flag.min <= flag.max + 1
        BY <2>6, <4>1, <4>3, <4>4
      <4> QED BY <2>2, <2>3, <4>1, <4>3, <4>5, SeparatorIsThere DEF NULL
    <3> HIDE DEF S
    <3>3. LET e == opt_convert_flag(flag)
          IN  {convert_dimension_to_string(flag, v) : v \in e.min .. e.max}
                = Values(flag) \cup {LeftOut}
      BY <2>4, <3>1, <3>2, CoordinatesAreOptions
    <3>4. Values(flag) = Written(f)
      BY <2>2, ValuesAreWritten
    <3> QED BY <2>2, <3>3, <3>4
  <2> QED BY <2>2, <2>5, <2>6 DEF f, flag
<1> QED BY <1>1, StartHolds, PTL

-----------------------------------------------------------------------------
(* Types, in whatever order a file gives the keys of a flag.               *)

Flagged(flag) ==
  /\ DOMAIN flag = FlagFields
  /\ flag.uid \in Int /\ flag.min \in Int /\ flag.max \in Int /\ IsList(flag.values)

\* The array has an entry for each flag of the file, and each entry is a flag.
FlagsTyped ==
  /\ IsList(reader.flags) /\ Len(doc.flags) <= Len(reader.flags)
  /\ \A i \in 1 .. Len(reader.flags) : Flagged(reader.flags[i])
  /\ reader.uid_counter \in Int

TypeInv == TypeOK /\ (master \in {"reading", "sharing"} => position = <<>>)

LEMMA AttributeTyped ==
  ASSUME NEW flag, Flagged(flag), NEW k, NEW v
  PROVE  Flagged(AttributeSet(flag, k, v))
<1> DEFINE g == AttributeSet(flag, k, v)
<1>1. /\ DOMAIN g = FlagFields /\ g.uid = flag.uid
      /\ g.min \in {flag.min, 0, atoi(v)} /\ g.max \in {flag.max, 0, atoi(v)}
      /\ g.values \in {flag.values, <<>>}
  BY DEF AttributeSet, TypeSet, SeparatorSet, Flagged, FlagFields
<1>2. IsList(<<>>)
  BY DEF IsList
<1> HIDE DEF g
<1>3. g.uid \in Int /\ g.min \in Int /\ g.max \in Int
  <2>1. atoi(v) \in Int /\ 0 \in Int
    BY AtoiIsInt
  <2> QED BY <1>1, <2>1 DEF Flagged
<1>4. IsList(g.values)
  BY <1>1, <1>2 DEF Flagged
<1> QED BY <1>1, <1>3, <1>4 DEF Flagged, g

LEMMA NewTyped ==
  ASSUME NEW uid \in Int
  PROVE  Flagged(NewFlag(uid)) /\ Flagged(NoFlag)
<1>1. IsList(<<>>)
  BY DEF IsList
<1> QED BY <1>1 DEF Flagged, NewFlag, NoFlag, FlagFields

\* The last entry of the array changes.
LEMMA LastTyped ==
  ASSUME ReaderInv, FlagsTyped, Len(nest) >= 4, NEW g, Flagged(g),
         reader'.flags = [reader.flags EXCEPT ![Len(reader.flags)] = g],
         reader'.uid_counter = reader.uid_counter, Len(doc'.flags) = Len(doc.flags)
  PROVE  FlagsTyped'
<1> DEFINE n == Len(reader.flags)
<1>1. n \in Nat /\ DOMAIN reader.flags = 1 .. n
  BY DEF FlagsTyped, IsList
<1>2. IsList(reader'.flags) /\ Len(reader'.flags) = n
  BY <1>1 DEF IsList
<1>3. \A i \in 1 .. n : Flagged(reader'.flags[i])
  BY <1>1 DEF FlagsTyped
<1> QED BY <1>2, <1>3 DEF FlagsTyped

\* One more entry; the file has one more flag, or the array ends.
LEMMA MoreTyped ==
  ASSUME FlagsTyped, Len(doc.flags) \in Nat, NEW g, Flagged(g),
         reader'.flags = Append(reader.flags, g), reader'.uid_counter \in Int,
         Len(doc'.flags) \in {Len(doc.flags), Len(doc.flags) + 1}
  PROVE  FlagsTyped'
<1> DEFINE n == Len(reader.flags)
           s == reader'.flags
<1>1. /\ IsList(s) /\ Len(s) = n + 1 /\ s[n + 1] = g /\ n \in Nat
      /\ \A i \in 1 .. n : s[i] = reader.flags[i]
  BY ListGrows DEF FlagsTyped, IsList
<1> HIDE DEF s
<1>2. \A i \in 1 .. n + 1 : Flagged(s[i])
  <2> SUFFICES ASSUME NEW i \in 1 .. n + 1 PROVE Flagged(s[i])
    OBVIOUS
  <2>1. CASE i = n + 1
    BY <1>1, <2>1
  <2>2. CASE i # n + 1
    <3>1. i \in 1 .. n
      BY <1>1, <2>2
    <3> QED BY <1>1, <3>1 DEF FlagsTyped
  <2> QED BY <2>1, <2>2
<1>3. Len(doc'.flags) <= n + 1
  <2> DEFINE m == Len(doc.flags)
  <2>1. m <= n /\ m \in Nat /\ Len(doc'.flags) \in {m, m + 1}
    BY DEF FlagsTyped
  <2> HIDE DEF m, n
  <2>2. n \in Nat
    BY <1>1
  <2> QED BY <2>1, <2>2
<1> QED BY <1>1, <1>2, <1>3 DEF FlagsTyped, s

LEMMA TypesStand ==
  ASSUME FlagsTyped, reader'.flags = reader.flags, reader'.uid_counter = reader.uid_counter,
         Len(doc'.flags) = Len(doc.flags)
  PROVE  FlagsTyped'
BY DEF FlagsTyped

\* While a flag is open the array has an entry, and the last one is a flag.
LEMMA LastIsFlag ==
  ASSUME ReaderInv, FlagsTyped, Len(nest) >= 4
  PROVE  LET n == Len(reader.flags)
         IN  n > 0 /\ DOMAIN reader.flags[n] = FlagFields /\ Flagged(reader.flags[n])
<1>1. Len(doc.flags) > 0 /\ Len(doc.flags) \in Nat /\ Len(reader.flags) \in Nat
  BY DEF ReaderInv, Formed, Recorded, FlagsTyped, IsList
<1>2. Len(reader.flags) > 0
  BY <1>1 DEF FlagsTyped
<1> QED BY <1>1, <1>2 DEF FlagsTyped, Flagged

LEMMA WriteKeyTypes ==
  ASSUME ReaderInv, FlagsTyped, WriteKey
  PROVE  FlagsTyped'
<1> USE Here
<1>1. key = NULL /\ Innermost \in {"file", "compiler", "flag"} /\ doc' = doc
  BY DEF WriteKey
<1>2. PICK k : reader' = Scalar(reader, k)
  BY DEF WriteKey
<1>3. reader.state \in MapStates
  BY <1>1, States DEF MapStates
<1> QED BY <1>1, <1>2, <1>3, ReadsKeyOnly, TypesStand

LEMMA WriteValueTypes ==
  ASSUME ReaderInv, FlagsTyped, WriteValue
  PROVE  FlagsTyped'
<1> USE Here
<1>1. /\ key \notin {NULL, "compiler", "flags", "values", "depends-on"}
      /\ reader.map_key # NULL /\ reader.map_key = key
  BY DEF WriteValue
<1>2. PICK v :
        /\ doc' = CASE Innermost = "file" -> [doc EXCEPT !.top = Plus(@, key, v)]
                    [] Innermost = "compiler" -> [doc EXCEPT !.compiler = Plus(@, key, v)]
                    [] OTHER -> [doc EXCEPT !.flags[Len(doc.flags)] = Plus(@, key, v)]
        /\ reader' = Scalar(reader, v)
  BY DEF WriteValue
<1>3. DOMAIN doc = {"top", "compiler", "flags"}
  BY DEF Recorded
<1>4. CASE Innermost \in {"file", "compiler"}
  <2>1. doc'.flags = doc.flags
    BY <1>2, <1>3, <1>4
  <2>2. reader'.flags = reader.flags /\ reader'.uid_counter = reader.uid_counter
    <3>1. CASE Innermost = "file"
      <4>1. key \in ToSet(TopKeys) /\ reader.state = "TOP_LEVEL_MAP"
        BY <1>1, <3>1, SettingNames, States DEF KeyFits
      <4> QED BY <1>1, <1>2, <4>1, ReadsSetting
    <3>2. CASE Innermost = "compiler"
      <4>1. key \in ToSet(CompilerKeys) /\ reader.state = "COMPILER_MAP"
        BY <1>1, <3>2, SettingNames, States DEF KeyFits
      <4> QED BY <1>1, <1>2, <4>1, ReadsSetting
    <3> QED BY <1>4, <3>1, <3>2
  <2> QED BY <2>1, <2>2, TypesStand
<1>5. CASE Innermost = "flag"
  <2> DEFINE g == AttributeSet(reader.flags[Len(reader.flags)], key, v)
  <2>1. Len(nest) >= 4
    <3>1. Len(nest) = 4
      BY <1>5
    <3> QED BY <3>1
  <2>2. LastSet(reader, reader', g) /\ Flagged(g)
    <3>1. reader.state = "COMPILER_FLAG_MAP"
      BY <1>5, States
    <3> QED BY <1>1, <1>2, <2>1, <3>1, LastIsFlag, ReadsFlagValue, AttributeTyped DEF FlagsTyped
  <2>3. Len(doc'.flags) = Len(doc.flags)
    BY <1>2, <1>3, <1>5 DEF Recorded
  <2> HIDE DEF g
  <2> QED BY <2>1, <2>2, <2>3, LastTyped DEF LastSet
<1> QED BY <1>1, <1>4, <1>5 DEF KeyFits

LEMMA WriteItemTypes ==
  ASSUME ReaderInv, FlagsTyped, WriteItem
  PROVE  FlagsTyped'
<1> USE Here
<1> DEFINE flag == reader.flags[Len(reader.flags)]
<1>1. Len(nest) >= 4 /\ reader.state = "COMPILER_FLAG_MAP_SEQ"
  <2>1. Innermost \in {"values", "depends-on"}
    BY DEF WriteItem
  <2>2. Len(nest) = 5
    BY <2>1
  <2> QED BY <2>1, <2>2, States
<1>2. PICK item :
        /\ doc' = [doc EXCEPT !.flags[Len(doc.flags)][Innermost] = Append(@, item)]
        /\ reader' = Scalar(reader, item)
  BY DEF WriteItem
<1> DEFINE g == IF reader.oa = "values" THEN [flag EXCEPT !.values = Append(@, item)] ELSE flag
<1>3. LastSet(reader, reader', g)
  BY <1>1, <1>2, LastIsFlag, ReadsListed DEF FlagsTyped
<1>4. Flagged(g)
  <2>1. Flagged(flag)
    BY <1>1, LastIsFlag
  <2> HIDE DEF flag
  <2>2. IsList(Append(flag.values, item))
    BY <2>1, ListGrows DEF Flagged
  <2> DEFINE more == Append(flag.values, item)
  <2> HIDE DEF more
  <2>3. Flagged([flag EXCEPT !.values = more])
    BY <2>1, <2>2 DEF Flagged, FlagFields, more
  <2> QED BY <2>1, <2>3 DEF more
<1>5. Len(doc'.flags) = Len(doc.flags)
  BY <1>2 DEF Recorded
<1> HIDE DEF g
<1> QED BY <1>1, <1>3, <1>4, <1>5, LastTyped DEF LastSet

LEMMA OpenMappingTypes ==
  ASSUME ReaderInv, FlagsTyped, OpenMapping
  PROVE  FlagsTyped'
<1> USE Here
<1>1. /\ reader' = MappingStart(reader)
      /\ \/ nest = <<>> /\ doc' = doc
         \/ key = "compiler" /\ doc' = [doc EXCEPT !.top = Plus(@, key, "mapping")]
         \/ Innermost = "flags" /\ doc' = [doc EXCEPT !.flags = Append(@, <<>>)]
  BY DEF OpenMapping
<1>2. DOMAIN doc = {"top", "compiler", "flags"} /\ Len(doc.flags) \in Nat
  BY DEF Recorded
<1>3. CASE Innermost = "flags"
  <2>1. /\ reader'.flags = Append(reader.flags, NewFlag(reader.uid_counter))
        /\ reader'.uid_counter = reader.uid_counter + 1
    BY <1>1, <1>3, States, StartsAndEnds
  <2>2. doc'.flags = Append(doc.flags, <<>>)
    <3>1. key # "compiler"
      BY <1>3 DEF KeyFits, NULL
    <3>2. nest # <<>>
      <4>1. Innermost # None
        BY <1>3 DEF None
      <4> QED BY <4>1 DEF Innermost
    <3> QED BY <1>1, <1>2, <3>1, <3>2
  <2>3. Len(doc'.flags) = Len(doc.flags) + 1
    <3>1. IsList(doc.flags)
      BY DEF Recorded, IsList
    <3> QED BY <2>2, <3>1, ListGrows
  <2>4. Flagged(NewFlag(reader.uid_counter)) /\ reader'.uid_counter \in Int
    BY <2>1, NewTyped DEF FlagsTyped
  <2> DEFINE new == NewFlag(reader.uid_counter)
  <2> HIDE DEF new
  <2> QED BY <1>2, <2>1, <2>3, <2>4, MoreTyped DEF new
<1>4. CASE Innermost # "flags"
  <2>1. doc'.flags = doc.flags
    BY <1>1, <1>2, <1>4
  <2>2. reader.state # "COMPILER_FLAGS_SEQ"
    <3>1. nest = <<>> \/ key = "compiler"
      BY <1>1, <1>4
    <3> QED BY <1>4, <3>1, States DEF KeyFits, NULL
  <2>3. reader'.flags = reader.flags /\ reader'.uid_counter = reader.uid_counter
    BY <1>1, <2>2, StartsAndEnds
  <2> QED BY <2>1, <2>3, TypesStand
<1> QED BY <1>3, <1>4

LEMMA OpenSequenceTypes ==
  ASSUME ReaderInv, FlagsTyped, OpenSequence
  PROVE  FlagsTyped'
<1> USE Here
<1>1. /\ reader' = SequenceStart(reader)
      /\ \/ doc' = [doc EXCEPT !.compiler = Plus(@, key, "sequence")]
         \/ doc' = [doc EXCEPT !.flags[Len(doc.flags)] = Plus(@, key, <<>>)]
  BY DEF OpenSequence
<1>2. Len(doc'.flags) = Len(doc.flags)
  BY <1>1 DEF Recorded
<1>3. reader'.flags = reader.flags /\ reader'.uid_counter = reader.uid_counter
  BY <1>1, StartsAndEnds
<1> QED BY <1>2, <1>3, TypesStand

LEMMA CloseTypes ==
  ASSUME ReaderInv, FlagsTyped, CloseMapping \/ CloseSequence
  PROVE  FlagsTyped'
<1> USE Here
<1>1. doc' = doc /\ (reader' = MappingEnd(reader) \/ reader' = SequenceEnd(reader))
  BY DEF CloseMapping, CloseSequence
<1>2. /\ reader'.uid_counter = reader.uid_counter
      /\ reader'.flags = reader.flags \/ reader'.flags = Append(reader.flags, NoFlag)
  BY <1>1, StartsAndEnds
<1>3. CASE reader'.flags = reader.flags
  BY <1>1, <1>2, <1>3, TypesStand
<1>4. CASE reader'.flags = Append(reader.flags, NoFlag)
  <2>1. Flagged(NoFlag) /\ reader'.uid_counter \in Int /\ Len(doc.flags) \in Nat
    BY <1>2, NewTyped DEF FlagsTyped, Recorded
  <2> QED BY <1>1, <1>4, <2>1, MoreTyped
<1> QED BY <1>2, <1>3, <1>4

LEMMA FlagsKeepTypes ==
  ASSUME ReaderInv, FlagsTyped, [Next]_vars
  PROVE  FlagsTyped'
<1>1. CASE ReadStep
  BY <1>1, WriteKeyTypes, WriteValueTypes, OpenMappingTypes, OpenSequenceTypes, WriteItemTypes,
     CloseTypes DEF ReadStep, ReadNext
<1>2. CASE ~ReadStep
  <2>1. UNCHANGED readVars
    BY <1>2 DEF Next, MasterStep, WorkerStep, Barrier, ShareStep, Abort, MakeSearchSpace,
                StartSwarm, RefuseSearch, Place, DivideByZero, BuildOptions, ReceiveStep,
                StartWorker, RefuseWorker, Finished, vars
  <2> QED BY <2>1, TypesStand DEF readVars
<1> QED BY <1>1, <1>2

\* The flags that num_flags counts are entries of the array.
LEMMA CountedAreThere ==
  ASSUME ReaderInv, FlagsTyped
  PROVE  /\ reader.num_flags \in Nat
         /\ \A i \in 1 .. reader.num_flags : Flagged(reader.flags[i])
<1> USE Here
<1> DEFINE n == Len(doc.flags)
<1>1. n \in Nat /\ DOMAIN doc.flags = 1 .. n
  BY DEF Recorded
<1>2. TypedFlags \subseteq 1 .. n
  BY <1>1 DEF TypedFlags
<1>3. IsFiniteSet(1 .. n) /\ Cardinality(1 .. n) = n
  <2> HIDE DEF n
  <2>1. n \in Int /\ 1 \in Int /\ n - 1 + 1 = n /\ (1 > n => n = 0)
    BY <1>1
  <2> QED BY <2>1, FS_Interval
<1>4. Cardinality(TypedFlags) \in Nat /\ Cardinality(TypedFlags) <= n
  <2> DEFINE S == 1 .. n
  <2>1. IsFiniteSet(S) /\ Cardinality(S) = n /\ TypedFlags \subseteq S
    BY <1>2, <1>3
  <2> HIDE DEF S, n
  <2>2. IsFiniteSet(TypedFlags) /\ Cardinality(TypedFlags) <= Cardinality(S)
    BY <2>1, FS_Subset
  <2> QED BY <2>1, <2>2, FS_CardinalityType
<1>5. reader.num_flags \in Nat /\ reader.num_flags <= n
  BY <1>4
<1>6. n <= Len(reader.flags) /\ Len(reader.flags) \in Nat
  BY DEF FlagsTyped, IsList
<1>7. \A i \in 1 .. reader.num_flags : i \in 1 .. Len(reader.flags)
  BY <1>1, <1>5, <1>6
<1> QED BY <1>5, <1>7 DEF FlagsTyped

LEMMA DimensionTyped ==
  ASSUME NEW flag, Flagged(flag), Convertible(flag)
  PROVE  opt_convert_flag(flag) \in [uid : Int, min : Int, max : Int]
<1>1. Len(flag.values) \in Int /\ flag.max + 1 \in Int
  BY DEF Flagged, IsList
<1> QED BY <1>1 DEF Convertible, opt_convert_flag, Flagged

LEMMA TypesKept ==
  ASSUME ReaderInv, FlagsTyped, ShareInv, ShareInv', TypeInv, [Next]_vars
  PROVE  TypeInv'
<1> DEFINE Dimension == [uid : Int, min : Int, max : Int]
<1>1. sent' \in 0 .. Len(Broadcasts) /\ got' \in [Worker -> 0 .. sent']
  BY Eleven DEF ShareInv, Paced
<1>2. started' \subseteq Worker /\ database' \in {"closed", "new", "error"}
  <2>1. started \subseteq Worker /\ database \in {"closed", "new", "error"}
    BY DEF TypeInv, TypeOK
  <2>2. CASE \E w \in Worker : StartWorker(w)
    BY <2>1, <2>2 DEF StartWorker
  <2>3. CASE ~\E w \in Worker : StartWorker(w)
    BY <2>1, <2>3
       DEF Next, MasterStep, WorkerStep, ReadStep, Barrier, ShareStep, Abort, MakeSearchSpace,
           StartSwarm, RefuseSearch, OpenDatabase, Place, DivideByZero, BuildOptions,
           ReceiveStep, RefuseWorker, Finished, initVars, vars
  <2> QED BY <2>2, <2>3
<1>3. CASE MakeSearchSpace
  <2>1. /\ master = "sharing" /\ position = <<>> /\ position' = position
        /\ master' \in {"initialising", "crashed"} /\ search_space \in Seq(Dimension)
    BY <1>3 DEF MakeSearchSpace, TypeInv, TypeOK
  <2>2. search_space' \in Seq(Dimension)
    <3>1. CASE \A i \in 1 .. reader.num_flags : Convertible(reader.flags[i])
      <4> DEFINE n == reader.num_flags
      <4>1. search_space' = [i \in 1 .. n |-> opt_convert_flag(reader.flags[i])] /\ n \in Nat
        BY <1>3, <3>1, CountedAreThere DEF MakeSearchSpace
      <4>2. \A i \in 1 .. n : opt_convert_flag(reader.flags[i]) \in Dimension
        BY <3>1, CountedAreThere, DimensionTyped
      <4> HIDE DEF n, Dimension
      <4> QED BY <4>1, <4>2
    <3>2. CASE ~\A i \in 1 .. reader.num_flags : Convertible(reader.flags[i])
      BY <1>3, <2>1, <3>2 DEF MakeSearchSpace
    <3> QED BY <3>1, <3>2
  <2>3. position' \in Seq(Int) /\ Len(position') <= Len(search_space')
    <3> HIDE DEF Dimension
    <3> QED BY <2>1, <2>2
  <2> QED BY <1>1, <1>2, <2>1, <2>2, <2>3 DEF TypeInv, TypeOK
<1>4. CASE Place
  <2> DEFINE l == Len(position)
             d == search_space[l + 1]
  <2>1. PICK x \in opt_rand_int_range(d.min, d.max) : position' = Append(position, x)
    BY <1>4 DEF Place
  <2>2. /\ search_space' = search_space /\ search_space \in Seq(Dimension)
        /\ l < Len(search_space) /\ position \in Seq(Int) /\ l \in Nat
        /\ master' = "placing"
    BY <1>4 DEF Place, TypeInv, TypeOK
  <2>3. d \in Dimension
    <3> HIDE DEF Dimension
    <3> QED BY <2>2
  <2>4. x \in Int
    BY <2>1, <2>3, RandIsInt
  <2>5. position' \in Seq(Int) /\ Len(position') = l + 1
    BY <2>1, <2>2, <2>4, AppendProperties
  <2>6. Len(position') <= Len(search_space')
    BY <2>2, <2>5
  <2> QED BY <1>1, <1>2, <2>2, <2>5, <2>6 DEF TypeInv, TypeOK
<1>5. CASE ~MakeSearchSpace /\ ~Place
  <2>1. /\ UNCHANGED <<search_space, position>>
        /\ master' \in {"reading", "sharing", "initialising", "placing", "searching", "aborted",
                       "crashed"}
        /\ master' \in {"reading", "sharing"} => master \in {"reading", "sharing"}
    BY <1>5 DEF Next, MasterStep, WorkerStep, ReadStep, Barrier, ShareStep, Abort, StartSwarm,
                RefuseSearch, DivideByZero, BuildOptions, ReceiveStep, StartWorker, RefuseWorker,
                Finished, initVars, vars, TypeInv, TypeOK
  <2> QED BY <1>1, <1>2, <2>1 DEF TypeInv, TypeOK
<1> QED BY <1>3, <1>4, <1>5

\* Startup keeps its types, and no rank is ahead of the master, for any files and
\* any number of workers, and whatever the order of a flag's keys
\* (config.c:188-769, optimiser.c:504-551, spso.c:658-690).
THEOREM TypeCorrect == Spec => []TypeOK
<1>1. Init => FlagsTyped /\ TypeInv
  <2> SUFFICES ASSUME Init PROVE FlagsTyped /\ TypeInv
    OBVIOUS
  <2>1. FlagsTyped
    BY DEF Init, ReadInit, FlagsTyped, IsList
  <2>2. sent \in 0 .. Len(Broadcasts) /\ got \in [Worker -> 0 .. sent]
    BY ShareStarts, Eleven DEF ShareInv, Paced
  <2> QED BY <2>1, <2>2 DEF Init, TypeInv, TypeOK
<1>2. ReaderInv /\ FlagsTyped /\ [Next]_vars => FlagsTyped'
  BY FlagsKeepTypes
<1>3. ReaderInv /\ FlagsTyped /\ ShareInv /\ ShareInv' /\ TypeInv /\ [Next]_vars => TypeInv'
  BY TypesKept
<1>4. TypeInv => TypeOK
  BY DEF TypeInv
<1>5. ReaderInv /\ [Next]_vars => ReaderInv'
  BY ReaderKeeps
<1> QED BY <1>1, <1>2, <1>3, <1>4, <1>5, ReaderStarts, ShareHolds, PTL DEF Spec

-----------------------------------------------------------------------------
(* Which files start, in whatever order they give the keys of a flag.      *)

\* A text that is written is there, and a flag that is closed has a type.
TextsThere ==
  /\ \A k \in DOMAIN doc.top : doc.top[k] # NULL
  /\ \A k \in DOMAIN doc.compiler : doc.compiler[k] # NULL

ClosedTyped ==
  \A i \in 1 .. Len(doc.flags) :
    i < Len(doc.flags) \/ Len(nest) < 4 => "type" \in DOMAIN doc.flags[i]

FileInv == Settings /\ TextsThere /\ ClosedTyped

LEMMA PlusThere ==
  ASSUME NEW m, NEW k, NEW v, v # NULL, \A l \in DOMAIN m : m[l] # NULL
  PROVE  \A l \in DOMAIN Plus(m, k, v) : Plus(m, k, v)[l] # NULL
BY DEF Plus

\* The flags only get more attributes, and none is closed.
LEMMA TypedStand ==
  ASSUME ClosedTyped, Len(doc'.flags) = Len(doc.flags),
         \A i \in 1 .. Len(doc.flags) : DOMAIN doc.flags[i] \subseteq DOMAIN doc'.flags[i],
         Len(nest') < 4 => Len(nest) < 4
  PROVE  ClosedTyped'
BY DEF ClosedTyped

\* An attribute is written to the last flag.
LEMMA LastGrows ==
  ASSUME Recorded, Len(doc.flags) > 0, NEW f, DOMAIN doc.flags[Len(doc.flags)] \subseteq DOMAIN f,
         doc' = [doc EXCEPT !.flags[Len(doc.flags)] = f]
  PROVE  /\ doc'.top = doc.top /\ doc'.compiler = doc.compiler
         /\ Len(doc'.flags) = Len(doc.flags)
         /\ \A i \in 1 .. Len(doc.flags) : DOMAIN doc.flags[i] \subseteq DOMAIN doc'.flags[i]
<1> DEFINE n == Len(doc.flags)
<1>1. n \in 1 .. n /\ DOMAIN doc.flags = 1 .. n /\ n \in Nat
  BY DEF Recorded
<1>2. /\ doc'.top = doc.top /\ doc'.compiler = doc.compiler
      /\ doc'.flags = [i \in 1 .. n |-> IF i = n THEN f ELSE doc.flags[i]]
  BY <1>1 DEF Recorded
<1> HIDE DEF n
<1>3. Len(doc'.flags) = n /\ \A i \in 1 .. n : doc'.flags[i] = IF i = n THEN f ELSE doc.flags[i]
  BY <1>1, <1>2
<1> QED BY <1>1, <1>2, <1>3 DEF n

LEMMA WriteKeyFile ==
  ASSUME ReaderInv, FileInv, WriteKey
  PROVE  FileInv'
<1> USE Here
<1>1. key = NULL /\ Innermost \in {"file", "compiler", "flag"} /\ doc' = doc /\ nest' = nest
  BY DEF WriteKey
<1>2. PICK k : reader' = Scalar(reader, k)
  BY DEF WriteKey
<1>3. reader.state \in MapStates
  BY <1>1, States DEF MapStates
<1>4. reader'.top = reader.top /\ reader'.compiler = reader.compiler
  BY <1>1, <1>2, <1>3, ReadsKeyOnly
<1>5. Settings'
  BY <1>1, <1>4, SettingsStand DEF FileInv
<1>6. TextsThere' /\ ClosedTyped'
  BY <1>1 DEF FileInv, TextsThere, ClosedTyped
<1> QED BY <1>5, <1>6 DEF FileInv

LEMMA WriteValueFile ==
  ASSUME ReaderInv, FlagsTyped, FileInv, WriteValue
  PROVE  FileInv'
<1> USE Here
<1>1. /\ key \notin {NULL, "compiler", "flags", "values", "depends-on"} /\ nest' = nest
      /\ reader.map_key # NULL /\ reader.map_key = key
  BY DEF WriteValue
<1>2. PICK v \in TextOf(key) :
        /\ doc' = CASE Innermost = "file" -> [doc EXCEPT !.top = Plus(@, key, v)]
                    [] Innermost = "compiler" ->
                         [doc EXCEPT !.compiler = Plus(@, key, v)]
                    [] OTHER -> [doc EXCEPT !.flags[Len(doc.flags)] = Plus(@, key, v)]
        /\ reader' = Scalar(reader, v)
  BY DEF WriteValue
<1>3. DOMAIN doc = {"top", "compiler", "flags"}
  BY DEF Recorded
<1>4. key \notin {"max", "min", "type"} => v # NULL
  <2> SUFFICES ASSUME key \notin {"max", "min", "type"} PROVE v # NULL
    OBVIOUS
  <2>1. v \in {"number", "short", "long", "signal"}
    BY <1>2 DEF TextOf
  <2> QED BY <2>1 DEF NULL
<1>5. CASE Innermost = "file"
  <2>1. key \in ToSet(TopKeys) /\ v # NULL
    BY <1>1, <1>4, <1>5, SettingNames DEF KeyFits, FileKeys
  <2>2. /\ doc'.top = Plus(doc.top, key, v) /\ doc'.compiler = doc.compiler
        /\ doc'.flags = doc.flags
    <3>1. doc' = [doc EXCEPT !.top = Plus(@, key, v)]
      BY <1>2, <1>5
    <3> QED BY <1>3, <3>1
  <2>3. reader'.top = [reader.top EXCEPT ![key] = v] /\ reader'.compiler = reader.compiler
    <3>1. reader.state = "TOP_LEVEL_MAP"
      BY <1>5, States
    <3> QED BY <1>1, <1>2, <2>1, <3>1, ReadsSetting
  <2>4. Settings'
    BY <2>1, <2>2, <2>3, TextOfPlus DEF FileInv, Settings
  <2>5. TextsThere'
    BY <2>1, <2>2, PlusThere DEF FileInv, TextsThere
  <2>6. ClosedTyped'
    BY <1>1, <2>2 DEF FileInv, ClosedTyped
  <2> QED BY <2>4, <2>5, <2>6 DEF FileInv
<1>6. CASE Innermost = "compiler"
  <2>1. key \in ToSet(CompilerKeys) /\ v # NULL
    BY <1>1, <1>4, <1>6, SettingNames DEF KeyFits
  <2>2. /\ doc'.compiler = Plus(doc.compiler, key, v) /\ doc'.top = doc.top
        /\ doc'.flags = doc.flags
    <3>1. doc' = [doc EXCEPT !.compiler = Plus(@, key, v)]
      BY <1>2, <1>6
    <3> QED BY <1>3, <3>1
  <2>3. reader'.compiler = [reader.compiler EXCEPT ![key] = v] /\ reader'.top = reader.top
    <3>1. reader.state = "COMPILER_MAP"
      BY <1>6, States
    <3> QED BY <1>1, <1>2, <2>1, <3>1, ReadsSetting
  <2>4. Settings'
    BY <2>1, <2>2, <2>3, TextOfPlus DEF FileInv, Settings
  <2>5. TextsThere'
    BY <2>1, <2>2, PlusThere DEF FileInv, TextsThere
  <2>6. ClosedTyped'
    BY <1>1, <2>2 DEF FileInv, ClosedTyped
  <2> QED BY <2>4, <2>5, <2>6 DEF FileInv
<1>7. CASE Innermost = "flag"
  <2> DEFINE f == Plus(doc.flags[Len(doc.flags)], key, v)
             g == AttributeSet(reader.flags[Len(reader.flags)], key, v)
  <2>1. Len(nest) >= 4
    <3>1. Len(nest) = 4
      BY <1>7
    <3> QED BY <3>1
  <2>2. LastSet(reader, reader', g)
    <3>1. reader.state = "COMPILER_FLAG_MAP"
      BY <1>7, States
    <3> QED BY <1>1, <1>2, <2>1, <3>1, LastIsFlag, ReadsFlagValue DEF FlagsTyped
  <2>3. doc' = [doc EXCEPT !.flags[Len(doc.flags)] = f] /\ Len(doc.flags) > 0
    BY <1>2, <1>7, <2>1 DEF Formed
  <2>4. DOMAIN doc.flags[Len(doc.flags)] \subseteq DOMAIN f
    BY DEF Plus
  <2> HIDE DEF f, g
  <2>5. /\ doc'.top = doc.top /\ doc'.compiler = doc.compiler
        /\ Len(doc'.flags) = Len(doc.flags)
        /\ \A i \in 1 .. Len(doc.flags) : DOMAIN doc.flags[i] \subseteq DOMAIN doc'.flags[i]
    BY <2>3, <2>4, LastGrows
  <2>6. Settings'
    BY <2>2, <2>5, SettingsStand DEF FileInv, LastSet
  <2>7. TextsThere'
    BY <2>5 DEF FileInv, TextsThere
  <2>8. ClosedTyped'
    BY <1>1, <2>5, TypedStand DEF FileInv
  <2> QED BY <2>6, <2>7, <2>8 DEF FileInv
<1> QED BY <1>1, <1>5, <1>6, <1>7 DEF KeyFits

LEMMA OpenMappingFile ==
  ASSUME ReaderInv, FileInv, OpenMapping
  PROVE  FileInv'
<1> USE Here
<1>1. reader'.top = reader.top /\ reader'.compiler = reader.compiler
  BY StartsAndEnds DEF OpenMapping
<1>2. DOMAIN doc = {"top", "compiler", "flags"}
  BY DEF Recorded
<1>3. CASE nest = <<>> /\ nest' = <<"file">> /\ UNCHANGED doc
  <2>1. Settings'
    BY <1>1, <1>3, SettingsStand DEF FileInv
  <2>2. TextsThere' /\ ClosedTyped'
    BY <1>3 DEF FileInv, TextsThere, ClosedTyped
  <2> QED BY <2>1, <2>2 DEF FileInv
<1>4. CASE /\ key = "compiler" /\ nest' = Append(nest, "compiler")
           /\ doc' = [doc EXCEPT !.top = Plus(@, key, "mapping")]
  <2>1. Len(nest) = 1
    BY <1>4 DEF KeyFits, FlagKeys, NULL
  <2>2. /\ doc'.top = Plus(doc.top, "compiler", "mapping") /\ doc'.compiler = doc.compiler
        /\ doc'.flags = doc.flags
    BY <1>2, <1>4
  <2>3. Settings'
    <3>1. "compiler" \notin ToSet(TopKeys)
      BY SettingNames
    <3> QED BY <1>1, <2>2, <3>1, TextOfPlus, SettingsStand DEF FileInv
  <2>4. TextsThere'
    <3>1. "mapping" # NULL
      BY DEF NULL
    <3> QED BY <2>2, <3>1, PlusThere DEF FileInv, TextsThere
  <2>5. ClosedTyped'
    BY <2>1, <2>2 DEF FileInv, ClosedTyped
  <2> QED BY <2>3, <2>4, <2>5 DEF FileInv
<1>5. CASE Innermost = "flags" /\ doc' = [doc EXCEPT !.flags = Append(@, <<>>)]
  <2> DEFINE n == Len(doc.flags)
  <2>1. /\ doc'.top = doc.top /\ doc'.compiler = doc.compiler
        /\ doc'.flags = Append(doc.flags, <<>>)
    BY <1>2, <1>5
  <2>2. IsList(doc.flags)
    BY DEF Recorded, IsList
  <2>3. Len(doc'.flags) = n + 1 /\ n \in Nat /\ \A i \in 1 .. n : doc'.flags[i] = doc.flags[i]
    BY <2>1, <2>2, ListGrows DEF IsList
  <2>4. \A i \in 1 .. n : "type" \in DOMAIN doc.flags[i]
    <3>1. Len(nest) = 3
      BY <1>5
    <3> QED BY <3>1 DEF FileInv, ClosedTyped
  <2>5. Len(nest') = 4
    <3>1. nest' = Append(nest, "flag") /\ Len(nest) = 3
      <4>1. key # "compiler" /\ nest # <<>>
        BY <1>5 DEF KeyFits, NULL, Innermost, None
      <4> QED BY <1>5, <4>1 DEF OpenMapping
    <3>2. nest \in Seq(Kinds) /\ "flag" \in Kinds
      BY DEF Nested, Deep, Kinds
    <3>3. Len(Append(nest, "flag")) = Len(nest) + 1
      BY <3>2, AppendProperties
    <3> QED BY <3>1, <3>3
  <2> HIDE DEF n
  <2>6. ClosedTyped'
    <3> SUFFICES ASSUME NEW i \in 1 .. n + 1, i < n + 1 PROVE "type" \in DOMAIN doc'.flags[i]
      BY <2>3, <2>5 DEF ClosedTyped
    <3>1. i \in 1 .. n
      BY <2>3
    <3> QED BY <2>3, <2>4, <3>1
  <2>7. Settings'
    BY <1>1, <2>1, SettingsStand DEF FileInv
  <2>8. TextsThere'
    BY <2>1 DEF FileInv, TextsThere
  <2> QED BY <2>6, <2>7, <2>8 DEF FileInv
<1> QED BY <1>3, <1>4, <1>5 DEF OpenMapping

LEMMA OpenSequenceFile ==
  ASSUME ReaderInv, FileInv, OpenSequence
  PROVE  FileInv'
<1> USE Here
<1>1. reader'.top = reader.top /\ reader'.compiler = reader.compiler /\ nest' = Append(nest, key)
  BY StartsAndEnds DEF OpenSequence
<1>2. DOMAIN doc = {"top", "compiler", "flags"}
  BY DEF Recorded
<1>3. CASE key = "flags" /\ doc' = [doc EXCEPT !.compiler = Plus(@, key, "sequence")]
  <2>1. Len(nest) = 2
    BY <1>3 DEF KeyFits, FileKeys, FlagKeys, NULL
  <2>2. /\ doc'.compiler = Plus(doc.compiler, "flags", "sequence") /\ doc'.top = doc.top
        /\ doc'.flags = doc.flags
    BY <1>2, <1>3
  <2>3. Settings'
    <3>1. "flags" \notin ToSet(CompilerKeys)
      BY SettingNames
    <3> QED BY <1>1, <2>2, <3>1, TextOfPlus, SettingsStand DEF FileInv
  <2>4. TextsThere'
    <3>1. "sequence" # NULL
      BY DEF NULL
    <3> QED BY <2>2, <3>1, PlusThere DEF FileInv, TextsThere
  <2>5. ClosedTyped'
    BY <2>1, <2>2 DEF FileInv, ClosedTyped
  <2> QED BY <2>3, <2>4, <2>5 DEF FileInv
<1>4. CASE /\ key \in {"values", "depends-on"}
           /\ doc' = [doc EXCEPT !.flags[Len(doc.flags)] = Plus(@, key, <<>>)]
  <2> DEFINE f == Plus(doc.flags[Len(doc.flags)], key, <<>>)
  <2>1. Innermost = "flag"
    BY <1>4 DEF KeyFits, FileKeys, NULL
  <2>2. Len(nest) = 4
    BY <2>1
  <2>3. Len(doc.flags) > 0 /\ Len(nest') = 5
    <3>1. nest \in Seq(Kinds) /\ key \in Kinds
      BY <1>4 DEF Nested, Deep, Kinds
    <3>2. Len(Append(nest, key)) = Len(nest) + 1
      BY <3>1, AppendProperties
    <3>3. Len(nest) >= 4
      BY <2>2
    <3> QED BY <1>1, <2>2, <3>2, <3>3 DEF Formed
  <2>4. DOMAIN doc.flags[Len(doc.flags)] \subseteq DOMAIN f
    BY DEF Plus
  <2>5. doc' = [doc EXCEPT !.flags[Len(doc.flags)] = f]
    BY <1>4
  <2> HIDE DEF f
  <2>6. /\ doc'.top = doc.top /\ doc'.compiler = doc.compiler
        /\ Len(doc'.flags) = Len(doc.flags)
        /\ \A i \in 1 .. Len(doc.flags) : DOMAIN doc.flags[i] \subseteq DOMAIN doc'.flags[i]
    BY <2>3, <2>4, <2>5, LastGrows
  <2>7. Settings'
    BY <1>1, <2>6, SettingsStand DEF FileInv
  <2>8. TextsThere'
    BY <2>6 DEF FileInv, TextsThere
  <2>9. ClosedTyped'
    BY <2>3, <2>6, TypedStand DEF FileInv
  <2> QED BY <2>7, <2>8, <2>9 DEF FileInv
<1> QED BY <1>3, <1>4 DEF OpenSequence

LEMMA WriteItemFile ==
  ASSUME ReaderInv, FlagsTyped, FileInv, WriteItem
  PROVE  FileInv'
<1> USE Here
<1>1. Innermost \in {"values", "depends-on"} /\ nest' = nest
  BY DEF WriteItem
<1>2. PICK item :
        /\ doc' = [doc EXCEPT !.flags[Len(doc.flags)][Innermost] = Append(@, item)]
        /\ reader' = Scalar(reader, item)
  BY DEF WriteItem
<1>3. Len(nest) >= 4 /\ reader.state = "COMPILER_FLAG_MAP_SEQ" /\ Len(doc.flags) > 0
  <2>1. Len(nest) = 5
    BY <1>1
  <2> QED BY <1>1, <2>1, States DEF Formed
<1>4. reader'.top = reader.top /\ reader'.compiler = reader.compiler
  BY <1>2, <1>3, LastIsFlag, ReadsListed DEF FlagsTyped, LastSet
<1> DEFINE f == [doc.flags[Len(doc.flags)] EXCEPT ![Innermost] = Append(@, item)]
<1>5. DOMAIN doc.flags[Len(doc.flags)] \subseteq DOMAIN f
  OBVIOUS
<1>6. doc' = [doc EXCEPT !.flags[Len(doc.flags)] = f]
  BY <1>2
<1> HIDE DEF f
<1>7. /\ doc'.top = doc.top /\ doc'.compiler = doc.compiler
      /\ Len(doc'.flags) = Len(doc.flags)
      /\ \A i \in 1 .. Len(doc.flags) : DOMAIN doc.flags[i] \subseteq DOMAIN doc'.flags[i]
  BY <1>3, <1>5, <1>6, LastGrows
<1>8. Settings'
  BY <1>4, <1>7, SettingsStand DEF FileInv
<1>9. TextsThere'
  BY <1>7 DEF FileInv, TextsThere
<1>10. ClosedTyped'
  BY <1>1, <1>7, TypedStand DEF FileInv
<1> QED BY <1>8, <1>9, <1>10 DEF FileInv

LEMMA CloseFile ==
  ASSUME ReaderInv, FileInv, CloseMapping \/ CloseSequence
  PROVE  FileInv'
<1> USE Here
<1>1. /\ doc' = doc /\ nest' = Front(nest)
      /\ reader' = MappingEnd(reader) \/ reader' = SequenceEnd(reader)
  BY DEF CloseMapping, CloseSequence
<1>2. reader'.top = reader.top /\ reader'.compiler = reader.compiler
  BY <1>1, StartsAndEnds
<1>3. Settings'
  BY <1>1, <1>2, SettingsStand DEF FileInv
<1>4. TextsThere'
  BY <1>1 DEF FileInv, TextsThere
<1>5. ClosedTyped'
  <2>1. Innermost \in {"file", "compiler", "flags", "flag", "values", "depends-on"}
    BY DEF CloseMapping, CloseSequence
  <2>2. Len(nest) > 0
    <3>1. Len(nest) # 0 /\ Len(nest) \in 0 .. 5
      BY <2>1 DEF None
    <3>2. \A n \in 0 .. 5 : n # 0 => n > 0
      OBVIOUS
    <3> QED BY <3>1, <3>2
  <2>3. Len(nest') = Len(nest) - 1
    BY <1>1, <2>2, Outer
  <2>4. CASE Innermost = "flag"
    <3>1. Len(nest) = 4 /\ "type" \in DOMAIN ThisFlag
      BY <2>4 DEF CloseMapping, CloseSequence
    <3> SUFFICES ASSUME NEW i \in 1 .. Len(doc.flags) PROVE "type" \in DOMAIN doc.flags[i]
      BY <1>1 DEF ClosedTyped
    <3>2. CASE i = Len(doc.flags)
      BY <3>1, <3>2 DEF ThisFlag
    <3>3. CASE i # Len(doc.flags)
      <4>1. i < Len(doc.flags)
        BY <3>3 DEF Recorded
      <4> QED BY <4>1 DEF FileInv, ClosedTyped
    <3> QED BY <3>2, <3>3
  <2>5. CASE Innermost # "flag"
    <3>1. Len(nest') < 4 => Len(nest) < 4
      BY <2>3, <2>5
    <3> QED BY <1>1, <3>1, TypedStand DEF FileInv
  <2> QED BY <2>4, <2>5
<1> QED BY <1>3, <1>4, <1>5 DEF FileInv

LEMMA FileStarts == Init => FileInv
<1> SUFFICES ASSUME Init PROVE FileInv
  OBVIOUS
<1>1. Settings
  BY ConfigStarts DEF ConfigInv
<1>2. TextsThere /\ ClosedTyped
  BY DEF Init, ReadInit, TextsThere, ClosedTyped
<1> QED BY <1>1, <1>2 DEF FileInv

LEMMA FileKeeps ==
  ASSUME ReaderInv, FlagsTyped, FileInv, [Next]_vars
  PROVE  FileInv'
<1>1. CASE ReadStep
  BY <1>1, WriteKeyFile, WriteValueFile, OpenMappingFile, OpenSequenceFile, WriteItemFile,
     CloseFile DEF ReadStep, ReadNext
<1>2. CASE ~ReadStep
  <2>1. UNCHANGED readVars
    BY <1>2 DEF Next, MasterStep, WorkerStep, Barrier, ShareStep, Abort, MakeSearchSpace,
                StartSwarm, RefuseSearch, Place, DivideByZero, BuildOptions, ReceiveStep,
                StartWorker, RefuseWorker, Finished, vars
  <2> QED BY <2>1 DEF FileInv, Settings, TextsThere, ClosedTyped, readVars
<1> QED BY <1>1, <1>2

\* The flags of the whole file are counted.
LEMMA AllCounted ==
  ASSUME ReaderInv, FileInv, Len(nest) = 0
  PROVE  Len(doc.flags) \in Nat /\ reader.num_flags = Len(doc.flags)
<1> USE Here
<1> DEFINE n == Len(doc.flags)
<1>1. n \in Nat /\ DOMAIN doc.flags = 1 .. n
  BY DEF Recorded
<1>2. TypedFlags = 1 .. n
  BY <1>1 DEF TypedFlags, FileInv, ClosedTyped
<1>3. Cardinality(1 .. n) = n
  <2> HIDE DEF n
  <2>1. n \in Int /\ 1 \in Int /\ n - 1 + 1 = n /\ (1 > n => n = 0)
    BY <1>1
  <2> QED BY <2>1, FS_Interval
<1> QED BY <1>1, <1>2, <1>3

\* The texts that are sent are the settings and the compiler's.
LEMMA AllAreSent == ToSet(Broadcasts) = ToSet(TopKeys) \cup ToSet(CompilerKeys)
<1>1. \A k : k \in ToSet(Broadcasts) <=> \E i \in 1 .. 11 : k = Broadcasts[i]
  BY Eleven DEF ToSet
<1>2. 1 .. 11 = {1, 2, 3, 4, 5, 6, 7, 8, 9, 10, 11}
  OBVIOUS
<1> QED BY <1>1, <1>2, SettingNames DEF Broadcasts, FileKeys

\* A text is there when it was written; a number always is.
LEMMA ThereWhenWritten ==
  ASSUME FileInv
  PROVE  /\ \A k \in ToSet(TopKeys) \ Numbers : Field(k) # NULL <=> k \in DOMAIN doc.top
         /\ \A k \in ToSet(CompilerKeys) : Field(k) # NULL <=> k \in DOMAIN doc.compiler
         /\ \A k \in Numbers : Field(k) # NULL
         /\ Field("quit-signal") = reader.top["quit-signal"]
         /\ "quit-signal" \in DOMAIN doc.top =>
              reader.top["quit-signal"] = doc.top["quit-signal"]
<1>1. \A k \in ToSet(TopKeys) :
        /\ Field(k) = reader.top[k]
        /\ reader.top[k] = IF k \in DOMAIN doc.top THEN doc.top[k]
                           ELSE IF k \in Numbers THEN "default" ELSE NULL
  BY SettingNames DEF FileInv, Settings, Field, Text, ValueOf, FileKeys
<1>2. \A k \in ToSet(CompilerKeys) :
        Field(k) = IF k \in DOMAIN doc.compiler THEN doc.compiler[k] ELSE NULL
  BY DEF FileInv, Settings, Field, Text, ValueOf
<1>3. "quit-signal" \in ToSet(TopKeys) /\ Numbers \subseteq ToSet(TopKeys)
  BY SettingNames DEF FileKeys, Numbers
<1>4. "default" # NULL
  BY DEF NULL
<1> QED BY <1>1, <1>2, <1>3, <1>4 DEF FileInv, TextsThere

-----------------------------------------------------------------------------
(* The start.                                                              *)

Initialised == master \in {"initialising", "placing", "searching"}

FitInv ==
  /\ master # "reading" => Len(nest) = 0
  /\ Initialised => Len(search_space) = reader.num_flags
  /\ FitFilesStart

\* A file whose ranks cannot be told a text is not fit.
LEMMA AbortIsRight ==
  ASSUME FileInv, NEW k \in ToSet(Broadcasts), Field(k) = NULL
  PROVE  ~Fit
<1>1. k \in ToSet(TopKeys) \cup ToSet(CompilerKeys)
  BY AllAreSent
<1> QED BY <1>1, ThereWhenWritten DEF Fit

\* What the master finds out before it starts the swarm.
LEMMA StartIsRight ==
  ASSUME ReaderInv, FileInv, ShareInv, FitInv, master = "initialising"
  PROVE  /\ Fit <=> CanRegister(reader.top["quit-signal"]) /\ DimensionsFit(Len(search_space))
         /\ Len(search_space) = 0 => ~DimensionsFit(Len(search_space))
<1>1. \A k \in ToSet(Broadcasts) : Field(k) # NULL
  BY Eleven DEF ShareInv, Paced, SentIsThere, ToSet
<1>2. "quit-signal" \in ToSet(TopKeys) \ Numbers
  BY SettingNames DEF FileKeys, Numbers
<1>3. /\ ToSet(TopKeys) \ Numbers \subseteq DOMAIN doc.top
      /\ ToSet(CompilerKeys) \subseteq DOMAIN doc.compiler
      /\ reader.top["quit-signal"] = doc.top["quit-signal"]
  BY <1>1, <1>2, AllAreSent, ThereWhenWritten
<1> DEFINE n == Len(doc.flags)
<1>4. n \in Nat /\ Len(search_space) = n
  BY AllCounted DEF FitInv, Initialised
<1>5. n \in 1 .. spso_max_dims - 1 <=> DimensionsFit(n)
  <2> HIDE DEF n
  <2> QED BY <1>4, SwarmAssumption DEF DimensionsFit
<1> QED BY <1>3, <1>4, <1>5 DEF Fit, CanRegister, DimensionsFit

\* A worker refuses only what the master refuses.
LEMMA RefusalIsRight ==
  ASSUME FileInv, ShareInv, NEW w \in Worker, HasConfig(w),
         ~CanRegister(copy[w]["quit-signal"])
  PROVE  ~Fit
<1>1. got[w] = 11
  BY Eleven DEF HasConfig
<1>2. "quit-signal" = Broadcasts[2]
  BY DEF Broadcasts
<1>3. "quit-signal" \in DOMAIN copy[w]
  BY <1>1, <1>2 DEF ShareInv, Told
<1>4. Field("quit-signal") # "signal"
  <2> SUFFICES ASSUME Field("quit-signal") = "signal" PROVE FALSE
    OBVIOUS
  <2>1. copy[w]["quit-signal"] = "signal"
    BY <1>3 DEF ShareInv, Told
  <2> QED BY <2>1 DEF CanRegister
<1>5. "quit-signal" \in ToSet(TopKeys) \ Numbers
  BY SettingNames DEF FileKeys, Numbers
<1> QED BY <1>4, <1>5, ThereWhenWritten DEF Fit

LEMMA FitKeeps ==
  ASSUME ReaderInv, FlagsTyped, FileInv, ShareInv, FitInv, [Next]_vars
  PROVE  FitInv'
<1>1. CASE ReadStep
  BY <1>1 DEF ReadStep, initVars, FitInv, Initialised, FitFilesStart
<1> DEFINE Rest ==
      \/ Barrier \/ ShareStep \/ Place \/ DivideByZero \/ BuildOptions \/ UNCHANGED vars
      \/ (\E w \in Worker : ReceiveStep(w) \/ StartWorker(w))
<1>2. ASSUME doc' = doc PROVE Fit' <=> Fit
  BY <1>2 DEF Fit
<1>3. CASE Rest
  <2>1. /\ doc' = doc /\ reader' = reader /\ nest' = nest /\ database' = database
        /\ search_space' = search_space
    BY <1>3 DEF Barrier, ShareStep, Place, DivideByZero, BuildOptions, ReceiveStep, StartWorker,
                readVars, initVars, vars
  <2>2. \/ master' = master
        \/ master = "reading" /\ nest = <<>> /\ master' = "sharing"
        \/ master = "placing" /\ master' \in {"crashed", "searching"}
    BY <1>3 DEF Barrier, ShareStep, Place, DivideByZero, BuildOptions, ReceiveStep, StartWorker,
                WholeFile, vars
  <2> QED BY <1>2, <2>1, <2>2 DEF FitInv, Initialised, FitFilesStart
<1>4. CASE Abort
  <2>1. Broadcasts[sent + 1] \in ToSet(Broadcasts)
    BY <1>4, Eleven DEF Abort, AllSent, ShareInv, Paced, ToSet
  <2>2. ~Fit
    BY <1>4, <2>1, AbortIsRight DEF Abort, Sendable
  <2>3. /\ doc' = doc /\ nest' = nest /\ master = "sharing" /\ master' = "aborted"
    BY <1>4 DEF Abort, readVars
  <2> QED BY <1>2, <2>2, <2>3 DEF FitInv, Initialised, FitFilesStart
<1>5. CASE \E w \in Worker : RefuseWorker(w)
  <2>1. PICK w \in Worker : RefuseWorker(w)
    BY <1>5
  <2>2. ~Fit /\ master # "reading"
    BY <2>1, RefusalIsRight, Eleven DEF RefuseWorker, HasConfig, ShareInv, Paced
  <2>3. doc' = doc /\ nest' = nest /\ master' = "aborted"
    BY <2>1 DEF RefuseWorker, readVars
  <2> QED BY <1>2, <2>2, <2>3 DEF FitInv, Initialised, FitFilesStart
<1>6. CASE MakeSearchSpace
  <2>1. /\ doc' = doc /\ nest' = nest /\ reader' = reader /\ master = "sharing"
        /\ \/ master' = "crashed"
           \/ /\ master' = "initialising"
              /\ search_space' =
                   [i \in 1 .. reader.num_flags |-> opt_convert_flag(reader.flags[i])]
    BY <1>6 DEF MakeSearchSpace, readVars
  <2>2. reader.num_flags \in Nat
    BY CountedAreThere
  <2>3. master' = "initialising" => Len(search_space') = reader.num_flags
    <3> DEFINE n == reader.num_flags
    <3> HIDE DEF n
    <3>1. Len([i \in 1 .. n |-> opt_convert_flag(reader.flags[i])]) = n
      BY <2>2 DEF n
    <3> QED BY <2>1, <3>1 DEF n
  <2> QED BY <2>1, <2>3 DEF FitInv, Initialised, FitFilesStart
<1>7. CASE StartSwarm
  <2>1. /\ doc' = doc /\ nest' = nest /\ reader' = reader /\ search_space' = search_space
        /\ master = "initialising" /\ master' = "placing"
        /\ CanRegister(reader.top["quit-signal"]) /\ DimensionsFit(Len(search_space))
    BY <1>7 DEF StartSwarm, OpenDatabase, readVars
  <2>2. Fit
    BY <2>1, StartIsRight
  <2> QED BY <1>2, <2>1, <2>2 DEF FitInv, Initialised, FitFilesStart
<1>8. CASE RefuseSearch
  <2>1. /\ doc' = doc /\ nest' = nest /\ master = "initialising" /\ master' = "aborted"
        /\ \/ ~CanRegister(reader.top["quit-signal"])
           \/ Len(search_space) = 0
           \/ database' = "error"
           \/ ~DimensionsFit(Len(search_space))
    BY <1>8 DEF RefuseSearch, readVars
  <2>2. ~Fit \/ database' = "error"
    BY <2>1, StartIsRight
  <2> QED BY <1>2, <2>1, <2>2 DEF FitInv, Initialised, FitFilesStart
<1> QED BY <1>1, <1>3, <1>4, <1>5, <1>6, <1>7, <1>8 DEF Next, MasterStep, WorkerStep, Finished

\* No search starts on a file that is not fit, and a file that is keeps no rank
\* from starting, whatever the order of a flag's keys, the number of flags, of
\* workers and of dimensions there is room for (config.c:695-769,
\* optimiser.c:427-492, common.c:287-311, spso.c:221-227).
THEOREM OnlyFitFilesStart == Spec => []FitFilesStart
<1>1. Init => FlagsTyped /\ FitInv
  <2> SUFFICES ASSUME Init PROVE FlagsTyped /\ FitInv
    OBVIOUS
  <2>1. FlagsTyped
    BY DEF Init, ReadInit, FlagsTyped, IsList
  <2>2. FitInv
    BY DEF Init, FitInv, Initialised, FitFilesStart
  <2> QED BY <2>1, <2>2
<1>2. ReaderInv /\ FlagsTyped /\ [Next]_vars => FlagsTyped'
  BY FlagsKeepTypes
<1>3. ReaderInv /\ FlagsTyped /\ FileInv /\ [Next]_vars => FileInv'
  BY FileKeeps
<1>4. ReaderInv /\ FlagsTyped /\ FileInv /\ ShareInv /\ FitInv /\ [Next]_vars => FitInv'
  BY FitKeeps
<1>5. ReaderInv /\ [Next]_vars => ReaderInv'
  BY ReaderKeeps
<1>6. FitInv => FitFilesStart
  BY DEF FitInv
<1> QED BY <1>1, <1>2, <1>3, <1>4, <1>5, <1>6, ReaderStarts, FileStarts, ShareHolds, PTL DEF Spec
=============================================================================

---------------------------- MODULE StartupProofs ----------------------------
(***************************************************************************)
(* Proofs about Startup: the reader follows the file, and no rank starts   *)
(* without a text it needs, for any file, any number of flags and of       *)
(* workers.                                                                *)
(***************************************************************************)
EXTENDS Startup, FiniteSetTheorems, SequenceTheorems, TLAPS

-----------------------------------------------------------------------------
(* The broadcasts.                                                         *)

\* The master reads before it sends, and starts when it has sent.
Paced ==
  /\ sent \in 0 .. 11
  /\ got \in [Worker -> 0 .. sent]
  /\ copy = [w \in Worker |-> copy[w]]
  /\ master = "reading" => sent = 0
  /\ master \in {"initialising", "placing", "searching"} => sent = 11

\* What was sent is there.
SentIsThere == \A i \in 1 .. sent : Field(Broadcasts[i]) # NULL

\* What a worker was told is what the master has, but for a long text.
Told ==
  \A w \in Worker :
    /\ DOMAIN copy[w] = {Broadcasts[i] : i \in 1 .. got[w]}
    /\ \A k \in DOMAIN copy[w] : Field(k) # "long" => copy[w][k] = Field(k)

ShareInv == Paced /\ SentIsThere /\ Told

LEMMA Eleven ==
  /\ Len(Broadcasts) = 11
  /\ DOMAIN Broadcasts = 1 .. 11
BY DEF Broadcasts

\* While the configuration does not change only the two ends of the broadcasts
\* disturb what the ranks know.
LEMMA ShareStays ==
  ASSUME ShareInv, UNCHANGED <<reader, sent, got, copy>>
  PROVE  SentIsThere' /\ Told'
BY DEF ShareInv, SentIsThere, Told, Field

LEMMA BroadcastKeeps ==
  ASSUME ShareInv, Broadcast, UNCHANGED <<reader, master>>, master = "sharing"
  PROVE  ShareInv'
<1>1. sent' = sent + 1 /\ sent' \in 1 .. 11 /\ Field(Broadcasts[sent + 1]) # NULL
  BY Eleven DEF ShareInv, Paced, Broadcast, AllSent, Sendable
<1>2. Paced'
  BY <1>1 DEF ShareInv, Paced, Broadcast
<1>3. SentIsThere'
  <2> SUFFICES ASSUME NEW i \in 1 .. sent' PROVE Field(Broadcasts[i]) # NULL
    BY DEF SentIsThere, Field
  <2>1. CASE i = sent + 1
    BY <1>1, <2>1
  <2>2. CASE i # sent + 1
    <3>1. i \in 1 .. sent
      BY <1>1, <2>2 DEF ShareInv, Paced
    <3> QED BY <3>1 DEF ShareInv, SentIsThere
  <2> QED BY <2>1, <2>2
<1>4. Told'
  BY DEF ShareInv, Told, Broadcast, Field
<1> QED BY <1>2, <1>3, <1>4 DEF ShareInv

LEMMA ReceiveKeeps ==
  ASSUME ShareInv, NEW w \in Worker, Receive(w), UNCHANGED <<reader, master>>
  PROVE  ShareInv'
<1> DEFINE k == Broadcasts[got[w] + 1]
<1>1. got[w] \in 0 .. sent /\ got[w] < sent /\ got[w] + 1 \in 1 .. sent /\ sent \in 0 .. 11
  BY DEF ShareInv, Paced, Receive
<1>2. PICK text \in {Field(k)} \cup (IF MayMove(Field(k)) THEN {"dangling"} ELSE {}) :
        copy' = [copy EXCEPT ![w] = Plus(@, k, text)]
  BY DEF Receive
<1>3. got' = [got EXCEPT ![w] = @ + 1] /\ sent' = sent
  BY DEF Receive
<1>4. Paced'
  BY <1>1, <1>2, <1>3 DEF ShareInv, Paced
<1>5. SentIsThere'
  BY <1>3 DEF ShareInv, SentIsThere, Field
<1>6. Field(k) # "long" => text = Field(k)
  BY <1>2 DEF MayMove
<1>7. copy'[w] = Plus(copy[w], k, text) /\ \A v \in Worker \ {w} : copy'[v] = copy[v]
  BY <1>2 DEF ShareInv, Paced
<1>8. DOMAIN copy'[w] = DOMAIN copy[w] \cup {k}
  BY <1>7 DEF Plus
<1>9. \A j \in DOMAIN copy'[w] :
        copy'[w][j] = IF j = k THEN text ELSE copy[w][j]
  BY <1>7 DEF Plus
<1>10. Told'
  <2> SUFFICES ASSUME NEW v \in Worker
               PROVE  /\ DOMAIN copy'[v] = {Broadcasts[i] : i \in 1 .. got'[v]}
                      /\ \A j \in DOMAIN copy'[v] :
                           Field(j) # "long" => copy'[v][j] = Field(j)
    BY DEF Told, Field
  <2>1. CASE v # w
    BY <1>3, <1>7, <2>1 DEF ShareInv, Paced, Told
  <2>2. CASE v = w
    <3>1. got'[w] = got[w] + 1
      BY <1>3 DEF ShareInv, Paced
    <3>2. {Broadcasts[i] : i \in 1 .. got'[w]} = {Broadcasts[i] : i \in 1 .. got[w]} \cup {k}
      BY <1>1, <3>1
    <3>3. DOMAIN copy[w] = {Broadcasts[i] : i \in 1 .. got[w]}
      BY DEF ShareInv, Told
    <3>4. \A j \in DOMAIN copy'[w] :
            Field(j) # "long" => copy'[w][j] = Field(j)
      BY <1>6, <1>8, <1>9 DEF ShareInv, Told
    <3> QED BY <1>8, <2>2, <3>2, <3>3, <3>4
  <2> QED BY <2>1, <2>2
<1> QED BY <1>4, <1>5, <1>10 DEF ShareInv

-----------------------------------------------------------------------------
(* The reader.                                                             *)

Kinds == {"file", "compiler", "flags", "flag", "values", "depends-on"}

\* What may be open at each depth.
At(depth) ==
  {x \in Kinds : /\ x = "file" <=> depth = 1
                 /\ x = "compiler" <=> depth = 2
                 /\ x = "flags" <=> depth = 3
                 /\ x = "flag" <=> depth = 4}

Deep(n) ==
  /\ n \in Seq(Kinds)
  /\ Len(n) <= 5
  /\ \A i \in 1 .. Len(n) : n[i] \in At(i)

Nested == Deep(nest)

FileKeys ==
  {"quit-signal", "clean-script", "build-script", "accuracy-test", "performance-test",
   "epsilon", "timeout", "benchmark-timeout", "benchmark-repeats", "compiler"}

FlagTypes == {"range", "list", "on-off"}

FlagKeys ==
  {"name", "type", "prefix", "separator", "max", "min", "values", "on-prefix", "off-prefix",
   "depends-on", "default"}

\* A key belongs to the mapping it stands in; a flag gets one type.
KeyFits ==
  key # NULL =>
    \/ Innermost = "file" /\ key \in FileKeys
    \/ Innermost = "compiler" /\ key \in {"name", "version", "flags"}
    \/ Innermost = "flag" /\ key \in FlagKeys /\ (key = "type" => "type" \notin DOMAIN ThisFlag)

Fields == {"state", "map_key", "oa", "uid_counter", "num_flags", "flags", "compiler", "top"}

\* doc is a record, and the flags of the file a sequence, of flags of the three
\* types.
Recorded ==
  /\ DOMAIN doc = {"top", "compiler", "flags"}
  /\ Len(doc.flags) \in Nat
  /\ doc.flags = [i \in 1 .. Len(doc.flags) |-> doc.flags[i]]
  /\ \A i \in 1 .. Len(doc.flags) :
       "type" \in DOMAIN doc.flags[i] => doc.flags[i]["type"] \in FlagTypes

Formed ==
  /\ DOMAIN reader = Fields
  /\ Recorded
  /\ Len(nest) >= 4 => Len(doc.flags) > 0

TypedFlags == {i \in DOMAIN doc.flags : "type" \in DOMAIN doc.flags[i]}

ReaderInv == Nested /\ KeyFits /\ Formed /\ ReaderFollowsFile

\* The innermost collection tells how many are open.
LEMMA Depth ==
  ASSUME NEW n, Deep(n)
  PROVE  LET x == IF n = <<>> THEN None ELSE Last(n)
         IN  /\ Len(n) \in 0 .. 5
             /\ x = None <=> Len(n) = 0
             /\ x = "file" <=> Len(n) = 1
             /\ x = "compiler" <=> Len(n) = 2
             /\ x = "flags" <=> Len(n) = 3
             /\ x = "flag" <=> Len(n) = 4
             /\ x \in {"values", "depends-on"} <=> Len(n) = 5
<1>1. CASE n = <<>>
  BY <1>1 DEF None
<1>2. CASE n # <<>>
  <2>1. Len(n) \in 1 .. 5
    <3>1. n \in Seq(Kinds) /\ n # <<>>
      BY <1>2 DEF Deep
    <3>2. Len(n) \in Nat \ {0}
      BY <3>1, EmptySeq, Zenon
    <3>3. Len(n) <= 5
      BY DEF Deep
    <3> DEFINE l == Len(n)
    <3> HIDE DEF l
    <3>4. l \in Nat \ {0} /\ l <= 5 => l \in 1 .. 5
      OBVIOUS
    <3> QED BY <3>2, <3>3, <3>4 DEF l
  <2>2. n[Len(n)] \in At(Len(n))
    BY <2>1 DEF Deep
  <2>3. Last(n) = n[Len(n)]
    BY DEF Last
  <2> QED BY <1>2, <2>1, <2>2, <2>3 DEF At, Kinds, None
<1> QED BY <1>1, <1>2

\* One more collection is open, or the innermost is closed.
LEMMA Opened ==
  ASSUME Nested, NEW x \in At(Len(nest) + 1), x \in Kinds, Len(nest) < 5,
         nest' = Append(nest, x)
  PROVE  Nested' /\ Len(nest') = Len(nest) + 1 /\ Innermost' = x
<1>1. /\ nest' \in Seq(Kinds) /\ Len(nest') = Len(nest) + 1 /\ nest'[Len(nest) + 1] = x
      /\ \A i \in 1 .. Len(nest) : nest'[i] = nest[i]
      /\ Len(nest) \in Nat
  BY DEF Nested, Deep
<1>2. \A i \in 1 .. Len(nest') : nest'[i] \in At(i)
  BY <1>1 DEF Nested, Deep
<1>3. Innermost' = x
  BY <1>1 DEF Innermost, Last
<1> QED BY <1>1, <1>2, <1>3 DEF Nested, Deep

LEMMA Closed ==
  ASSUME Nested, Len(nest) > 0, nest' = Front(nest)
  PROVE  Nested' /\ Len(nest') = Len(nest) - 1
<1> DEFINE n == Len(nest) - 1
<1>1. nest \in Seq(Kinds) /\ Len(nest) \in Nat /\ n \in Nat /\ n <= Len(nest)
  BY DEF Nested, Deep
<1>2. nest' = SubSeq(nest, 1, n)
  BY DEF Front
<1>3. nest' = [i \in 1 .. n |-> nest[i]]
  <2>1. SubSeq(nest, 1, n) = [i \in 1 .. (n - 1 + 1) |-> nest[1 + i - 1]]
    BY <1>1
  <2> QED BY <1>1, <1>2, <2>1
<1>4. \A i \in 1 .. n : nest[i] \in Kinds
  BY <1>1
<1>5. nest' \in Seq(Kinds) /\ Len(nest') = n /\ \A i \in 1 .. n : nest'[i] = nest[i]
  BY <1>1, <1>3, <1>4
<1> QED BY <1>1, <1>5 DEF Nested, Deep

LEMMA TypedFinite ==
  ASSUME Formed
  PROVE  /\ DOMAIN doc.flags = 1 .. Len(doc.flags)
         /\ IsFiniteSet(TypedFlags) /\ Cardinality(TypedFlags) \in Nat
<1>1. DOMAIN doc.flags = 1 .. Len(doc.flags)
  BY DEF Formed, Recorded
<1>2. IsFiniteSet(1 .. Len(doc.flags))
  BY FS_Interval DEF Formed, Recorded
<1>3. TypedFlags \subseteq 1 .. Len(doc.flags)
  BY <1>1 DEF TypedFlags
<1> QED BY <1>1, <1>2, <1>3, FS_Subset, FS_CardinalityType

\* Keys that are written are those of the mapping.
LEMMA NextKeysOf ==
  ASSUME NEW S, NEW order \in Seq(S), NEW written, NEW optional
  PROVE  NextKeys(order, written, optional) \subseteq S
BY DEF NextKeys

LEMMA OfFile ==
  ASSUME NEW written, NEW optional
  PROVE  NextKeys(TopKeys \o <<"compiler">>, written, optional) \subseteq FileKeys
<1>1. TopKeys \in Seq(FileKeys) /\ <<"compiler">> \in Seq(FileKeys)
  BY DEF TopKeys, FileKeys
<1>2. TopKeys \o <<"compiler">> \in Seq(FileKeys)
  BY <1>1, ConcatProperties
<1> QED BY <1>2, NextKeysOf

LEMMA OfCompiler ==
  ASSUME NEW written, NEW optional
  PROVE  NextKeys(CompilerKeys \o <<"flags">>, written, optional)
           \subseteq {"name", "version", "flags"}
<1> DEFINE S == {"name", "version", "flags"}
<1>1. CompilerKeys \in Seq(S) /\ <<"flags">> \in Seq(S)
  BY DEF CompilerKeys
<1>2. CompilerKeys \o <<"flags">> \in Seq(S)
  BY <1>1, ConcatProperties
<1> QED BY <1>2, NextKeysOf

LEMMA OfFlag ==
  ASSUME Formed, Len(nest) >= 4
  PROVE  NextAttributes \subseteq {k \in FlagKeys : k \notin DOMAIN ThisFlag}
<1>1. \A t \in FlagTypes : Attributes(t) \subseteq FlagKeys
  BY DEF Attributes, FlagKeys, FlagTypes
<1>2. ValueOf(ThisFlag, "type") \in FlagTypes \cup {None}
  BY DEF Formed, Recorded, ThisFlag, ValueOf
<1>3. \A t \in IF ValueOf(ThisFlag, "type") = None THEN FlagTypes
               ELSE {ValueOf(ThisFlag, "type")} : Attributes(t) \subseteq FlagKeys
  BY <1>1, <1>2
<1>5. Types \subseteq FlagTypes
  BY DEF Types, FlagTypes
<1> SUFFICES ASSUME NEW k \in NextAttributes PROVE k \in FlagKeys /\ k \notin DOMAIN ThisFlag
  OBVIOUS
<1>4. \/ k \in {"name", "type"} /\ k \notin DOMAIN ThisFlag
      \/ k \in Ignored /\ Ignored \cap DOMAIN ThisFlag = {}
      \/ /\ k \in UNION {Attributes(t) : t \in IF ValueOf(ThisFlag, "type") = None
                                              THEN FlagTypes
                                              ELSE {ValueOf(ThisFlag, "type")}}
         /\ k \notin DOMAIN ThisFlag
  BY <1>5 DEF NextAttributes
<1> QED BY <1>3, <1>4 DEF FlagKeys, Ignored

\* What the reader does with an event, whatever the file: the part that the
\* invariant is about.
LEMMA States ==
  /\ StateOf(None) = "INITIAL" /\ StateOf("file") = "TOP_LEVEL_MAP"
  /\ StateOf("compiler") = "COMPILER_MAP" /\ StateOf("flags") = "COMPILER_FLAGS_SEQ"
  /\ StateOf("flag") = "COMPILER_FLAG_MAP" /\ StateOf("values") = "COMPILER_FLAG_MAP_SEQ"
  /\ StateOf("depends-on") = "COMPILER_FLAG_MAP_SEQ"
BY DEF StateOf, None

LEMMA ReadsKey ==
  ASSUME NEW r, NEW v, DOMAIN r = Fields, r.state \in MapStates, r.map_key = NULL
  PROVE  LET s == Scalar(r, v)
         IN  /\ DOMAIN s = Fields /\ s.map_key = v
             /\ s.state = r.state /\ s.num_flags = r.num_flags
BY DEF Scalar, Fields

LEMMA SetsType ==
  ASSUME NEW r, NEW v \in FlagTypes, DOMAIN r = Fields
  PROVE  LET s == SetType(r, v)
         IN  /\ DOMAIN s = Fields /\ s.map_key = r.map_key
             /\ s.state = r.state /\ s.num_flags = r.num_flags + 1
<1>1. CASE v = "range"
  BY <1>1 DEF SetType, Fields
<1>2. CASE v = "list"
  BY <1>2 DEF SetType, Fields
<1>3. CASE v = "on-off"
  BY <1>3 DEF SetType, Fields
<1> QED BY <1>1, <1>2, <1>3 DEF FlagTypes

LEMMA SetsAttribute ==
  ASSUME NEW r, NEW v, DOMAIN r = Fields, r.map_key # "type"
  PROVE  LET s == SetAttribute(r, v)
         IN  /\ DOMAIN s = Fields /\ s.map_key = r.map_key
             /\ s.state = r.state /\ s.num_flags = r.num_flags
BY DEF SetAttribute, SetSeparator, Fields

LEMMA ReadsValue ==
  ASSUME NEW r, NEW v, DOMAIN r = Fields, r.state \in MapStates, r.map_key # NULL,
         r.map_key = "type" => r.state = "COMPILER_FLAG_MAP" /\ v \in FlagTypes
  PROVE  LET s == Scalar(r, v)
         IN  /\ DOMAIN s = Fields /\ s.map_key = NULL
             /\ s.state = r.state
             /\ s.num_flags = IF r.map_key = "type" THEN r.num_flags + 1 ELSE r.num_flags
<1> DEFINE filled ==
      CASE r.state = "TOP_LEVEL_MAP" /\ r.map_key \in ToSet(TopKeys) ->
             [r EXCEPT !.top[r.map_key] = v]
        [] r.state = "COMPILER_MAP" /\ r.map_key \in ToSet(CompilerKeys) ->
             [r EXCEPT !.compiler[r.map_key] = v]
        [] r.state = "COMPILER_FLAG_MAP" -> SetAttribute(r, v)
        [] OTHER -> r
<1>1. Scalar(r, v) = [filled EXCEPT !.map_key = NULL]
  BY DEF Scalar
<1>2. /\ DOMAIN filled = Fields /\ filled.state = r.state
      /\ filled.num_flags = IF r.map_key = "type" THEN r.num_flags + 1 ELSE r.num_flags
  <2>1. CASE r.map_key = "type"
    <3>1. filled = SetType(r, v)
      BY <2>1 DEF SetAttribute
    <3> QED BY <2>1, <3>1, SetsType
  <2>2. CASE r.map_key # "type" /\ r.state = "COMPILER_FLAG_MAP"
    <3>1. filled = SetAttribute(r, v)
      BY <2>2
    <3> QED BY <2>2, <3>1, SetsAttribute
  <2>3. CASE r.map_key # "type" /\ r.state # "COMPILER_FLAG_MAP"
    BY <2>3 DEF Fields
  <2> QED BY <2>1, <2>2, <2>3
<1> HIDE DEF filled
<1> QED BY <1>1, <1>2 DEF Fields

LEMMA ReadsItem ==
  ASSUME NEW r, NEW v, DOMAIN r = Fields, r.state = "COMPILER_FLAG_MAP_SEQ"
  PROVE  LET s == Scalar(r, v)
         IN  /\ DOMAIN s = Fields /\ s.map_key = r.map_key
             /\ s.state = r.state /\ s.num_flags = r.num_flags
BY DEF Scalar, MapStates, Fields

LEMMA Starts ==
  ASSUME NEW r, DOMAIN r = Fields
  PROVE  /\ DOMAIN MappingStart(r) = Fields /\ DOMAIN SequenceStart(r) = Fields
         /\ MappingStart(r).map_key = NULL /\ SequenceStart(r).map_key = NULL
         /\ MappingStart(r).num_flags = r.num_flags
         /\ SequenceStart(r).num_flags = r.num_flags
         /\ r.state = "INITIAL" => MappingStart(r).state = "TOP_LEVEL_MAP"
         /\ r.state = "TOP_LEVEL_MAP" /\ r.map_key = "compiler" =>
              MappingStart(r).state = "COMPILER_MAP"
         /\ r.state = "COMPILER_FLAGS_SEQ" => MappingStart(r).state = "COMPILER_FLAG_MAP"
         /\ r.state = "COMPILER_MAP" /\ r.map_key = "flags" =>
              SequenceStart(r).state = "COMPILER_FLAGS_SEQ"
         /\ r.state = "COMPILER_FLAG_MAP" => SequenceStart(r).state = "COMPILER_FLAG_MAP_SEQ"
BY DEF MappingStart, SequenceStart, Fields

LEMMA Ends ==
  ASSUME NEW r, DOMAIN r = Fields
  PROVE  /\ DOMAIN MappingEnd(r) = Fields /\ DOMAIN SequenceEnd(r) = Fields
         /\ MappingEnd(r).map_key = r.map_key /\ SequenceEnd(r).map_key = r.map_key
         /\ MappingEnd(r).num_flags = r.num_flags
         /\ SequenceEnd(r).num_flags = r.num_flags
         /\ r.state = "TOP_LEVEL_MAP" => MappingEnd(r).state = "INITIAL"
         /\ r.state = "COMPILER_MAP" => MappingEnd(r).state = "TOP_LEVEL_MAP"
         /\ r.state = "COMPILER_FLAG_MAP" => MappingEnd(r).state = "COMPILER_FLAGS_SEQ"
         /\ r.state = "COMPILER_FLAGS_SEQ" => SequenceEnd(r).state = "COMPILER_MAP"
         /\ r.state = "COMPILER_FLAG_MAP_SEQ" => SequenceEnd(r).state = "COMPILER_FLAG_MAP"
BY DEF MappingEnd, SequenceEnd, Fields

\* What the steps of the writer do to the flags of the file.
LEMMA FlagsStay ==
  ASSUME Recorded, DOMAIN doc' = DOMAIN doc, doc'.flags = doc.flags
  PROVE  Recorded' /\ TypedFlags' = TypedFlags
BY DEF Recorded, TypedFlags

LEMMA FlagAdded ==
  ASSUME Recorded, doc' = [doc EXCEPT !.flags = Append(@, <<>>)]
  PROVE  Recorded' /\ TypedFlags' = TypedFlags /\ Len(doc'.flags) = Len(doc.flags) + 1
<1> DEFINE n == Len(doc.flags)
           g == doc'.flags
<1>1. g = Append(doc.flags, <<>>) /\ DOMAIN doc' = DOMAIN doc
  BY DEF Recorded
<1>2. g = [i \in 1 .. n + 1 |-> IF i = n + 1 THEN <<>> ELSE doc.flags[i]]
  BY <1>1
<1>3. n \in Nat /\ DOMAIN doc.flags = 1 .. n
  BY DEF Recorded
<1>4. "type" \notin DOMAIN <<>>
  OBVIOUS
<1>5. /\ DOMAIN g = 1 .. n + 1 /\ g[n + 1] = <<>>
      /\ \A i \in 1 .. n : g[i] = doc.flags[i]
      /\ g = [i \in 1 .. n + 1 |-> g[i]]
  <2> HIDE DEF n
  <2> QED BY <1>2, <1>3
<1>6. Len(g) = n + 1
  BY <1>2, <1>3
<1>11. "type" \notin DOMAIN g[n + 1]
  BY <1>4, <1>5
<1>12. \A i \in 1 .. n + 1 : "type" \in DOMAIN g[i] => i \in 1 .. n /\ g[i] = doc.flags[i]
  BY <1>3, <1>5, <1>11
<1>13. \A i \in 1 .. n : g[i] = doc.flags[i] /\ i \in 1 .. n + 1
  BY <1>3, <1>5
<1> HIDE DEF n, g
<1>7. {i \in 1 .. n + 1 : "type" \in DOMAIN g[i]} = {i \in 1 .. n : "type" \in DOMAIN doc.flags[i]}
  BY <1>12, <1>13, Zenon
<1>8. TypedFlags' = TypedFlags
  BY <1>3, <1>5, <1>7 DEF TypedFlags, g
<1>9. \A i \in 1 .. n + 1 : "type" \in DOMAIN g[i] => g[i]["type"] \in FlagTypes
  BY <1>12 DEF Recorded, n
<1>10. Recorded'
  BY <1>1, <1>3, <1>5, <1>6, <1>9 DEF Recorded, g
<1> QED BY <1>6, <1>8, <1>10 DEF g, n

\* The last flag of the file changes, its type only to get one of the three.
LEMMA FlagChanged ==
  ASSUME Recorded, Len(doc.flags) > 0, DOMAIN doc' = DOMAIN doc, NEW f,
         doc'.flags = [i \in DOMAIN doc.flags |->
                         IF i = Len(doc.flags) THEN f ELSE doc.flags[i]],
         "type" \in DOMAIN f => f["type"] \in FlagTypes
  PROVE  /\ Recorded' /\ Len(doc'.flags) = Len(doc.flags)
         /\ TypedFlags' = {i \in DOMAIN doc.flags :
              "type" \in IF i = Len(doc.flags) THEN DOMAIN f ELSE DOMAIN doc.flags[i]}
<1> DEFINE n == Len(doc.flags)
           g == doc'.flags
<1>1. n \in 1 .. n /\ DOMAIN doc.flags = 1 .. n /\ n \in Nat
  BY DEF Recorded
<1>2. /\ g = [i \in 1 .. n |-> g[i]] /\ Len(g) = n /\ g[n] = f
      /\ \A i \in 1 .. n : i # n => g[i] = doc.flags[i]
  BY <1>1
<1> HIDE DEF n, g
<1>3. DOMAIN g = 1 .. n
  BY <1>2
<1>4. \A i \in 1 .. n : "type" \in DOMAIN g[i] => g[i]["type"] \in FlagTypes
  BY <1>2 DEF Recorded, n
<1>5. Recorded'
  BY <1>1, <1>2, <1>4 DEF Recorded, g
<1>6. TypedFlags' = {i \in 1 .. n : "type" \in IF i = n THEN DOMAIN f ELSE DOMAIN doc.flags[i]}
  BY <1>2, <1>3 DEF TypedFlags, g
<1> QED BY <1>1, <1>2, <1>5, <1>6 DEF n, g

LEMMA FlagFilled ==
  ASSUME Recorded, Len(doc.flags) > 0, NEW k, NEW v, k = "type" => v \in FlagTypes,
         doc' = [doc EXCEPT !.flags[Len(doc.flags)] = Plus(@, k, v)]
  PROVE  /\ Recorded' /\ Len(doc'.flags) = Len(doc.flags)
         /\ TypedFlags' = IF k = "type" THEN TypedFlags \cup {Len(doc.flags)} ELSE TypedFlags
<1> DEFINE n == Len(doc.flags)
           f == Plus(doc.flags[n], k, v)
<1>1. n \in 1 .. n /\ DOMAIN doc.flags = 1 .. n /\ n \in Nat
  BY DEF Recorded
<1>2. /\ DOMAIN doc' = DOMAIN doc
      /\ doc'.flags = [i \in DOMAIN doc.flags |-> IF i = n THEN f ELSE doc.flags[i]]
  BY <1>1 DEF Recorded
<1>3. DOMAIN f = DOMAIN doc.flags[n] \cup {k}
  BY DEF Plus
<1>4. "type" \in DOMAIN f => f["type"] \in FlagTypes
  BY <1>1 DEF Plus, Recorded
<1> HIDE DEF f
<1>5. /\ Recorded' /\ Len(doc'.flags) = n
      /\ TypedFlags' = {i \in DOMAIN doc.flags :
           "type" \in IF i = n THEN DOMAIN f ELSE DOMAIN doc.flags[i]}
  BY <1>2, <1>4, FlagChanged
<1> QED BY <1>1, <1>3, <1>5 DEF TypedFlags

LEMMA FlagExtended ==
  ASSUME Recorded, Len(doc.flags) > 0, NEW x, NEW v, x # "type",
         doc' = [doc EXCEPT !.flags[Len(doc.flags)][x] = v]
  PROVE  /\ Recorded' /\ Len(doc'.flags) = Len(doc.flags) /\ TypedFlags' = TypedFlags
<1> DEFINE n == Len(doc.flags)
           f == [doc.flags[n] EXCEPT ![x] = v]
<1>1. n \in 1 .. n /\ DOMAIN doc.flags = 1 .. n /\ n \in Nat
  BY DEF Recorded
<1>2. /\ DOMAIN doc' = DOMAIN doc
      /\ doc'.flags = [i \in DOMAIN doc.flags |-> IF i = n THEN f ELSE doc.flags[i]]
  BY <1>1 DEF Recorded
<1>3. DOMAIN f = DOMAIN doc.flags[n]
  OBVIOUS
<1>4. "type" \in DOMAIN f => f["type"] \in FlagTypes
  BY <1>1 DEF Recorded
<1> HIDE DEF f
<1>5. /\ Recorded' /\ Len(doc'.flags) = n
      /\ TypedFlags' = {i \in DOMAIN doc.flags :
           "type" \in IF i = n THEN DOMAIN f ELSE DOMAIN doc.flags[i]}
  BY <1>2, <1>4, FlagChanged
<1> QED BY <1>1, <1>3, <1>5 DEF TypedFlags

\* What the invariant says, in the form in which the steps use it.
LEMMA Here ==
  ASSUME ReaderInv
  PROVE  /\ Nested /\ KeyFits /\ Formed /\ Recorded /\ DOMAIN reader = Fields
         /\ reader.state = StateOf(Innermost) /\ reader.map_key = key
         /\ reader.num_flags = Cardinality(TypedFlags)
         /\ Len(nest) \in 0 .. 5
         /\ Innermost = None <=> Len(nest) = 0
         /\ Innermost = "file" <=> Len(nest) = 1
         /\ Innermost = "compiler" <=> Len(nest) = 2
         /\ Innermost = "flags" <=> Len(nest) = 3
         /\ Innermost = "flag" <=> Len(nest) = 4
         /\ Innermost \in {"values", "depends-on"} <=> Len(nest) = 5
<1>1. /\ Nested /\ KeyFits /\ Formed /\ Recorded /\ DOMAIN reader = Fields
      /\ reader.state = StateOf(Innermost) /\ reader.map_key = key
      /\ reader.num_flags = Cardinality(TypedFlags)
  BY DEF ReaderInv, Formed, ReaderFollowsFile, TypedFlags
<1>2. Deep(nest)
  BY DEF ReaderInv, Nested
<1> QED BY <1>1, <1>2, Depth DEF Innermost

LEMMA WriteKeyKeeps ==
  ASSUME ReaderInv, WriteKey
  PROVE  ReaderInv'
<1> USE Here
<1>1. key = NULL /\ UNCHANGED <<nest, doc>> /\ Innermost' = Innermost
  BY DEF WriteKey, Innermost
<1>2. PICK k \in CASE Innermost = "file" ->
                        NextKeys(TopKeys \o <<"compiler">>, DOMAIN doc.top, Optional)
                   [] Innermost = "compiler" ->
                        NextKeys(CompilerKeys \o <<"flags">>, DOMAIN doc.compiler, Optional)
                   [] Innermost = "flag" -> NextAttributes
                   [] OTHER -> {} :
        key' = k /\ reader' = Scalar(reader, k)
  BY DEF WriteKey
<1>3. /\ reader.state \in MapStates
      /\ \/ Innermost = "file" /\ k \in FileKeys
         \/ Innermost = "compiler" /\ k \in {"name", "version", "flags"}
         \/ Innermost = "flag" /\ k \in FlagKeys /\ k \notin DOMAIN ThisFlag
  <2>1. CASE Innermost = "file"
    <3>1. k \in NextKeys(TopKeys \o <<"compiler">>, DOMAIN doc.top, Optional)
      BY <1>2, <2>1
    <3> QED BY <2>1, <3>1, OfFile, States DEF MapStates
  <2>2. CASE Innermost = "compiler"
    <3>1. k \in NextKeys(CompilerKeys \o <<"flags">>, DOMAIN doc.compiler, Optional)
      BY <1>2, <2>2
    <3> QED BY <2>2, <3>1, OfCompiler, States DEF MapStates
  <2>3. CASE Innermost = "flag"
    <3>1. k \in NextAttributes
      BY <1>2, <2>3
    <3>2. Len(nest) = 4
      BY <2>3
    <3>3. Len(nest) >= 4
      BY <3>2
    <3> QED BY <2>3, <3>1, <3>3, OfFlag, States DEF MapStates
  <2>4. CASE Innermost \notin {"file", "compiler", "flag"}
    BY <1>2, <2>4
  <2> QED BY <2>1, <2>2, <2>3, <2>4
<1>4. /\ DOMAIN reader' = Fields /\ reader'.map_key = k
      /\ reader'.state = reader.state /\ reader'.num_flags = reader.num_flags
  BY <1>1, <1>2, <1>3, ReadsKey
<1>5. Nested' /\ Recorded' /\ TypedFlags' = TypedFlags
  BY <1>1 DEF Nested, Deep, Recorded, TypedFlags
<1>6. KeyFits'
  BY <1>1, <1>2, <1>3 DEF KeyFits, ThisFlag
<1>7. Formed'
  BY <1>1, <1>4, <1>5 DEF Formed
<1>8. ReaderFollowsFile'
  BY <1>1, <1>2, <1>4, <1>5 DEF ReaderFollowsFile, TypedFlags
<1> QED BY <1>5, <1>6, <1>7, <1>8 DEF ReaderInv

LEMMA WriteValueKeeps ==
  ASSUME ReaderInv, WriteValue
  PROVE  ReaderInv'
<1> USE Here
<1>1. /\ key \notin {NULL, "compiler", "flags", "values", "depends-on"}
      /\ key' = NULL /\ UNCHANGED nest /\ Innermost' = Innermost
  BY DEF WriteValue, Innermost
<1>2. PICK v \in TextOf(key) :
        /\ doc' = CASE Innermost = "file" -> [doc EXCEPT !.top = Plus(@, key, v)]
                    [] Innermost = "compiler" ->
                         [doc EXCEPT !.compiler = Plus(@, key, v)]
                    [] OTHER -> [doc EXCEPT !.flags[Len(doc.flags)] = Plus(@, key, v)]
        /\ reader' = Scalar(reader, v)
  BY DEF WriteValue
<1>3. /\ reader.state \in MapStates
      /\ Innermost = "file" \/ Innermost = "compiler" \/ Innermost = "flag"
      /\ key = "type" => /\ Innermost = "flag" /\ reader.state = "COMPILER_FLAG_MAP"
                         /\ "type" \notin DOMAIN ThisFlag
  BY <1>1, States DEF KeyFits, FileKeys, MapStates
<1>4. key = "type" => v \in FlagTypes
  <2>1. TextOf("type") \subseteq FlagTypes
    BY DEF TextOf, Types, FlagTypes, Numbers
  <2> QED BY <1>2, <2>1
<1>5. /\ DOMAIN reader' = Fields /\ reader'.map_key = NULL
      /\ reader'.state = reader.state
      /\ reader'.num_flags = IF key = "type" THEN reader.num_flags + 1 ELSE reader.num_flags
  BY <1>1, <1>2, <1>3, <1>4, ReadsValue
<1>6. /\ Recorded' /\ Len(doc'.flags) = Len(doc.flags)
      /\ TypedFlags' = IF key = "type" THEN TypedFlags \cup {Len(doc.flags)} ELSE TypedFlags
      /\ key = "type" => Len(doc.flags) \in 1 .. Len(doc.flags)
  <2>1. CASE Innermost = "file"
    <3>1. doc' = [doc EXCEPT !.top = Plus(@, key, v)]
      BY <1>2, <2>1
    <3>2. DOMAIN doc' = DOMAIN doc /\ doc'.flags = doc.flags
      BY <3>1 DEF Recorded
    <3> QED BY <1>3, <2>1, <3>2, FlagsStay
  <2>2. CASE Innermost = "compiler"
    <3>1. doc' = [doc EXCEPT !.compiler = Plus(@, key, v)]
      BY <1>2, <2>2
    <3>2. DOMAIN doc' = DOMAIN doc /\ doc'.flags = doc.flags
      BY <3>1 DEF Recorded
    <3> QED BY <1>3, <2>2, <3>2, FlagsStay
  <2>3. CASE Innermost = "flag"
    <3>1. doc' = [doc EXCEPT !.flags[Len(doc.flags)] = Plus(@, key, v)]
      BY <1>2, <2>3
    <3>2. Len(doc.flags) > 0 /\ Len(doc.flags) \in Nat
      <4>1. Len(nest) = 4
        BY <2>3
      <4> QED BY <4>1 DEF Formed, Recorded
    <3>3. /\ Recorded' /\ Len(doc'.flags) = Len(doc.flags)
          /\ TypedFlags' = IF key = "type" THEN TypedFlags \cup {Len(doc.flags)} ELSE TypedFlags
      BY <1>4, <3>1, <3>2, FlagFilled
    <3> QED BY <3>2, <3>3
  <2> QED BY <1>3, <2>1, <2>2, <2>3
<1>7. reader'.num_flags = Cardinality(TypedFlags')
  <2>1. CASE key = "type"
    <3>1. Len(doc.flags) \notin TypedFlags
      BY <1>3, <2>1 DEF TypedFlags, ThisFlag
    <3>2. Cardinality(TypedFlags \cup {Len(doc.flags)}) = Cardinality(TypedFlags) + 1
      BY <3>1, TypedFinite, FS_AddElement
    <3> QED BY <1>5, <1>6, <2>1, <3>2
  <2>2. CASE key # "type"
    BY <1>5, <1>6, <2>2
  <2> QED BY <2>1, <2>2
<1>8. Nested' /\ KeyFits'
  BY <1>1 DEF Nested, Deep, KeyFits
<1>9. Formed'
  BY <1>1, <1>5, <1>6 DEF Formed
<1>10. ReaderFollowsFile'
  BY <1>1, <1>5, <1>7 DEF ReaderFollowsFile, TypedFlags
<1> QED BY <1>8, <1>9, <1>10 DEF ReaderInv

LEMMA OpenMappingKeeps ==
  ASSUME ReaderInv, OpenMapping
  PROVE  ReaderInv'
<1> USE Here
<1>1. key' = NULL /\ reader' = MappingStart(reader)
  BY DEF OpenMapping
<1>2. /\ DOMAIN reader' = Fields /\ reader'.map_key = NULL
      /\ reader'.num_flags = reader.num_flags
  BY <1>1, Starts
<1>3. /\ Nested' /\ Recorded' /\ TypedFlags' = TypedFlags
      /\ Len(nest') >= 4 => Len(doc'.flags) > 0
      /\ reader'.state = StateOf(Innermost')
  <2>1. CASE nest = <<>> /\ nest' = <<"file">> /\ UNCHANGED doc
    <3>1. nest' = Append(nest, "file") /\ Len(nest) = 0
      BY <2>1
    <3>2. "file" \in At(Len(nest) + 1) /\ "file" \in Kinds
      BY <3>1 DEF At, Kinds
    <3>3. Nested' /\ Len(nest') = 1 /\ Innermost' = "file"
      BY <3>1, <3>2, Opened
    <3>4. Innermost = None
      BY <3>1
    <3>5. reader'.state = "TOP_LEVEL_MAP"
      BY <1>1, <3>4, Starts, States
    <3> QED BY <2>1, <3>3, <3>5, States DEF Recorded, TypedFlags
  <2>2. CASE /\ key = "compiler" /\ nest' = Append(nest, "compiler")
             /\ doc' = [doc EXCEPT !.top = Plus(@, key, "mapping")]
    <3>1. Innermost = "file"
      BY <2>2 DEF KeyFits, FlagKeys, NULL
    <3>2. Len(nest) = 1
      BY <3>1
    <3>3. "compiler" \in At(Len(nest) + 1) /\ "compiler" \in Kinds
      BY <3>2 DEF At, Kinds
    <3>4. Nested' /\ Len(nest') = 2 /\ Innermost' = "compiler"
      BY <2>2, <3>2, <3>3, Opened
    <3>5. reader'.state = "COMPILER_MAP"
      BY <1>1, <2>2, <3>1, Starts, States
    <3>6. DOMAIN doc' = DOMAIN doc /\ doc'.flags = doc.flags
      BY <2>2 DEF Recorded
    <3> QED BY <3>4, <3>5, <3>6, FlagsStay, States
  <2>3. CASE /\ Innermost = "flags" /\ nest' = Append(nest, "flag")
             /\ doc' = [doc EXCEPT !.flags = Append(@, <<>>)]
    <3>1. Len(nest) = 3
      BY <2>3
    <3>2. "flag" \in At(Len(nest) + 1) /\ "flag" \in Kinds
      BY <3>1 DEF At, Kinds
    <3>3. Nested' /\ Innermost' = "flag"
      BY <2>3, <3>1, <3>2, Opened
    <3>4. reader'.state = "COMPILER_FLAG_MAP"
      BY <1>1, <2>3, Starts, States
    <3>5. Recorded' /\ TypedFlags' = TypedFlags /\ Len(doc'.flags) = Len(doc.flags) + 1
      BY <2>3, FlagAdded
    <3>6. Len(doc'.flags) > 0
      BY <3>5 DEF Recorded
    <3> QED BY <3>3, <3>4, <3>5, <3>6, States
  <2> QED BY <2>1, <2>2, <2>3 DEF OpenMapping
<1>4. KeyFits'
  BY <1>1 DEF KeyFits
<1>5. Formed'
  BY <1>2, <1>3 DEF Formed
<1>6. ReaderFollowsFile'
  BY <1>1, <1>2, <1>3 DEF ReaderFollowsFile, TypedFlags
<1> QED BY <1>3, <1>4, <1>5, <1>6 DEF ReaderInv

LEMMA OpenSequenceKeeps ==
  ASSUME ReaderInv, OpenSequence
  PROVE  ReaderInv'
<1> USE Here
<1>1. key' = NULL /\ reader' = SequenceStart(reader) /\ nest' = Append(nest, key)
  BY DEF OpenSequence
<1>2. /\ DOMAIN reader' = Fields /\ reader'.map_key = NULL
      /\ reader'.num_flags = reader.num_flags
  BY <1>1, Starts
<1>3. /\ Nested' /\ Recorded' /\ TypedFlags' = TypedFlags
      /\ Len(nest') >= 4 => Len(doc'.flags) > 0
      /\ reader'.state = StateOf(Innermost')
  <2>1. CASE key = "flags" /\ doc' = [doc EXCEPT !.compiler = Plus(@, key, "sequence")]
    <3>1. Innermost = "compiler"
      BY <2>1 DEF KeyFits, FileKeys, FlagKeys, NULL
    <3>2. Len(nest) = 2
      BY <3>1
    <3>3. "flags" \in At(Len(nest) + 1) /\ "flags" \in Kinds
      BY <3>2 DEF At, Kinds
    <3>4. Nested' /\ Len(nest') = 3 /\ Innermost' = "flags"
      BY <1>1, <2>1, <3>2, <3>3, Opened
    <3>5. reader'.state = "COMPILER_FLAGS_SEQ"
      BY <1>1, <2>1, <3>1, Starts, States
    <3>6. DOMAIN doc' = DOMAIN doc /\ doc'.flags = doc.flags
      BY <2>1 DEF Recorded
    <3> QED BY <3>4, <3>5, <3>6, FlagsStay, States
  <2>2. CASE /\ key \in {"values", "depends-on"}
             /\ doc' = [doc EXCEPT !.flags[Len(doc.flags)] = Plus(@, key, <<>>)]
    <3>1. Innermost = "flag"
      BY <2>2 DEF KeyFits, FileKeys, NULL
    <3>2. Len(nest) = 4
      BY <3>1
    <3>3. key \in At(Len(nest) + 1) /\ key \in Kinds
      BY <2>2, <3>2 DEF At, Kinds
    <3>4. Nested' /\ Innermost' = key
      BY <1>1, <3>2, <3>3, Opened
    <3>5. reader'.state = "COMPILER_FLAG_MAP_SEQ"
      BY <1>1, <3>1, Starts, States
    <3>6. Len(doc.flags) > 0 /\ key # "type"
      BY <2>2, <3>2 DEF Formed
    <3>7. Recorded' /\ Len(doc'.flags) = Len(doc.flags) /\ TypedFlags' = TypedFlags
      BY <2>2, <3>6, FlagFilled
    <3>8. StateOf(Innermost') = "COMPILER_FLAG_MAP_SEQ"
      BY <2>2, <3>4, States
    <3> QED BY <3>4, <3>5, <3>6, <3>7, <3>8
  <2> QED BY <2>1, <2>2 DEF OpenSequence
<1>4. KeyFits'
  BY <1>1 DEF KeyFits
<1>5. Formed'
  BY <1>2, <1>3 DEF Formed
<1>6. ReaderFollowsFile'
  BY <1>1, <1>2, <1>3 DEF ReaderFollowsFile, TypedFlags
<1> QED BY <1>3, <1>4, <1>5, <1>6 DEF ReaderInv

LEMMA WriteItemKeeps ==
  ASSUME ReaderInv, WriteItem
  PROVE  ReaderInv'
<1> USE Here
<1>1. /\ Innermost \in {"values", "depends-on"} /\ Innermost' = Innermost
      /\ UNCHANGED <<nest, key>>
  BY DEF WriteItem, Innermost
<1>2. PICK item :
        /\ doc' = [doc EXCEPT !.flags[Len(doc.flags)][Innermost] = Append(@, item)]
        /\ reader' = Scalar(reader, item)
  BY DEF WriteItem
<1>3. reader.state = "COMPILER_FLAG_MAP_SEQ"
  BY <1>1, States
<1>4. /\ DOMAIN reader' = Fields /\ reader'.map_key = reader.map_key
      /\ reader'.state = reader.state /\ reader'.num_flags = reader.num_flags
  BY <1>2, <1>3, ReadsItem
<1>5. Len(doc.flags) > 0 /\ Innermost # "type"
  <2>1. Len(nest) = 5
    BY <1>1
  <2> QED BY <1>1, <2>1 DEF Formed
<1>6. Recorded' /\ Len(doc'.flags) = Len(doc.flags) /\ TypedFlags' = TypedFlags
  BY <1>2, <1>5, FlagExtended
<1>7. Nested'
  BY <1>1 DEF Nested, Deep
<1>8. KeyFits'
  BY <1>1 DEF KeyFits
<1>9. Formed'
  BY <1>1, <1>4, <1>5, <1>6 DEF Formed
<1>10. ReaderFollowsFile'
  BY <1>1, <1>4, <1>6 DEF ReaderFollowsFile, TypedFlags
<1> QED BY <1>7, <1>8, <1>9, <1>10 DEF ReaderInv

\* Which collection the closed one was in.
LEMMA Outer ==
  ASSUME ReaderInv, Len(nest) > 0, nest' = Front(nest)
  PROVE  /\ Nested' /\ Len(nest') = Len(nest) - 1
         /\ Innermost = "file" => Innermost' = None
         /\ Innermost = "compiler" => Innermost' = "file"
         /\ Innermost = "flags" => Innermost' = "compiler"
         /\ Innermost = "flag" => Innermost' = "flags"
         /\ Innermost \in {"values", "depends-on"} => Innermost' = "flag"
<1>1. Nested' /\ Len(nest') = Len(nest) - 1
  BY Here, Closed
<1>2. Deep(nest')
  BY <1>1 DEF Nested
<1>3. /\ Innermost' = None <=> Len(nest') = 0
      /\ Innermost' = "file" <=> Len(nest') = 1
      /\ Innermost' = "compiler" <=> Len(nest') = 2
      /\ Innermost' = "flags" <=> Len(nest') = 3
      /\ Innermost' = "flag" <=> Len(nest') = 4
  BY <1>2, Depth DEF Innermost
<1> QED BY <1>1, <1>3, Here

LEMMA CloseMappingKeeps ==
  ASSUME ReaderInv, CloseMapping
  PROVE  ReaderInv'
<1> USE Here
<1>1. /\ key = NULL /\ UNCHANGED <<key, doc>> /\ reader' = MappingEnd(reader)
      /\ nest' = Front(nest)
  BY DEF CloseMapping
<1>2. Innermost = "flag" \/ Innermost = "compiler" \/ Innermost = "file"
  BY DEF CloseMapping
<1>3. Len(nest) > 0
  <2>1. Len(nest) # 0 /\ Len(nest) \in 0 .. 5
    BY <1>2 DEF None
  <2>2. \A n \in 0 .. 5 : n # 0 => n > 0
    OBVIOUS
  <2> QED BY <2>1, <2>2
<1>4. /\ DOMAIN reader' = Fields /\ reader'.map_key = reader.map_key
      /\ reader'.num_flags = reader.num_flags
  BY <1>1, Ends
<1>5. reader'.state = StateOf(Innermost')
  BY <1>1, <1>2, <1>3, Ends, Outer, States
<1>6. Nested' /\ Len(nest') = Len(nest) - 1
  BY <1>1, <1>3, Outer
<1>7. Recorded' /\ TypedFlags' = TypedFlags
  BY <1>1 DEF Recorded, TypedFlags
<1>8. KeyFits'
  BY <1>1 DEF KeyFits
<1>9. Formed'
  BY <1>1, <1>4, <1>6, <1>7 DEF Formed
<1>10. ReaderFollowsFile'
  BY <1>1, <1>4, <1>5 DEF ReaderFollowsFile, TypedFlags
<1> QED BY <1>6, <1>8, <1>9, <1>10 DEF ReaderInv

LEMMA CloseSequenceKeeps ==
  ASSUME ReaderInv, CloseSequence
  PROVE  ReaderInv'
<1> USE Here
<1>1. /\ UNCHANGED <<key, doc>> /\ reader' = SequenceEnd(reader) /\ nest' = Front(nest)
      /\ Innermost \in {"flags", "values", "depends-on"}
  BY DEF CloseSequence
<1>2. key = NULL
  BY <1>1 DEF KeyFits
<1>3. Len(nest) > 0
  <2>1. Len(nest) # 0 /\ Len(nest) \in 0 .. 5
    BY <1>1 DEF None
  <2>2. \A n \in 0 .. 5 : n # 0 => n > 0
    OBVIOUS
  <2> QED BY <2>1, <2>2
<1>4. /\ DOMAIN reader' = Fields /\ reader'.map_key = reader.map_key
      /\ reader'.num_flags = reader.num_flags
  BY <1>1, Ends
<1>5. reader'.state = StateOf(Innermost')
  BY <1>1, <1>3, Ends, Outer, States
<1>6. Nested' /\ Len(nest') = Len(nest) - 1
  BY <1>1, <1>3, Outer
<1>7. Recorded' /\ TypedFlags' = TypedFlags
  BY <1>1 DEF Recorded, TypedFlags
<1>8. KeyFits'
  BY <1>1, <1>2 DEF KeyFits
<1>9. Formed'
  BY <1>1, <1>4, <1>6, <1>7 DEF Formed
<1>10. ReaderFollowsFile'
  BY <1>1, <1>4, <1>5 DEF ReaderFollowsFile, TypedFlags
<1> QED BY <1>6, <1>8, <1>9, <1>10 DEF ReaderInv

LEMMA ReaderStarts == Init => ReaderInv
<1> SUFFICES ASSUME Init PROVE ReaderInv
  OBVIOUS
<1>1. nest = <<>> /\ key = NULL /\ Innermost = None
  BY DEF Init, ReadInit, Innermost
<1>2. /\ doc = [top |-> <<>>, compiler |-> <<>>, flags |-> <<>>] /\ DOMAIN doc.flags = {}
      /\ Len(doc.flags) = 0
  BY DEF Init, ReadInit
<1>3. DOMAIN reader = Fields /\ reader.state = "INITIAL" /\ reader.map_key = NULL
        /\ reader.num_flags = 0
  BY DEF Init, ReadInit, Fields
<1>4. Nested /\ KeyFits
  BY <1>1 DEF Nested, Deep, KeyFits
<1>5. Formed
  BY <1>1, <1>2, <1>3 DEF Formed, Recorded
<1>6. TypedFlags = {}
  BY <1>2 DEF TypedFlags
<1>7. ReaderFollowsFile
  BY <1>1, <1>3, <1>6, States, FS_EmptySet DEF ReaderFollowsFile, TypedFlags
<1> QED BY <1>4, <1>5, <1>7 DEF ReaderInv

LEMMA ReaderStands ==
  ASSUME ReaderInv, UNCHANGED readVars
  PROVE  ReaderInv'
BY DEF ReaderInv, readVars, Nested, Deep, KeyFits, Formed, Recorded, ReaderFollowsFile,
       Innermost, ThisFlag

LEMMA ReaderKeeps ==
  ASSUME ReaderInv, [Next]_vars
  PROVE  ReaderInv'
<1>1. CASE ReadStep
  BY <1>1, WriteKeyKeeps, WriteValueKeeps, OpenMappingKeeps, OpenSequenceKeeps, WriteItemKeeps,
     CloseMappingKeeps, CloseSequenceKeeps DEF ReadStep, ReadNext
<1>2. CASE MasterStep
  BY <1>2, ReaderStands
     DEF MasterStep, Barrier, ShareStep, Abort, MakeSearchSpace, StartSwarm, RefuseSearch, Place,
         DivideByZero, BuildOptions
<1>3. CASE \E w \in Worker : WorkerStep(w)
  BY <1>3, ReaderStands DEF WorkerStep, ReceiveStep, StartWorker, RefuseWorker
<1>4. CASE UNCHANGED vars
  BY <1>4, ReaderStands DEF vars
<1> QED BY <1>1, <1>2, <1>3, <1>4 DEF Next, Finished

\* The reader of the configuration has no stack, and needs none: whatever file
\* of the documented format it reads, it knows where it is, which scalars are
\* keys, and how many flags it has seen the type of (config.c:217-625).
THEOREM ReaderFollows == Spec => []ReaderFollowsFile
<1>1. ReaderInv => ReaderFollowsFile
  BY DEF ReaderInv
<1> QED BY <1>1, ReaderStarts, ReaderKeeps, PTL DEF Spec

-----------------------------------------------------------------------------
LEMMA ShareStarts == Init => ShareInv
BY DEF Init, ShareInit, ShareInv, Paced, SentIsThere, Told

\* Nothing has been sent while the master reads.
LEMMA ReadKeepsShare ==
  ASSUME ShareInv, ReadStep
  PROVE  ShareInv'
<1>1. sent = 0 /\ UNCHANGED <<sent, got, copy, master>>
  BY DEF ShareInv, Paced, ReadStep, shareVars
<1>2. Paced' /\ SentIsThere'
  BY <1>1 DEF ShareInv, Paced, SentIsThere
<1>3. \A w \in Worker : DOMAIN copy[w] = {} /\ got[w] = 0
  BY <1>1 DEF ShareInv, Paced, Told
<1>4. Told'
  BY <1>1, <1>3 DEF Told
<1> QED BY <1>2, <1>4 DEF ShareInv

LEMMA ShareKeeps ==
  ASSUME ShareInv, [Next]_vars
  PROVE  ShareInv'
<1>1. CASE ReadStep
  BY <1>1, ReadKeepsShare
<1>2. CASE ShareStep
  BY <1>2, BroadcastKeeps DEF ShareStep, readVars
<1>3. CASE \E w \in Worker : ReceiveStep(w)
  BY <1>3, ReceiveKeeps DEF ReceiveStep, readVars
<1> DEFINE Rest ==
      \/ Barrier \/ Abort \/ MakeSearchSpace \/ StartSwarm \/ RefuseSearch
      \/ Place \/ DivideByZero \/ BuildOptions
      \/ (\E w \in Worker : StartWorker(w) \/ RefuseWorker(w)) \/ UNCHANGED vars
<1>4. CASE Rest
  <2>1. UNCHANGED <<reader, sent, got, copy>>
    BY <1>4 DEF Barrier, Abort, MakeSearchSpace, StartSwarm, RefuseSearch, Place, DivideByZero,
                BuildOptions, StartWorker, RefuseWorker, vars, readVars, shareVars
  <2>2. Paced'
    <3>1. /\ master' = "reading" => master = "reading"
          /\ master' \in {"initialising", "placing", "searching"} =>
               master \in {"initialising", "placing", "searching"} \/ AllSent
      BY <1>4 DEF Barrier, Abort, MakeSearchSpace, StartSwarm, RefuseSearch, Place,
                  DivideByZero, BuildOptions, StartWorker, RefuseWorker, vars
    <3> QED BY <2>1, <3>1, Eleven DEF ShareInv, Paced, AllSent
  <2> QED BY <2>1, <2>2, ShareStays DEF ShareInv
<1> QED BY <1>1, <1>2, <1>3, <1>4 DEF Next, MasterStep, WorkerStep, Finished

LEMMA ShareHolds == Spec => []ShareInv
BY ShareStarts, ShareKeeps, PTL DEF Spec

\* No rank starts the search with a text missing (config.c:695-769).
THEOREM NoRankStartsWithout == Spec => []NoneStartsWithout
<1>1. ShareInv => NoneStartsWithout
  <2> SUFFICES ASSUME ShareInv,
                      (\E w \in Worker : HasConfig(w)) \/ master \in {"placing", "searching"},
                      NEW k \in ToSet(Broadcasts)
               PROVE  Field(k) # NULL
    BY DEF NoneStartsWithout
  <2>1. sent = 11
    BY Eleven DEF ShareInv, Paced, HasConfig
  <2>2. PICK i \in 1 .. 11 : k = Broadcasts[i]
    BY Eleven DEF ToSet
  <2> QED BY <2>1, <2>2 DEF ShareInv, SentIsThere
<1> QED BY <1>1, ShareHolds, PTL
=============================================================================

-------------------------- MODULE SearchSpaceProofs --------------------------
(***************************************************************************)
(* Proofs about SearchSpace, for all integers and all flags: where the     *)
(* random coordinates of a particle may lie, and that a coordinate inside  *)
(* a dimension stands for a value of its flag, or for leaving it out.      *)
(***************************************************************************)
EXTENDS SearchSpace, TLAPS

\* The remainder of a division by a width from 1 to that of the range, moved to
\* the minimum, is inside the range.
LEMMA Moved ==
  ASSUME NEW min \in Int, NEW max \in Int, NEW width \in Int,
         Magnitude(width) <= max - min + 1
  PROVE  \A r \in Remainders(width) : min + r \in min .. max
BY DEF Remainders, Magnitude

\* A random coordinate of a dimension that reaches above 0 is inside it, whatever
\* the random number, and there is no division by zero, but in -2 .. 1
\* (random.c:139-186, spso.c:658-673).
THEOREM RandomCoordinateInside ==
  ASSUME NEW min \in Int, NEW max \in Int,
         min <= max, 1 <= max, ~(min = -2 /\ max = 1)
  PROVE  /\ opt_rand_int_range(min, max) # {}
         /\ opt_rand_int_range(min, max) \subseteq min .. max
         /\ ~MayDivideByZero(min, max)
<1>1. CASE min = max
  BY <1>1 DEF opt_rand_int_range, MayDivideByZero
<1>2. CASE min < max
  <2> DEFINE w == Width(min, max)
  <2>1. w \in Int /\ w # 0 /\ Magnitude(w) <= max - min + 1
    <3>1. CASE max - Magnitude(min) + 1 = 0
      <4>1. min < 0 /\ max = -min - 1 /\ w = max \div 2
        BY <1>2, <3>1 DEF Magnitude, Width
      <4>2. max >= 2
        BY <4>1
      <4> QED BY <1>2, <4>1, <4>2 DEF Magnitude
    <3>2. CASE max - Magnitude(min) + 1 # 0
      BY <1>2, <3>2 DEF Magnitude, Width
    <3> QED BY <3>1, <3>2
  <2>2. opt_rand_int_range(min, max)
          = (IF PlainRand(min, max) THEN min .. max ELSE {}) \cup {min + r : r \in Remainders(w)}
    BY <1>2 DEF opt_rand_int_range
  <2>3. ~MayDivideByZero(min, max)
    BY <1>2, <2>1 DEF MayDivideByZero
  <2> HIDE DEF w
  <2>4. \A r \in Remainders(w) : min + r \in min .. max
    BY <2>1, Moved
  <2>5. 0 \in Remainders(w)
    BY <2>1 DEF Remainders, Magnitude
  <2> QED BY <2>2, <2>3, <2>4, <2>5
<1> QED BY <1>1, <1>2

\* The options a flag can give.
Values(flag) ==
  CASE flag.type = "OPT_RANGE_FLAG" ->
         {<<flag.prefix, flag.name, flag.separator, v>> : v \in flag.min .. flag.max}
    [] flag.type = "OPT_LIST_FLAG" ->
         {<<flag.prefix, flag.name, flag.separator, flag.values[k]>> : k \in DOMAIN flag.values}
    [] OTHER -> {<<flag.prefix, flag.name>>, <<flag.neg_prefix, flag.name>>}

\* Each option of a flag, and leaving it out, has a coordinate, and the
\* coordinates of its dimension stand for nothing else (optimiser.c:504-551,
\* 640-752).
THEOREM CoordinatesAreOptions ==
  ASSUME NEW flag, NEW S, Convertible(flag),
         flag.type = "OPT_RANGE_FLAG" =>
           /\ flag.min \in Int /\ flag.max \in Int /\ flag.min <= flag.max + 1
           /\ flag.separator # "NULL",
         flag.type = "OPT_LIST_FLAG" => flag.values \in Seq(S)
  PROVE  LET d == opt_convert_flag(flag)
         IN  {convert_dimension_to_string(flag, v) : v \in d.min .. d.max}
               = Values(flag) \cup {LeftOut}
<1> DEFINE d == opt_convert_flag(flag)
           C(v) == convert_dimension_to_string(flag, v)
<1>1. CASE flag.type = "OPT_RANGE_FLAG"
  <2>1. /\ d.min = flag.min /\ d.max = flag.max + 1 /\ flag.min \in Int /\ flag.max \in Int
        /\ flag.min <= flag.max + 1
    BY <1>1 DEF opt_convert_flag
  <2>2. ASSUME NEW v \in flag.min .. flag.max
        PROVE  C(v) = <<flag.prefix, flag.name, flag.separator, v>>
    BY <1>1, <2>1 DEF convert_dimension_to_string
  <2>3. C(flag.max + 1) = LeftOut
    BY <1>1, <2>1 DEF convert_dimension_to_string
  <2>4. d.min .. d.max = (flag.min .. flag.max) \cup {flag.max + 1}
    BY <2>1
  <2>5. Values(flag) = {<<flag.prefix, flag.name, flag.separator, v>> : v \in flag.min .. flag.max}
    BY <1>1 DEF Values
  <2> HIDE DEF C, d
  <2>6. {C(v) : v \in d.min .. d.max} = Values(flag) \cup {LeftOut}
    BY <2>2, <2>3, <2>4, <2>5
  <2> QED BY <2>6 DEF C, d
<1>2. CASE flag.type = "OPT_LIST_FLAG"
  <2> DEFINE n == Len(flag.values)
  <2>1. /\ d.min = 0 /\ d.max = n /\ n \in Nat /\ DOMAIN flag.values = 1 .. n
    BY <1>2 DEF opt_convert_flag
  <2>2. ASSUME NEW k \in 1 .. n
        PROVE  C(k - 1) = <<flag.prefix, flag.name, flag.separator, flag.values[k]>>
    BY <1>2, <2>1 DEF convert_dimension_to_string
  <2>3. C(n) = LeftOut
    BY <1>2, <2>1 DEF convert_dimension_to_string
  <2>4. Values(flag) = {<<flag.prefix, flag.name, flag.separator, flag.values[k]>> : k \in 1 .. n}
    BY <1>2, <2>1 DEF Values
  <2> HIDE DEF C, d, n
  <2>5. ASSUME NEW v \in 0 .. n PROVE C(v) \in Values(flag) \cup {LeftOut}
    <3>1. CASE v = n
      BY <2>3, <3>1
    <3>2. CASE v # n
      <4>1. v + 1 \in 1 .. n /\ (v + 1) - 1 = v
        BY <2>1, <3>2
      <4>2. C(v) = <<flag.prefix, flag.name, flag.separator, flag.values[v + 1]>>
        BY <2>2, <4>1
      <4> QED BY <2>4, <4>1, <4>2
    <3> QED BY <3>1, <3>2
  <2>6. ASSUME NEW o \in Values(flag) \cup {LeftOut} PROVE \E v \in 0 .. n : o = C(v)
    <3>1. CASE o \in Values(flag)
      <4>1. PICK k \in 1 .. n : o = <<flag.prefix, flag.name, flag.separator, flag.values[k]>>
        BY <2>4, <3>1
      <4>2. k - 1 \in 0 .. n /\ o = C(k - 1)
        BY <2>1, <2>2, <4>1
      <4> QED BY <4>2
    <3>2. CASE o = LeftOut
      BY <2>1, <2>3, <3>2
    <3> QED BY <3>1, <3>2
  <2>7. {C(v) : v \in d.min .. d.max} = Values(flag) \cup {LeftOut}
    BY <2>1, <2>5, <2>6
  <2> QED BY <2>7 DEF C, d
<1>3. CASE flag.type = "OPT_ONOFF_FLAG"
  <2>1. d.min = 0 /\ d.max = 2
    BY <1>3 DEF opt_convert_flag
  <2>2. /\ C(0) = <<flag.neg_prefix, flag.name>> /\ C(1) = <<flag.prefix, flag.name>>
        /\ C(2) = LeftOut
    BY <1>3 DEF convert_dimension_to_string
  <2>3. Values(flag) = {<<flag.prefix, flag.name>>, <<flag.neg_prefix, flag.name>>}
    BY <1>3 DEF Values
  <2> HIDE DEF C, d
  <2>4. d.min .. d.max = {0, 1, 2}
    BY <2>1
  <2>5. {C(v) : v \in d.min .. d.max} = Values(flag) \cup {LeftOut}
    BY <2>2, <2>3, <2>4
  <2> QED BY <2>5 DEF C, d
<1> QED BY <1>1, <1>2, <1>3 DEF Convertible
=============================================================================

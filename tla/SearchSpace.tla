----------------------------- MODULE SearchSpace -----------------------------
(***************************************************************************)
(* From flags to coordinates and back: opt_convert_flag, opt_get_flag and  *)
(* convert_dimension_to_string of src/src/optimiser.c, and the random      *)
(* integers of src/src/random.c that place a particle.                     *)
(*                                                                         *)
(* A flag is a record as ReadConfig fills it.  An option is a sequence:    *)
(* empty when the flag is left out, otherwise the parts that are printed.  *)
(***************************************************************************)
EXTENDS Integers, Sequences

Magnitude(x) == IF x < 0 THEN -x ELSE x

-----------------------------------------------------------------------------
\* A fault: the highest value of a range has no coordinate.
ConvertExclusive(flag) ==
  CASE flag.type = "OPT_RANGE_FLAG" -> [uid |-> flag.uid, min |-> flag.min, max |-> flag.max]
    [] flag.type = "OPT_LIST_FLAG" ->
         [uid |-> flag.uid, min |-> 0, max |-> Len(flag.values) - 1]
    [] flag.type = "OPT_ONOFF_FLAG" -> [uid |-> flag.uid, min |-> 0, max |-> 1]

\* opt_convert_flag: one coordinate more than there are values, for "left out".
\* A flag of no type has no dimension.
opt_convert_flag(flag) ==
  CASE flag.type = "OPT_RANGE_FLAG" ->
         [uid |-> flag.uid, min |-> flag.min, max |-> flag.max + 1]
    [] flag.type = "OPT_LIST_FLAG" ->
         [uid |-> flag.uid, min |-> 0, max |-> Len(flag.values)]
    [] flag.type = "OPT_ONOFF_FLAG" -> [uid |-> flag.uid, min |-> 0, max |-> 2]

\* Flags that can be converted.
Convertible(flag) == flag.type \in {"OPT_RANGE_FLAG", "OPT_LIST_FLAG", "OPT_ONOFF_FLAG"}

\* opt_get_flag: uids count from 0, and one too many is let through.
opt_get_flag(flags, uid) == flags[uid + 1]

LeftOut == <<>>

\* convert_dimension_to_string; a list without a separator is not caught, and
\* ends the program.
convert_dimension_to_string(flag, value) ==
  CASE flag.type = "OPT_RANGE_FLAG" ->
         IF value > flag.max \/ value < flag.min \/ flag.separator = "NULL"
         THEN LeftOut
         ELSE <<flag.prefix, flag.name, flag.separator, value>>
    [] flag.type = "OPT_LIST_FLAG" ->
         IF value >= Len(flag.values) \/ value < 0
         THEN LeftOut
         ELSE <<flag.prefix, flag.name, flag.separator, flag.values[value + 1]>>
    [] OTHER ->
         CASE value = 1 -> <<flag.prefix, flag.name>>
           [] value = 0 -> <<flag.neg_prefix, flag.name>>
           [] OTHER -> LeftOut

-----------------------------------------------------------------------------
(* opt_rand_int_range                                                      *)

\* The long that rand is divided by.
Width(min, max) ==
  LET tmp1 == max - Magnitude(min) + 1
  IN  IF tmp1 = 0 THEN Magnitude(max) \div 2 ELSE tmp1

\* The case in which rand itself is returned, when it is in the range.
PlainRand(min, max) == max - Magnitude(min) + 1 = 0

\* Remainders of any int, without their sign.
Remainders(width) == 0 .. Magnitude(width) - 1

\* A fault: the remainder is not moved to the minimum.
RandFromZero(min, max) == Remainders(Width(min, max))

\* Every value it may return; none when it divides by zero.
opt_rand_int_range(min, max) ==
  LET low == IF max < min THEN max ELSE min
      high == IF max < min THEN min ELSE max
  IN  IF max = min
      THEN {min}
      ELSE (IF PlainRand(low, high) THEN low .. high ELSE {})
             \cup {low + r : r \in Remainders(Width(low, high))}

\* Whether it may divide by zero.
MayDivideByZero(min, max) ==
  LET low == IF max < min THEN max ELSE min
      high == IF max < min THEN min ELSE max
  IN  max # min /\ Width(low, high) = 0
=============================================================================

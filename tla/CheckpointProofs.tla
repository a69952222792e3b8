-------------------------- MODULE CheckpointProofs --------------------------
(***************************************************************************)
(* Proofs about Checkpoint: the stored best survives any number of deaths  *)
(* and restarts, and never gets worse, for any set of fitness values, any  *)
(* epsilon and threshold, and reports nested to any depth.                 *)
(***************************************************************************)
EXTENDS CheckpointImplementsRecord, SequenceTheorems, TLAPS

-----------------------------------------------------------------------------
(* Values.                                                                 *)

\* "%lf" rounds to a positive multiple of a microsecond near the value.
LEMMA Rounding ==
  ASSUME NEW n \in Nat, n >= 2
  PROVE  LET r == 3 * ((n + 1) \div 3)
         IN  r \in Nat /\ 3 <= r /\ n - 1 <= r /\ r <= n + 1 /\ 3 * ((r + 1) \div 3) = r
OBVIOUS

\* A measured fitness stays one when it is stored, and storing it again changes
\* nothing.
LEMMA WrittenFitness ==
  ASSUME NEW f \in Fitness
  PROVE  /\ f \in Nat /\ 2 <= f /\ f < MAX
         /\ Written(f) \in Nat /\ 3 <= Written(f) /\ Written(f) < MAX
         /\ Written(f) = 3 * ((f + 1) \div 3)
         /\ Written(Written(f)) = Written(f)
<1>1. f \in Nat /\ 2 <= f /\ f <= MAX - 2 /\ MAX \in Nat
  BY CheckpointAssumption
<1>2. Written(f) = 3 * ((f + 1) \div 3)
  BY <1>1 DEF Written, NONE, INF
<1>3. Written(f) \in Nat /\ 3 <= Written(f) /\ Written(f) <= f + 1 /\ 3 * ((Written(f) + 1) \div 3) = Written(f)
  BY <1>1, <1>2, Rounding
<1>4. Written(Written(f)) = Written(f)
  BY <1>1, <1>3 DEF Written, NONE, INF
<1> QED BY <1>1, <1>2, <1>3, <1>4

\* Every value a run holds or stores, by kind.
LEMMA Kinds ==
  ASSUME NEW v \in Real
  PROVE  \/ v = NONE /\ Written(v) = NONE
         \/ v \in {MAX, INF} /\ Written(v) = v
         \/ /\ v \in Nat /\ 2 <= v /\ v < MAX
            /\ Written(v) = 3 * ((v + 1) \div 3)
            /\ Written(v) \in Rounded
            /\ Written(v) \in Nat /\ 3 <= Written(v) /\ Written(v) < MAX
<1>1. CASE v \in Fitness
  BY <1>1, WrittenFitness DEF Rounded
<1>2. CASE v \in Rounded
  <2>1. PICK f \in Fitness : v = Written(f)
    BY <1>2 DEF Rounded
  <2>2. Written(v) = v /\ v \in Nat /\ 3 <= v /\ v < MAX
    BY <2>1, WrittenFitness
  <2>3. Written(v) = 3 * ((v + 1) \div 3)
    BY <2>2, CheckpointAssumption DEF Written, NONE, INF
  <2> QED BY <1>2, <2>2, <2>3
<1>3. CASE v \in {NONE, MAX, INF}
  BY <1>3 DEF Written
<1> QED BY <1>1, <1>2, <1>3 DEF Real

\* Rounding keeps the order.
LEMMA Monotone ==
  ASSUME NEW v \in Real \ {NONE}, NEW w \in Real \ {NONE}, v <= w
  PROVE  Written(v) <= Written(w)
<1>1. MAX \in Nat
  BY CheckpointAssumption
<1>2. CASE w < MAX
  <2>1. v \in Nat /\ w \in Nat /\ Written(v) = 3 * ((v + 1) \div 3) /\ Written(w) = 3 * ((w + 1) \div 3)
    BY <1>1, <1>2, Kinds DEF INF
  <2> QED BY <2>1
<1>3. CASE ~(w < MAX)
  BY <1>1, <1>3, Kinds DEF INF
<1> QED BY <1>2, <1>3

\* What a value is when it comes back from the tables.
LEMMA ReadBack ==
  ASSUME NEW v \in Rounded \cup {NONE, MAX, INF}
  PROVE  /\ Read(v) \in Real \ {NONE}
         /\ Written(Read(v)) = Read(v)
         /\ Read(v) < MAX => v \in Rounded /\ Read(v) = v
         /\ v \in Rounded => Read(v) = v /\ v < MAX /\ v \in Nat
<1>1. MAX \in Nat
  BY CheckpointAssumption
<1>2. CASE v \in Rounded
  <2>1. PICK f \in Fitness : v = Written(f)
    BY <1>2 DEF Rounded
  <2>2. Written(v) = v /\ v \in Nat /\ 3 <= v /\ v < MAX
    BY <2>1, WrittenFitness
  <2>3. Read(v) = v
    BY <1>1, <2>2 DEF Read
  <2> QED BY <1>1, <1>2, <2>2, <2>3 DEF Real, NONE
<1>3. CASE v = NONE
  <2>1. Read(v) = MAX
    BY <1>3 DEF Read, NONE
  <2>2. v \notin Rounded
    BY <1>3, WrittenFitness DEF Rounded, NONE
  <2> QED BY <1>1, <2>1, <2>2 DEF Real, NONE, Written
<1>4. CASE v \in {MAX, INF}
  <2>1. Read(v) \in {MAX, INF} /\ ~(Read(v) < MAX)
    BY <1>1, <1>4 DEF Read, INF
  <2>2. v \notin Rounded
    BY <1>1, <1>4, WrittenFitness DEF Rounded, INF
  <2> QED BY <1>1, <2>1, <2>2 DEF Real, NONE, Written, INF
<1> QED BY <1>2, <1>3, <1>4
-----------------------------------------------------------------------------
(* Sequences of steps.                                                     *)

\* A step of either part of a concatenation is a step of the whole.
LEMMA InConcatenation ==
  ASSUME NEW p \in Seq(Step), NEW t \in Seq(Step)
  PROVE  /\ p \o t \in Seq(Step)
         /\ WritesBest(p) \/ WritesBest(t) => WritesBest(p \o t)
<1>1. Len(p) \in Nat /\ Len(t) \in Nat /\ DOMAIN p = 1 .. Len(p) /\ DOMAIN t = 1 .. Len(t)
  BY LenProperties
<1>2. p \o t \in Seq(Step) /\ Len(p \o t) = Len(p) + Len(t)
  BY ConcatProperties
<1>3. DOMAIN (p \o t) = 1 .. (Len(p) + Len(t))
  BY <1>2, LenProperties
<1>4. ASSUME NEW n \in 1 .. Len(p)
      PROVE  n \in 1 .. (Len(p) + Len(t)) /\ (p \o t)[n] = p[n]
  BY <1>1, ConcatProperties
<1>5. ASSUME NEW n \in 1 .. Len(t)
      PROVE  Len(p) + n \in 1 .. (Len(p) + Len(t)) /\ (p \o t)[Len(p) + n] = t[n]
  <2>1. Len(p) + n \in 1 .. (Len(p) + Len(t)) /\ ~(Len(p) + n <= Len(p)) /\ Len(p) + n - Len(p) = n
    BY <1>1
  <2>2. (p \o t)[Len(p) + n] = t[Len(p) + n - Len(p)]
    BY <2>1, ConcatProperties
  <2> QED BY <2>1, <2>2
<1> QED BY <1>1, <1>2, <1>3, <1>4, <1>5 DEF WritesBest

\* A checkpoint writes the best; it and the other steps of a report are steps.
LEMMA Steps ==
  /\ Statements \in Seq(Step) /\ WritesBest(Statements)
  /\ <<>> \in Seq(Step) /\ <<"move">> \in Seq(Step) /\ <<"record">> \in Seq(Step)
<1>1. 3 \in DOMAIN Statements /\ Statements[3] = "curr"
  BY DEF Statements
<1>2. Statements \in Seq(Step)
  BY DEF Statements, Step
<1> QED BY <1>1, <1>2 DEF WritesBest, Step

\* Doing the first step leaves steps, and the write of the best unless that was it.
LEMMA Rest ==
  ASSUME NEW s \in Seq(Step), s # <<>>
  PROVE  /\ Tail(s) \in Seq(Step)
         /\ WritesBest(s) /\ Head(s) # "curr" => Tail(s) # <<>> /\ WritesBest(Tail(s))
<1>1. /\ Tail(s) \in Seq(Step) /\ Len(Tail(s)) = Len(s) - 1
      /\ \A i \in 1 .. Len(Tail(s)) : Tail(s)[i] = s[i + 1]
  BY HeadTailProperties
<1>2. Len(s) \in Nat \ {0} /\ DOMAIN s = 1 .. Len(s) /\ DOMAIN Tail(s) = 1 .. Len(Tail(s))
  BY <1>1, EmptySeq, LenProperties
<1>3. ASSUME WritesBest(s), Head(s) # "curr"
      PROVE  Tail(s) # <<>> /\ WritesBest(Tail(s))
  <2>1. PICK k \in 1 .. Len(s) : s[k] = "curr"
    BY <1>2, <1>3 DEF WritesBest
  <2>2. k # 1
    BY <1>2, <1>3, <2>1
  <2>3. k - 1 \in 1 .. Len(Tail(s)) /\ Tail(s)[k - 1] = s[k]
    BY <1>1, <1>2, <2>1, <2>2
  <2>4. Tail(s) # <<>>
    <3>1. Len(<<>>) = 0
      BY EmptySeq
    <3>2. Len(Tail(s)) # 0
      BY <1>1, <1>2, <2>3
    <3> QED BY <3>1, <3>2
  <2> QED BY <1>2, <2>1, <2>3, <2>4 DEF WritesBest
<1> QED BY <1>1, <1>3

-----------------------------------------------------------------------------
(* A report.                                                               *)

\* Setting the two fields a judgement sets keeps a record's type and its best.
LEMMA SetFieldsOf ==
  ASSUME NEW A, NEW B, NEW P, NEW S,
         NEW u \in [curr : A, prev : B, pprev : B, pos : P, counter : Nat, stopped : S],
         NEW c \in Nat, NEW s \in S
  PROVE  LET r == [u EXCEPT !.counter = c, !.stopped = s]
         IN  /\ r \in [curr : A, prev : B, pprev : B, pos : P, counter : Nat, stopped : S]
             /\ r.curr = u.curr
OBVIOUS

LEMMA SetFields ==
  ASSUME NEW u \in Memory, NEW c \in Nat, NEW s \in BOOLEAN
  PROVE  /\ [u EXCEPT !.counter = c, !.stopped = s] \in Memory
         /\ [u EXCEPT !.counter = c, !.stopped = s].curr = u.curr
BY SetFieldsOf, Zenon DEF Memory

\* The record after a result has its type, and a best that is no worse than the
\* one before, and no worse than the result if that was looked at.
LEMMA Judgement ==
  ASSUME TypeOK, NEW f \in Real \ {NONE}, NEW x \in Position
  PROVE  LET m == ShouldStop(f, x)
         IN  /\ m \in Memory
             /\ m.curr <= mem.curr
             /\ ~mem.stopped => m.curr <= f
<1>1. MAX \in Nat /\ f \in Int /\ mem.curr \in Int
  BY Kinds, CheckpointAssumption DEF TypeOK, Memory, NONE, INF
<1>2. CASE mem.stopped
  BY <1>1, <1>2 DEF TypeOK, ShouldStop
<1>3. CASE ~mem.stopped /\ f > mem.curr
  <2> DEFINE s == mem.counter >= Threshold
  <2>1. ShouldStop(f, x) = [mem EXCEPT !.counter = mem.counter + 1, !.stopped = s]
    BY <1>3 DEF ShouldStop
  <2>2. s \in BOOLEAN /\ mem.counter + 1 \in Nat
    BY DEF TypeOK, Memory
  <2> HIDE DEF s
  <2>3. /\ [mem EXCEPT !.counter = mem.counter + 1, !.stopped = s] \in Memory
        /\ [mem EXCEPT !.counter = mem.counter + 1, !.stopped = s].curr = mem.curr
    <3>1. mem \in Memory
      BY DEF TypeOK
    <3> QED BY <2>2, <3>1, SetFields
  <2> QED BY <1>1, <1>3, <2>1, <2>3
<1>4. CASE ~mem.stopped /\ ~(f > mem.curr)
  <2> DEFINE u == UpdateGlobalBest(f, x)
             s == /\ Close(u.pprev, u.prev, f)
                  /\ Close(u.prev, u.curr, f)
                  /\ Close(u.curr, f, f)
  <2>1. u \in Memory
    BY DEF TypeOK, Memory, UpdateGlobalBest
  <2>2. u.curr <= mem.curr /\ u.curr <= f
    BY <1>1, <1>4 DEF TypeOK, Memory, UpdateGlobalBest
  <2>3. s \in BOOLEAN
    BY DEF Close
  <2>4. ShouldStop(f, x) = [u EXCEPT !.counter = 0, !.stopped = s]
    BY <1>4 DEF ShouldStop
  <2> HIDE DEF u, s
  <2>5. /\ [u EXCEPT !.counter = 0, !.stopped = s] \in Memory
        /\ [u EXCEPT !.counter = 0, !.stopped = s].curr = u.curr
    BY <2>1, <2>3, SetFields
  <2> QED BY <2>2, <2>4, <2>5
<1> QED BY <1>2, <1>3, <1>4

\* A report keeps what BestInv says of the memory and of todo.
LEMMA ReportKeeps ==
  ASSUME BestInv, phase # "down",
         NEW f \in Real \ {NONE}, NEW x \in Position, NEW rest \in Seq(Step),
         Report(f, x, rest), UNCHANGED <<db, phase, swarm, runs, acked>>
  PROVE  BestInv'
<1> DEFINE m == ShouldStop(f, x)
<1>1. m \in Memory /\ m.curr <= mem.curr /\ (~mem.stopped => m.curr <= f)
  BY Judgement DEF BestInv
<1>2. mem' = m /\ seen' = (IF ~mem.stopped /\ f < seen THEN f ELSE seen)
  BY DEF Report
<1>3. todo' \in Seq(Step) /\ WritesBest(todo')
  <2>1. PICK a \in {Statements, <<>>}, b \in {<<>>, <<"move">>} :
          todo' = a \o b \o <<"record">> \o Statements \o rest
    BY DEF Report
  <2> DEFINE p == a \o b \o <<"record">>
  <2>2. p \in Seq(Step)
    <3>1. a \o b \in Seq(Step)
      BY Steps, InConcatenation
    <3> QED BY <3>1, Steps, InConcatenation
  <2> HIDE DEF p
  <2>3. p \o Statements \in Seq(Step) /\ WritesBest(p \o Statements)
    BY <2>2, Steps, InConcatenation
  <2>4. todo' = (p \o Statements) \o rest
    BY <2>1 DEF p
  <2> QED BY <2>3, <2>4, InConcatenation
<1> HIDE DEF m
<1>4. TypeOK'
  BY <1>1, <1>2, <1>3 DEF BestInv, TypeOK
<1>5. \A v \in Real \ {NONE} : v \in Int /\ Written(v) \in Int
  BY Kinds, CheckpointAssumption DEF NONE, INF
<1>6. /\ MAX \in Nat /\ f \in Int /\ mem.curr \in Int /\ m.curr \in Int /\ seen \in Int
      /\ Written(m.curr) \in Int /\ Written(mem.curr) \in Int
      /\ Written(f) \in Int /\ Written(seen) \in Int /\ Read(db.curr) \in Int
  BY <1>1, <1>5, ReadBack, CheckpointAssumption DEF BestInv, TypeOK, Memory
<1>7. Written(m.curr) <= Written(mem.curr) /\ (~mem.stopped => Written(m.curr) <= Written(f))
  BY <1>1, Monotone DEF BestInv, TypeOK, Memory
<1>8. StoredBehindMemory'
  <2>1. Capped(Written(mem.curr)) <= Capped(Read(db.curr))
    BY DEF BestInv, StoredBehindMemory
  <2>2. Capped(Written(m.curr)) <= Capped(Written(mem.curr))
    BY <1>6, <1>7 DEF Capped
  <2>3. /\ Capped(Written(m.curr)) \in Int /\ Capped(Written(mem.curr)) \in Int
        /\ Capped(Read(db.curr)) \in Int
    BY <1>6 DEF Capped
  <2>4. Capped(Written(m.curr)) <= Capped(Read(db.curr))
    BY <2>1, <2>2, <2>3
  <2> QED BY <1>2, <2>4 DEF StoredBehindMemory
<1>9. MemoryHasSeen'
  <2>1. seen < MAX => mem.curr < MAX /\ Written(mem.curr) <= Written(seen)
    BY DEF BestInv, MemoryHasSeen
  <2>2. CASE ~mem.stopped /\ f < seen
    BY <1>1, <1>2, <1>6, <1>7, <2>2 DEF MemoryHasSeen
  <2>3. CASE ~(~mem.stopped /\ f < seen)
    BY <1>1, <1>2, <1>6, <1>7, <2>1, <2>3 DEF MemoryHasSeen
  <2> QED BY <2>2, <2>3
<1>10. StoredInTime' /\ BestSurvives' /\ (db.curr \in Rounded \cup {NONE, MAX, INF})'
  BY <1>3 DEF BestInv, StoredInTime, BestSurvives
<1> QED BY <1>4, <1>8, <1>9, <1>10 DEF BestInv

-----------------------------------------------------------------------------
(* One UPDATE statement.                                                   *)

\* What is stored and read back is what was written, failed evaluations being
\* all alike.
LEMMA StoreAndRead ==
  ASSUME NEW v \in Real \ {NONE}
  PROVE  /\ Written(v) \in Rounded \cup {MAX, INF} /\ Written(v) \in Real
         /\ Capped(Read(Written(v))) = Capped(Written(v))
         /\ Written(v) < MAX => Read(Written(v)) = Written(v)
<1>1. MAX \in Nat
  BY CheckpointAssumption
<1>2. CASE v \in {MAX, INF}
  BY <1>1, <1>2 DEF Written, Real, Read, Capped, INF
<1>3. CASE v \notin {MAX, INF}
  <2>1. Written(v) \in Rounded
    BY <1>3, Kinds
  <2> QED BY <2>1, ReadBack DEF Real
<1> QED BY <1>2, <1>3

\* After a statement the stored best is what it was, or the swarm's best.
LEMMA ExecuteStores ==
  ASSUME TypeOK, Execute
  PROVE  /\ (db \in [curr : Real, prev : Real, pprev : Real, pos : Position \cup {NoRow},
                      counter : Nat, particles : BOOLEAN])'
         /\ db'.curr = IF Head(todo) = "curr" THEN Written(mem.curr) ELSE db.curr
<1>1. \A v \in Real : Written(v) \in Real
  BY Kinds DEF Real, Written
<1>2. /\ Written(mem.curr) \in Real /\ Written(mem.prev) \in Real /\ Written(mem.pprev) \in Real
      /\ mem.pos \in Position /\ mem.counter \in Nat
  BY <1>1 DEF TypeOK, Memory
<1>3. CASE Head(todo) = "curr"
  BY <1>2, <1>3 DEF Execute, TypeOK
<1>4. CASE Head(todo) = "prev"
  BY <1>2, <1>4 DEF Execute, TypeOK
<1>5. CASE Head(todo) = "pprev"
  BY <1>2, <1>5 DEF Execute, TypeOK
<1>6. CASE Head(todo) = "pos"
  BY <1>2, <1>6 DEF Execute, TypeOK
<1>7. CASE Head(todo) = "counter"
  BY <1>2, <1>7 DEF Execute, TypeOK
<1> QED BY <1>3, <1>4, <1>5, <1>6, <1>7 DEF Execute

\* The stored best never gets worse.
LEMMA ExecuteImproves ==
  ASSUME BestInv, Execute
  PROVE  Capped(Read(db'.curr)) <= Capped(Read(db.curr))
<1>1. todo # <<>> /\ phase # "down"
  BY DEF Execute, BestInv, StoredInTime
<1>2. db'.curr = IF Head(todo) = "curr" THEN Written(mem.curr) ELSE db.curr
  BY ExecuteStores DEF BestInv
<1>3. Capped(Read(Written(mem.curr))) = Capped(Written(mem.curr))
  BY StoreAndRead DEF BestInv, TypeOK, Memory
<1>4. Capped(Written(mem.curr)) <= Capped(Read(db.curr))
  BY <1>1 DEF BestInv, StoredBehindMemory
<1>5. Capped(Read(db.curr)) <= Capped(Read(db.curr))
  <2>1. Read(db.curr) \in Real \ {NONE}
    BY ReadBack DEF BestInv
  <2>2. Capped(Read(db.curr)) \in Int
    BY <2>1, Kinds, CheckpointAssumption DEF Capped, INF
  <2> QED BY <2>2
<1> QED BY <1>2, <1>3, <1>4, <1>5

\* A statement keeps the invariant: what has been acknowledged was stored first.
LEMMA ExecuteKeeps ==
  ASSUME BestInv, Execute
  PROVE  BestInv'
<1>1. todo # <<>> /\ phase # "down" /\ todo \in Seq(Step)
  BY DEF Execute, BestInv, TypeOK, StoredInTime
<1>2. /\ todo' = Tail(todo) /\ acked' = (IF Tail(todo) = <<>> THEN seen ELSE acked)
      /\ UNCHANGED <<mem, phase, swarm, runs, seen>>
  BY DEF Execute
<1>3. db'.curr = IF Head(todo) = "curr" THEN Written(mem.curr) ELSE db.curr
  BY ExecuteStores DEF BestInv
<1>4. TypeOK'
  BY <1>1, <1>2, ExecuteStores, Rest DEF BestInv, TypeOK
<1>5. (db.curr \in Rounded \cup {NONE, MAX, INF})'
  BY <1>3, StoreAndRead DEF BestInv, TypeOK, Memory
<1>6. MAX \in Nat /\ \A v \in Real \ {NONE} : v \in Int /\ Written(v) \in Int
  BY Kinds, CheckpointAssumption DEF NONE, INF
<1>7. /\ mem.curr \in Real \ {NONE} /\ Written(mem.curr) \in Int /\ mem.curr \in Int
      /\ seen \in Int /\ Written(seen) \in Int /\ acked \in Int /\ Written(acked) \in Int
      /\ Read(db.curr) \in Int /\ Read(db'.curr) \in Int
  BY <1>5, <1>6, ReadBack DEF BestInv, TypeOK, Memory
<1>8. StoredBehindMemory'
  <2>1. Capped(Written(mem.curr)) <= Capped(Read(db.curr))
    BY <1>1 DEF BestInv, StoredBehindMemory
  <2>2. Capped(Read(Written(mem.curr))) = Capped(Written(mem.curr)) /\ Capped(Written(mem.curr)) \in Int
    BY <1>6, <1>7, StoreAndRead DEF Capped
  <2> QED BY <1>2, <1>3, <2>1, <2>2 DEF StoredBehindMemory
<1>9. MemoryHasSeen'
  BY <1>1, <1>2 DEF BestInv, MemoryHasSeen
<1>10. StoredInTime'
  <2>1. CASE Head(todo) = "curr"
    BY <1>1, <1>2, <1>3, <2>1 DEF StoredInTime
  <2>2. CASE Head(todo) # "curr"
    BY <1>1, <1>2, <1>3, <2>2, Rest DEF BestInv, StoredInTime
  <2> QED BY <2>1, <2>2
<1>11. BestSurvives'
  <2>1. CASE Tail(todo) = <<>>
    <3>1. db'.curr = Written(mem.curr)
      BY <1>1, <1>3, <2>1, Rest DEF BestInv, StoredInTime
    <3>2. seen < MAX => mem.curr < MAX /\ Written(mem.curr) <= Written(seen)
      BY <1>1 DEF BestInv, MemoryHasSeen
    <3>3. mem.curr < MAX => Read(Written(mem.curr)) = Written(mem.curr)
      <4>1. mem.curr < MAX => Written(mem.curr) < MAX
        BY <1>6, <1>7, Kinds DEF INF
      <4> QED BY <1>7, <4>1, StoreAndRead
    <3> QED BY <1>2, <2>1, <3>1, <3>2, <3>3 DEF BestSurvives
  <2>2. CASE Tail(todo) # <<>>
    <3>1. Capped(Read(db'.curr)) <= Capped(Read(db.curr))
      BY ExecuteImproves
    <3>2. acked < MAX => Read(db.curr) <= Written(acked) /\ Written(acked) < MAX
      <4>1. acked < MAX => Written(acked) < MAX
        BY <1>6, Kinds DEF BestInv, TypeOK, INF
      <4> QED BY <4>1 DEF BestInv, BestSurvives
    <3>3. acked < MAX => Read(db'.curr) <= Written(acked)
      BY <1>6, <1>7, <3>1, <3>2 DEF Capped
    <3> QED BY <1>2, <2>2, <3>3 DEF BestSurvives
  <2> QED BY <2>1, <2>2
<1> QED BY <1>4, <1>5, <1>8, <1>9, <1>10, <1>11 DEF BestInv

-----------------------------------------------------------------------------
(* The invariant.                                                          *)

\* A new process starts from a record of the right type, with the stored best.
LEMMA RestartKeeps ==
  ASSUME BestInv, Restart
  PROVE  BestInv'
<1>1. /\ phase = "down" /\ phase' = "starting" /\ todo = <<>> /\ seen = acked
      /\ mem' = Loaded(db) /\ runs' = runs + 1 /\ runs < MaxRuns /\ swarm' = db.particles
      /\ UNCHANGED <<db, todo, seen, acked>>
  BY DEF Restart, BestInv, StoredInTime, MemoryHasSeen
<1>2. Loaded(db) \in Memory
  <2>1. \A w \in Real : Read(w) \in Real \ {NONE}
    <3>1. ASSUME NEW w \in Real PROVE Read(w) \in Real \ {NONE}
      <4>1. w = NONE \/ w \in {MAX, INF} \/ (w \in Nat /\ 2 <= w /\ w < MAX)
        BY Kinds
      <4> QED BY <4>1, CheckpointAssumption DEF Read, Real, NONE, INF
    <3> QED BY <3>1
  <2>2. Read(db.curr) \in Real \ {NONE} /\ Read(db.prev) \in Real /\ Read(db.pprev) \in Real
    BY <2>1 DEF BestInv, TypeOK
  <2>3. (IF db.pos = NoRow THEN Origin ELSE db.pos) \in Position /\ db.counter \in Nat
    BY CheckpointAssumption DEF BestInv, TypeOK
  <2> QED BY <2>2, <2>3 DEF Loaded, Memory
<1>3. TypeOK'
  BY <1>1, <1>2, CheckpointAssumption DEF BestInv, TypeOK
<1>4. mem'.curr = Read(db.curr) /\ Written(mem'.curr) = mem'.curr /\ mem'.curr \in Int
  BY <1>1, Kinds, ReadBack, CheckpointAssumption DEF BestInv, Loaded, INF
<1>5. StoredBehindMemory'
  BY <1>1, <1>4, CheckpointAssumption DEF StoredBehindMemory, Capped
<1>6. MemoryHasSeen'
  <2>1. acked < MAX => Written(acked) < MAX /\ Written(acked) \in Int
    BY Kinds, CheckpointAssumption DEF BestInv, TypeOK, INF
  <2>2. acked < MAX => mem'.curr <= Written(acked)
    BY <1>4 DEF BestInv, BestSurvives
  <2> QED BY <1>1, <1>4, <2>1, <2>2, CheckpointAssumption DEF MemoryHasSeen
<1>7. StoredInTime' /\ BestSurvives' /\ (db.curr \in Rounded \cup {NONE, MAX, INF})'
  BY <1>1 DEF BestInv, StoredInTime, BestSurvives
<1> QED BY <1>3, <1>5, <1>6, <1>7 DEF BestInv

LEMMA InitBestInv == Init => BestInv
<1> SUFFICES ASSUME Init PROVE BestInv
  OBVIOUS
<1>1. MAX \in Nat /\ MAX # NONE /\ INF # NONE
  BY CheckpointAssumption DEF NONE, INF
<1>2. TypeOK
  <2>1. mem \in Memory
    <3>1. PICK x \in Position :
            mem = [curr |-> MAX, prev |-> NONE, pprev |-> NONE, pos |-> x,
                   counter |-> 0, stopped |-> FALSE]
      BY DEF Init, NewRecord
    <3>2. MAX \in Real \ {NONE} /\ NONE \in Real
      BY <1>1 DEF Real
    <3> QED BY <3>1, <3>2 DEF Memory
  <2>2. todo \in Seq(Step)
    BY Steps DEF Init
  <2> QED BY <1>1, <2>1, <2>2, CheckpointAssumption DEF Init, TypeOK, Real
<1>3. mem.curr = MAX /\ db.curr = NONE /\ todo = <<>> /\ phase = "up" /\ seen = MAX /\ acked = MAX
  <2>1. \A r \in {[curr |-> MAX, prev |-> NONE, pprev |-> NONE, pos |-> x,
                   counter |-> 0, stopped |-> FALSE] : x \in Position} : r.curr = MAX
    OBVIOUS
  <2> QED BY <2>1 DEF Init, NewRecord
<1>4. Read(NONE) = MAX /\ Written(MAX) = MAX
  BY DEF Read, Written, NONE
<1>5. StoredBehindMemory /\ MemoryHasSeen /\ StoredInTime /\ BestSurvives
  BY <1>1, <1>3, <1>4, CheckpointAssumption
  DEF Capped, StoredBehindMemory, MemoryHasSeen, StoredInTime, BestSurvives
<1> QED BY <1>2, <1>3, <1>5 DEF BestInv

LEMMA NextBestInv == BestInv /\ [Next]_vars => BestInv'
<1> SUFFICES ASSUME BestInv, [Next]_vars PROVE BestInv'
  OBVIOUS
<1>1. CASE Receive
  <2>1. PICK f \in Fitness \cup {MAX}, x \in Position : Report(f, x, <<>>)
    BY <1>1 DEF Receive
  <2>2. f \in Real \ {NONE}
    BY WrittenFitness, CheckpointAssumption DEF Real, NONE
  <2>3. phase # "down" /\ UNCHANGED <<db, phase, swarm, runs, acked>>
    BY <1>1 DEF Receive
  <2> QED BY <2>1, <2>2, <2>3, Steps, ReportKeeps
<1>2. CASE Queue
  <2>1. todo # <<>> /\ todo \in Seq(Step) /\ Head(todo) # "curr" /\ todo' = Tail(todo)
    BY <1>2 DEF Queue, BestInv, TypeOK
  <2> QED BY <1>2, <2>1, Rest
       DEF Queue, BestInv, TypeOK, BestSurvives, StoredBehindMemory, MemoryHasSeen, StoredInTime
<1>3. CASE Known
  <2>1. PICK f \in Fitness, x \in Position : Report(Written(f), x, Tail(todo))
    BY <1>3 DEF Known
  <2>2. Written(f) \in Real \ {NONE}
    BY WrittenFitness DEF Real, Rounded, NONE
  <2>3. todo # <<>> /\ phase # "down" /\ Tail(todo) \in Seq(Step)
    BY <1>3, Rest DEF Known, BestInv, TypeOK, StoredInTime
  <2>4. UNCHANGED <<db, phase, swarm, runs, acked>>
    BY <1>3 DEF Known
  <2> QED BY <2>1, <2>2, <2>3, <2>4, ReportKeeps
<1>4. CASE Record
  <2>1. todo # <<>> /\ todo \in Seq(Step) /\ Head(todo) # "curr" /\ todo' = Tail(todo)
    BY <1>4 DEF Record, BestInv, TypeOK
  <2>2. db' = [db EXCEPT !.particles = TRUE]
    BY <1>4 DEF Record
  <2>3. db'.curr = db.curr /\ TypeOK'
    BY <1>4, <2>1, <2>2, Rest DEF Record, BestInv, TypeOK
  <2> QED BY <1>4, <2>1, <2>3, Rest
       DEF Record, BestInv, BestSurvives, StoredBehindMemory, MemoryHasSeen, StoredInTime
<1>5. CASE Execute
  BY <1>5, ExecuteKeeps
<1>6. CASE StopSearch
  <2>1. mem' = [mem EXCEPT !.stopped = TRUE] /\ phase' = "stopped" /\ phase # "down"
    BY <1>6 DEF StopSearch
  <2>2. mem'.curr = mem.curr /\ mem' \in Memory
    <3>1. mem \in Memory
      BY DEF BestInv, TypeOK
    <3>2. mem' = [mem EXCEPT !.counter = mem.counter, !.stopped = TRUE] /\ mem.counter \in Nat
      BY <2>1, <3>1 DEF Memory
    <3> QED BY <3>1, <3>2, SetFields
  <2>3. todo' \in Seq(Step) /\ WritesBest(todo')
    BY <1>6, Steps, InConcatenation DEF StopSearch, BestInv, TypeOK
  <2>4. TypeOK'
    BY <1>6, <2>1, <2>2, <2>3 DEF StopSearch, BestInv, TypeOK
  <2> QED BY <1>6, <2>1, <2>2, <2>3, <2>4
       DEF StopSearch, BestInv, BestSurvives, StoredBehindMemory, MemoryHasSeen, StoredInTime
<1>7. CASE Die
  <2>1. TypeOK'
    BY <1>7, Steps DEF Die, BestInv, TypeOK
  <2> QED BY <1>7, <2>1
       DEF Die, BestInv, BestSurvives, StoredBehindMemory, MemoryHasSeen, StoredInTime
<1>8. CASE Restart
  BY <1>8, RestartKeeps
<1>9. CASE UNCHANGED vars
  <2>1. TypeOK'
    BY <1>9 DEF vars, BestInv, TypeOK
  <2>2. BestSurvives' /\ StoredBehindMemory' /\ (db.curr \in Rounded \cup {NONE, MAX, INF})'
    BY <1>9 DEF vars, BestInv, BestSurvives, StoredBehindMemory
  <2>3. MemoryHasSeen' /\ StoredInTime'
    BY <1>9 DEF vars, BestInv, MemoryHasSeen, StoredInTime
  <2> QED BY <2>1, <2>2, <2>3 DEF BestInv
<1>10. CASE StartKnown
  <2>1. PICK f \in Fitness, x \in Position : Report(Written(f), x, <<>>)
    BY <1>10 DEF StartKnown
  <2>2. Written(f) \in Real \ {NONE}
    BY WrittenFitness DEF Real, Rounded, NONE
  <2>3. phase # "down" /\ UNCHANGED <<db, phase, swarm, runs, acked>>
    BY <1>10 DEF StartKnown
  <2> QED BY <2>1, <2>2, <2>3, Steps, ReportKeeps
<1>11. CASE Started
  <2>1. TypeOK'
    BY <1>11 DEF Started, BestInv, TypeOK
  <2> QED BY <1>11, <2>1
       DEF Started, BestInv, BestSurvives, StoredBehindMemory, MemoryHasSeen, StoredInTime
<1> QED BY <1>1, <1>2, <1>3, <1>4, <1>5, <1>6, <1>7, <1>8, <1>9, <1>10, <1>11 DEF Next, Finished

\* The record in memory, the tables and the two histories always stand in the
\* relation that makes the promises below true, whatever the fitness values, an
\* epsilon of 0 to 50, the threshold, the number of restarts and the depth of nesting.
THEOREM BestInvariant == Spec => []BestInv
<1>1. Init => BestInv
  BY InitBestInv
<1>2. BestInv /\ [Next]_vars => BestInv'
  BY NextBestInv
<1> QED BY <1>1, <1>2, PTL DEF Spec

\* The variables keep their types; in particular the current best is never the
\* "no value" of a column that was not written.
THEOREM TypeCorrect == Spec => []TypeOK
<1>1. BestInv => TypeOK
  BY DEF BestInv
<1> QED BY <1>1, BestInvariant, PTL

\* A run that starts from the tables knows a best at least as good as that of any
\* report that had ended, wherever the process died.
THEOREM BestAlwaysSurvives == Spec => []BestSurvives
<1>1. BestInv => BestSurvives
  BY DEF BestInv
<1> QED BY <1>1, BestInvariant, PTL

\* No step and no restart makes the stored best worse.
THEOREM StoredBestNeverWorse == Spec => NeverWorse
<1>1. ASSUME BestInv, [Next]_vars
      PROVE  [Capped(Read(db'.curr)) <= Capped(Read(db.curr))]_vars
  <2>1. CASE Execute
    BY <2>1, <1>1, ExecuteImproves
  <2>2. CASE ~Execute
    <3>1. db'.curr = db.curr
      <4>1. CASE Record
        BY <1>1, <4>1 DEF Record, BestInv, TypeOK
      <4>2. CASE ~Record
        BY <1>1, <2>2, <4>2
         DEF Next, vars, StartKnown, Started, Receive, Queue, Known, StopSearch, Die, Restart, Finished
      <4> QED BY <4>1, <4>2
    <3>2. Read(db.curr) \in Real \ {NONE}
      BY <1>1, ReadBack DEF BestInv
    <3>3. Capped(Read(db.curr)) \in Int
      BY <3>2, Kinds, CheckpointAssumption DEF Capped, INF
    <3> QED BY <3>1, <3>3
  <2> QED BY <2>1, <2>2
<1> QED BY <1>1, BestInvariant, PTL DEF Spec, NeverWorse

-----------------------------------------------------------------------------
(* The first failure.                                                      *)

\* What the first run holds until something was measured: no earlier bests, which
\* are further from a failed evaluation than any epsilon up to 50 allows.
FirstRunInv ==
  runs = 1 =>
    /\ mem.curr \in 0 .. MAX
    /\ mem.curr = MAX => mem.prev = NONE /\ mem.pprev = NONE
    /\ FailureDoesNotConverge

\* A result keeps it; failed evaluations are the worst there is in the first run.
LEMMA ReportKeepsFirst ==
  ASSUME BestInv, FirstRunInv, phase \in {"starting", "up"},
         NEW f \in Real \ {NONE}, f \in 0 .. MAX, NEW x \in Position, NEW rest,
         Report(f, x, rest), UNCHANGED <<phase, runs>>
  PROVE  FirstRunInv'
<1> SUFFICES ASSUME runs = 1
             PROVE  /\ mem'.curr \in 0 .. MAX
                    /\ mem'.curr = MAX => mem'.prev = NONE /\ mem'.pprev = NONE
                    /\ mem'.stopped => mem'.curr < MAX
  BY DEF FirstRunInv, FailureDoesNotConverge
<1>1. mem' = ShouldStop(f, x)
  BY DEF Report
<1>2. /\ MAX \in Nat /\ Epsilon \in 0 .. 50 /\ f \in Int
      /\ mem.curr \in 0 .. MAX /\ mem.counter \in Nat
      /\ mem.curr = MAX => mem.prev = NONE /\ mem.pprev = NONE
      /\ mem.stopped => mem.curr < MAX
  BY CheckpointAssumption DEF BestInv, TypeOK, Memory, FirstRunInv, FailureDoesNotConverge
<1>3. CASE mem.stopped
  BY <1>1, <1>2, <1>3 DEF ShouldStop
<1>4. CASE ~mem.stopped /\ f > mem.curr
  <2> DEFINE s == mem.counter >= Threshold
  <2>1. mem' = [mem EXCEPT !.counter = mem.counter + 1, !.stopped = s]
    BY <1>1, <1>4 DEF ShouldStop
  <2> HIDE DEF s
  <2>2. mem'.curr = mem.curr /\ mem.curr < MAX
    BY <1>2, <1>4, <2>1 DEF BestInv, TypeOK, Memory
  <2> QED BY <1>2, <2>2
<1>5. CASE ~mem.stopped /\ ~(f > mem.curr)
  <2> DEFINE u == UpdateGlobalBest(f, x)
             s == /\ Close(u.pprev, u.prev, f)
                  /\ Close(u.prev, u.curr, f)
                  /\ Close(u.curr, f, f)
  <2>1. mem' = [u EXCEPT !.counter = 0, !.stopped = s]
    BY <1>1, <1>5 DEF ShouldStop
  <2>2. u \in Memory
    BY DEF BestInv, TypeOK, Memory, UpdateGlobalBest
  <2>3. CASE f < mem.curr
    <3>1. u.curr = f
      BY <1>2, <2>3 DEF UpdateGlobalBest, BestInv, TypeOK, Memory
    <3> HIDE DEF u, s
    <3>2. mem'.curr = f
      BY <2>1, <2>2, <3>1 DEF Memory
    <3> QED BY <1>2, <2>3, <3>2
  <2>4. CASE ~(f < mem.curr)
    <3>1. u = mem /\ f = mem.curr
      BY <1>2, <1>5, <2>4 DEF UpdateGlobalBest
    <3>2. mem.curr = MAX => ~s
      <4>1. SUFFICES ASSUME mem.curr = MAX PROVE ~Close(NONE, MAX, MAX)
        BY <1>2, <3>1
      <4>2. 2 * Epsilon * MAX <= 100 * MAX
        <5>1. \A e \in 0 .. 50, n \in Nat : e * n <= 50 * n
          OBVIOUS
        <5>2. Epsilon * MAX <= 50 * MAX
          BY <1>2, <5>1
        <5> QED BY <1>2, <5>2
      <4> QED BY <1>2, <4>2 DEF Close, Abs, NONE, INF
    <3> HIDE DEF u, s
    <3>3. /\ mem'.curr = mem.curr /\ mem'.prev = mem.prev /\ mem'.pprev = mem.pprev
          /\ mem'.stopped = s
      BY <2>1, <2>2, <3>1 DEF Memory
    <3> QED BY <1>2, <3>2, <3>3
  <2> QED BY <1>2, <1>5, <2>3, <2>4
<1> QED BY <1>3, <1>4, <1>5

\* In the run that creates the tables the search does not converge on a failed
\* evaluation, whatever the measured values, the threshold and an epsilon of 50
\* at most.
THEOREM FirstFailureDoesNotConverge == Spec => []FailureDoesNotConverge
<1>1. Init => FirstRunInv
  <2> SUFFICES ASSUME Init PROVE FirstRunInv
    OBVIOUS
  <2>1. PICK x \in Position : mem = NewRecord(x)
    BY DEF Init
  <2> QED BY <2>1, CheckpointAssumption DEF NewRecord, FirstRunInv, FailureDoesNotConverge
<1>2. BestInv /\ FirstRunInv /\ [Next]_vars => FirstRunInv'
  <2> SUFFICES ASSUME BestInv, FirstRunInv, [Next]_vars PROVE FirstRunInv'
    OBVIOUS
  <2>0. \A f \in Fitness \cup {MAX} \cup Rounded : f \in Real \ {NONE} /\ f \in 0 .. MAX
    BY WrittenFitness, CheckpointAssumption DEF Rounded, Real, NONE
  <2>1. CASE Receive
    <3>1. PICK f \in Fitness \cup {MAX}, x \in Position : Report(f, x, <<>>)
      BY <2>1 DEF Receive
    <3> QED BY <2>0, <2>1, <3>1, ReportKeepsFirst DEF Receive
  <2>2. CASE StartKnown
    <3>1. PICK f \in Fitness, x \in Position : Report(Written(f), x, <<>>)
      BY <2>2 DEF StartKnown
    <3> QED BY <2>0, <2>2, <3>1, ReportKeepsFirst DEF StartKnown, Rounded
  <2>3. CASE Known
    <3>1. PICK f \in Fitness, x \in Position : Report(Written(f), x, Tail(todo))
      BY <2>3 DEF Known
    <3>2. phase \in {"starting", "up"}
      BY <2>3 DEF Known, BestInv, TypeOK, StoredInTime
    <3> QED BY <2>0, <2>3, <3>1, <3>2, ReportKeepsFirst DEF Known, Rounded
  <2>4. CASE StopSearch
    <3>1. /\ mem'.curr = mem.curr /\ mem'.prev = mem.prev /\ mem'.pprev = mem.pprev
          /\ phase' = "stopped" /\ runs' = runs
      BY <2>4 DEF StopSearch, BestInv, TypeOK, Memory
    <3> QED BY <3>1 DEF FirstRunInv, FailureDoesNotConverge
  <2>5. CASE Die
    BY <2>5 DEF Die, FirstRunInv, FailureDoesNotConverge
  <2>6. CASE Restart
    BY <2>6 DEF Restart, FirstRunInv, BestInv, TypeOK
  <2>7. CASE Queue \/ Record \/ Execute \/ UNCHANGED vars
    BY <2>7 DEF Queue, Record, Execute, vars, FirstRunInv, FailureDoesNotConverge
  <2>8. CASE Started
    BY <2>8 DEF Started, FirstRunInv, FailureDoesNotConverge
  <2> QED BY <2>1, <2>2, <2>3, <2>4, <2>5, <2>6, <2>7, <2>8 DEF Next, Finished
<1>3. BestInv /\ FirstRunInv => FailureDoesNotConverge
  <2> SUFFICES ASSUME FirstRunInv PROVE FailureDoesNotConverge
    OBVIOUS
  <2> QED BY DEF FirstRunInv, FailureDoesNotConverge
<1> QED BY <1>1, <1>2, <1>3, BestInvariant, PTL DEF Spec

-----------------------------------------------------------------------------
(* What a checkpoint leaves in the tables.                                 *)

Fields == {"curr", "prev", "pprev", "pos", "counter"}

\* What the statement of a field writes.
Stored(x) == IF x \in {"curr", "prev", "pprev"} THEN Written(mem[x]) ELSE mem[x]

\* A field is as in memory, or its statement is still to come.
Kept == \A x \in Fields : x \in Range(todo) \/ db[x] = Stored(x)

\* The first step, and the others.
LEMMA FirstAndRest ==
  ASSUME NEW s \in Seq(Step), s # <<>>
  PROVE  Range(s) = {Head(s)} \cup Range(Tail(s))
<1>1. /\ Len(s) \in Nat \ {0} /\ Len(Tail(s)) = Len(s) - 1 /\ Head(s) = s[1]
      /\ \A i \in 1 .. Len(Tail(s)) : Tail(s)[i] = s[i + 1]
      /\ Tail(s) \in Seq(Step)
  BY HeadTailProperties, EmptySeq
<1>2. DOMAIN s = 1 .. Len(s) /\ DOMAIN Tail(s) = 1 .. Len(Tail(s))
  BY <1>1, LenProperties
<1>3. ASSUME NEW i \in DOMAIN s PROVE s[i] \in {Head(s)} \cup Range(Tail(s))
  <2>1. CASE i = 1
    BY <1>1, <2>1
  <2>2. CASE i # 1
    <3>1. i - 1 \in DOMAIN Tail(s) /\ Tail(s)[i - 1] = s[i]
      BY <1>1, <1>2, <1>3, <2>2
    <3> QED BY <3>1 DEF Range
  <2> QED BY <2>1, <2>2
<1>4. ASSUME NEW i \in DOMAIN Tail(s) PROVE Tail(s)[i] \in Range(s)
  <2>1. i + 1 \in DOMAIN s /\ Tail(s)[i] = s[i + 1]
    BY <1>1, <1>2, <1>4
  <2> QED BY <2>1 DEF Range
<1>5. Head(s) \in Range(s)
  BY <1>1, <1>2 DEF Range
<1> QED BY <1>3, <1>4, <1>5 DEF Range

\* A checkpoint has a statement for each field.
LEMMA EveryField == Fields \subseteq Range(Statements)
<1>1. /\ 1 \in DOMAIN Statements /\ Statements[1] = "pprev"
      /\ 2 \in DOMAIN Statements /\ Statements[2] = "prev"
      /\ 3 \in DOMAIN Statements /\ Statements[3] = "curr"
      /\ 4 \in DOMAIN Statements /\ Statements[4] = "pos"
      /\ 5 \in DOMAIN Statements /\ Statements[5] = "counter"
  BY DEF Statements
<1> HIDE DEF Statements
<1>2. \A i \in DOMAIN Statements : Statements[i] \in Range(Statements)
  BY DEF Range
<1>3. /\ "pprev" \in Range(Statements) /\ "prev" \in Range(Statements)
      /\ "curr" \in Range(Statements) /\ "pos" \in Range(Statements)
      /\ "counter" \in Range(Statements)
  BY <1>1, <1>2
<1> QED BY <1>3 DEF Fields

\* Every report ends with a checkpoint.
LEMMA ReportStores ==
  ASSUME NEW f, NEW x, NEW rest \in Seq(Step), Report(f, x, rest)
  PROVE  Fields \subseteq Range(todo')
<1> DEFINE m == ShouldStop(f, x)
           listener == IF m.curr # mem.curr THEN Statements ELSE <<>>
           move == IF m.stopped THEN <<>> ELSE <<"move">>
           one == <<"record">>
           a == listener \o move
           b == a \o one
           c == b \o Statements
<1>1. todo' = c \o rest
  BY DEF Report
<1>2. listener \in Seq(Step) /\ move \in Seq(Step) /\ one \in Seq(Step) /\ Statements \in Seq(Step)
  BY Steps
<1> HIDE DEF listener, move, one
<1>3. a \in Seq(Step)
  BY <1>2, ConcatProperties
<1> HIDE DEF a
<1>4. b \in Seq(Step)
  BY <1>2, <1>3, ConcatProperties
<1> HIDE DEF b
<1>5. c \in Seq(Step) /\ Range(c) = Range(b) \cup Range(Statements)
  BY <1>2, <1>4, ConcatProperties, RangeConcatenation
<1> HIDE DEF c
<1>6. Range(c \o rest) = Range(c) \cup Range(rest)
  BY <1>5, RangeConcatenation
<1> QED BY <1>1, <1>5, <1>6, EveryField

\* A statement leaves its field as in memory, and the others alone.
LEMMA ExecuteKeepsFields ==
  ASSUME TypeOK, Kept, Execute
  PROVE  Kept'
<1> DEFINE h == Head(todo)
<1>1. /\ todo # <<>> /\ todo \in Seq(Step) /\ todo' = Tail(todo) /\ mem' = mem /\ h \in Fields
  BY DEF Execute, TypeOK, Fields
<1>2. db' = [db EXCEPT ![h] = Stored(h)]
  BY DEF Execute, Stored
<1>3. DOMAIN db = Fields \cup {"particles"}
  BY DEF TypeOK, Fields
<1>4. Range(todo) = {h} \cup Range(todo')
  BY <1>1, FirstAndRest
<1>5. \A x \in Fields : Stored(x)' = Stored(x)
  BY <1>1 DEF Stored
<1> HIDE DEF h
<1>6. \A x \in Fields : db'[x] = IF x = h THEN Stored(h) ELSE db[x]
  BY <1>1, <1>2, <1>3
<1>7. \A x \in Fields : x \in Range(todo') \/ db'[x] = Stored(x)
  BY <1>4, <1>6 DEF Kept
<1> QED BY <1>5, <1>7 DEF Kept

\* Until the last step of a report, and with it, each field is as in memory or its
\* statement is still to come.
LEMMA StepKeepsFields ==
  ASSUME BestInv, todo # <<>> => Kept, [Next]_vars,
         todo # <<>> \/ todo' # <<>>, phase' # "down"
  PROVE  Kept'
<1>1. todo \in Seq(Step) /\ TypeOK /\ (phase = "down" => todo = <<>>)
  BY DEF BestInv, TypeOK, StoredInTime
<1>2. CASE UNCHANGED vars
  BY <1>2 DEF vars, Kept, Stored
<1>3. CASE \E f, x : \E rest \in Seq(Step) : Report(f, x, rest)
  BY <1>3, ReportStores DEF Kept
<1>4. CASE StartKnown \/ Receive
  <2>1. <<>> \in Seq(Step)
    OBVIOUS
  <2> QED BY <1>3, <1>4, <2>1 DEF StartKnown, Receive
<1>5. CASE Known
  <2>1. Tail(todo) \in Seq(Step)
    BY <1>1, <1>5, Rest DEF Known
  <2> QED BY <1>3, <1>5, <2>1 DEF Known
<1>6. CASE Started
  BY <1>6 DEF Started
<1>7. CASE Queue \/ Record
  <2>1. /\ todo # <<>> /\ todo' = Tail(todo) /\ mem' = mem /\ Head(todo) \notin Fields
        /\ \A x \in Fields : db'[x] = db[x]
    BY <1>1, <1>7 DEF Queue, Record, Fields, TypeOK
  <2>2. Range(todo) = {Head(todo)} \cup Range(todo')
    BY <1>1, <2>1, FirstAndRest
  <2>3. \A x \in Fields : Stored(x)' = Stored(x)
    BY <2>1 DEF Stored
  <2> QED BY <2>1, <2>2, <2>3 DEF Kept
<1>8. CASE Execute
  BY <1>1, <1>8, ExecuteKeepsFields DEF Execute
<1>9. CASE StopSearch
  <2>1. todo' = Statements \o todo
    BY <1>9 DEF StopSearch
  <2>2. Range(Statements \o todo) = Range(Statements) \cup Range(todo)
    BY <1>1, Steps, RangeConcatenation
  <2> QED BY <2>1, <2>2, EveryField DEF Kept
<1>10. CASE Die
  BY <1>10 DEF Die
<1>11. CASE Restart
  BY <1>1, <1>11 DEF Restart
<1>12. CASE Finished
  BY <1>2, <1>12 DEF Finished
<1> QED BY <1>2, <1>4, <1>5, <1>6, <1>7, <1>8, <1>9, <1>10, <1>11, <1>12 DEF Next

\* When the last step of a report has been done, with all the reports nested in it
\* and whatever signals came between them, a run that starts from the tables has
\* the whole record (optimiser.c:160-233, 463-480; data.c:1493-1737).
THEOREM RestartHasEverything == Spec => RestartLosesNothing
<1> DEFINE Saved == todo # <<>> => Kept
           Promise == todo # <<>> /\ todo' = <<>> /\ phase' # "down"
                        => Loaded(db') = [curr |-> Read(Written(mem'.curr)),
                                          prev |-> Read(Written(mem'.prev)),
                                          pprev |-> Read(Written(mem'.pprev)),
                                          pos |-> mem'.pos, counter |-> mem'.counter,
                                          stopped |-> FALSE]
<1>1. Init => Saved
  BY DEF Init
<1>2. BestInv /\ BestInv' /\ Saved /\ [Next]_vars => Saved'
  <2> SUFFICES ASSUME BestInv, BestInv', Saved, [Next]_vars, todo' # <<>> PROVE Kept'
    OBVIOUS
  <2>1. phase' # "down"
    BY DEF BestInv, StoredInTime
  <2> QED BY <2>1, StepKeepsFields
<1>3. BestInv /\ BestInv' /\ Saved /\ [Next]_vars => [Promise]_vars
  <2> SUFFICES ASSUME BestInv, BestInv', Saved, [Next]_vars,
                      todo # <<>>, todo' = <<>>, phase' # "down"
               PROVE  Promise
    OBVIOUS
  <2>1. Kept'
    BY StepKeepsFields
  <2>2. Range(todo') = {}
    BY DEF Range
  <2>3. \A x \in Fields : db'[x] = Stored(x)'
    BY <2>1, <2>2 DEF Kept
  <2>4. /\ db'.curr = Written(mem'.curr) /\ db'.prev = Written(mem'.prev)
        /\ db'.pprev = Written(mem'.pprev) /\ db'.pos = mem'.pos /\ db'.counter = mem'.counter
    BY <2>3 DEF Fields, Stored
  <2>5. mem'.pos # NoRow
    BY CheckpointAssumption DEF BestInv, TypeOK, Memory
  <2> QED BY <2>4, <2>5 DEF Loaded
<1> HIDE DEF Saved
<1>4. BestInv /\ [Next]_vars => BestInv'
  BY NextBestInv
<1> QED BY <1>1, <1>2, <1>3, <1>4, InitBestInv, PTL DEF Spec, RestartLosesNothing, Promise

-----------------------------------------------------------------------------
(* The swarm and its tables are a durable record.                          *)

\* What a statement may have left in the tables.
Back == Rounded \cup {NONE, MAX, INF}

OlderRounded == db.prev \in Back /\ db.pprev \in Back

LEMMA WrittenIsBack == \A v \in Real : Written(v) \in Back
BY Kinds DEF Back

LEMMA OlderStayRounded ==
  ASSUME TypeOK, OlderRounded, [Next]_vars
  PROVE  OlderRounded'
<1>1. CASE Execute
  <2>1. Written(mem.prev) \in Back /\ Written(mem.pprev) \in Back
    BY WrittenIsBack DEF TypeOK, Memory
  <2>2. /\ db'.prev \in {db.prev, Written(mem.prev)}
        /\ db'.pprev \in {db.pprev, Written(mem.pprev)}
    BY <1>1 DEF Execute, TypeOK
  <2> QED BY <2>1, <2>2 DEF OlderRounded
<1>2. CASE Record
  BY <1>2 DEF Record, OlderRounded, TypeOK
<1>3. CASE ~Execute /\ ~Record
  BY <1>3 DEF OlderRounded, Next, vars, StartKnown, Started, Receive, Queue, Known, StopSearch,
              Die, Restart, Finished
<1> QED BY <1>1, <1>2, <1>3

\* A value that came back comes back the same.
LEMMA ComesBackAgain ==
  ASSUME NEW v \in Back
  PROVE  ComesBack(Read(v)) = Capped(Read(v))
<1>1. Written(Read(v)) = Read(v)
  BY ReadBack DEF Back
<1>2. CASE v \in Rounded
  BY <1>1, <1>2, ReadBack DEF ComesBack
<1>3. CASE v \in {NONE, MAX, INF}
  <2>1. MAX \in Nat
    BY CheckpointAssumption
  <2>2. Read(v) \in {MAX, INF} /\ Read(Read(v)) \in {MAX, INF}
    BY <1>3, <2>1 DEF Read, NONE, INF
  <2> QED BY <1>1, <2>1, <2>2 DEF ComesBack, Capped, INF
<1> QED BY <1>2, <1>3 DEF Back

\* Starting again changes nothing.
LEMMA RestartIsHidden ==
  ASSUME TypeOK, OlderRounded, db.curr \in Back, Restart
  PROVE  InMemory' = InTables
<1>1. mem' = Loaded(db)
  BY DEF Restart
<1>2. /\ mem'.curr = Read(db.curr) /\ mem'.prev = Read(db.prev) /\ mem'.pprev = Read(db.pprev)
      /\ mem'.pos = Loaded(db).pos /\ mem'.counter = db.counter
  BY <1>1 DEF Loaded
<1>3. /\ ComesBack(mem'.curr) = Capped(Read(db.curr))
      /\ ComesBack(mem'.prev) = Capped(Read(db.prev))
      /\ ComesBack(mem'.pprev) = Capped(Read(db.pprev))
  BY <1>2, ComesBackAgain DEF OlderRounded
<1> QED BY <1>2, <1>3 DEF InMemory, InTables

\* Failed evaluations are alike, and the order of the others survives rounding.
LEMMA ComesBackInOrder ==
  ASSUME NEW v \in Real \ {NONE}, NEW w \in Real \ {NONE}, v <= w
  PROVE  ComesBack(v) <= ComesBack(w)
<1>1. Written(v) <= Written(w)
  BY Monotone
<1>2. ComesBack(v) = Capped(Written(v)) /\ ComesBack(w) = Capped(Written(w))
  BY StoreAndRead DEF ComesBack
<1>3. Written(v) \in Int /\ Written(w) \in Int /\ MAX \in Nat
  BY Kinds, CheckpointAssumption DEF INF
<1> QED BY <1>1, <1>2, <1>3 DEF Capped

\* A judgement is a report of the durable record.
LEMMA JudgementIsReport ==
  ASSUME TypeOK, NEW f \in Fitness \cup {MAX} \cup Rounded, NEW x \in Position,
         mem' = ShouldStop(f, x), phase # "down", phase' = phase, db' = db, todo' # <<>>
  PROVE  Durable!Report
<1>1. InForce = InMemory /\ InForce' = InMemory' /\ InTables' = InTables
  BY DEF InForce, InTables
<1>2. f \in Real \ {NONE} /\ mem.curr \in Real \ {NONE} /\ f \in Int /\ mem.curr \in Int
  <2>1. f \in Real \ {NONE}
    BY WrittenFitness, CheckpointAssumption DEF Rounded, Real, NONE
  <2>2. mem.curr \in Real \ {NONE}
    BY DEF TypeOK, Memory
  <2>3. \A v \in Real \ {NONE} : v \in Int
    BY Kinds, CheckpointAssumption DEF NONE, INF
  <2> QED BY <2>1, <2>2, <2>3
<1>3. CASE mem.stopped
  <2>1. InMemory' = InMemory
    BY <1>3 DEF ShouldStop, InMemory
  <2> QED BY <1>1, <2>1 DEF Durable!Report, Durable!Ignored
<1>4. CASE ~mem.stopped /\ f > mem.curr
  <2> DEFINE s == mem.counter >= Threshold
  <2>1. mem' = [mem EXCEPT !.counter = mem.counter + 1, !.stopped = s]
    BY <1>4 DEF ShouldStop
  <2> HIDE DEF s
  <2>2. /\ mem'.curr = mem.curr /\ mem'.prev = mem.prev /\ mem'.pprev = mem.pprev
        /\ mem'.pos = mem.pos /\ mem'.counter = mem.counter + 1
    BY <2>1 DEF TypeOK, Memory
  <2>3. InMemory' = [InMemory EXCEPT !.counter = InMemory.counter + 1]
    BY <2>2 DEF InMemory
  <2> QED BY <1>1, <2>3 DEF Durable!Report, Durable!Worse
<1>5. CASE ~mem.stopped /\ ~(f > mem.curr)
  <2> DEFINE u == UpdateGlobalBest(f, x)
             s == /\ Close(u.pprev, u.prev, f)
                  /\ Close(u.prev, u.curr, f)
                  /\ Close(u.curr, f, f)
  <2>1. mem' = [u EXCEPT !.counter = 0, !.stopped = s]
    BY <1>5 DEF ShouldStop
  <2>2. u \in Memory
    BY <1>2 DEF TypeOK, Memory, UpdateGlobalBest
  <2>3. u = IF f < mem.curr
            THEN [mem EXCEPT !.pprev = mem.prev, !.prev = mem.curr, !.curr = f, !.pos = x]
            ELSE mem
    BY <1>2 DEF UpdateGlobalBest
  <2> HIDE DEF u, s
  <2>4. /\ mem'.curr = u.curr /\ mem'.prev = u.prev /\ mem'.pprev = u.pprev
        /\ mem'.pos = u.pos /\ mem'.counter = 0
    BY <2>1, <2>2 DEF Memory
  <2>5. CASE f < mem.curr
    <3>1. /\ mem'.curr = f /\ mem'.prev = mem.curr /\ mem'.pprev = mem.prev
          /\ mem'.pos = x /\ mem'.counter = 0
      BY <2>3, <2>4, <2>5 DEF TypeOK, Memory
    <3>2. ComesBack(f) <= InMemory.curr
      BY <1>2, <2>5, ComesBackInOrder DEF InMemory
    <3>3. ComesBack(f) \in {ComesBack(g) : g \in Fitness \cup {MAX}}
      <4>1. CASE f \in Rounded
        <5>1. PICK g \in Fitness : f = Written(g)
          BY <4>1 DEF Rounded
        <5>2. ComesBack(f) = ComesBack(g)
          BY <5>1, WrittenFitness DEF ComesBack
        <5> QED BY <5>2
      <4> QED BY <4>1
    <3>4. InMemory' = [curr |-> ComesBack(f), prev |-> InMemory.curr, pprev |-> InMemory.prev,
                       pos |-> x, counter |-> 0]
      BY <3>1 DEF InMemory
    <3>5. Durable!Better(ComesBack(f), x)
      BY <1>1, <3>2, <3>4 DEF Durable!Better
    <3> QED BY <1>1, <3>3, <3>5 DEF Durable!Report
  <2>6. CASE ~(f < mem.curr)
    <3>1. InMemory' = [InMemory EXCEPT !.counter = 0]
      BY <2>3, <2>4, <2>6 DEF InMemory
    <3> QED BY <1>1, <3>1 DEF Durable!Report, Durable!Equal
  <2> QED BY <2>5, <2>6
<1> QED BY <1>3, <1>4, <1>5

\* When nothing is left to do the tables have the record.
LEMMA AllKept ==
  ASSUME TypeOK', Kept', todo' = <<>>
  PROVE  InTables' = InMemory'
<1>1. Range(todo') = {}
  BY DEF Range
<1>2. \A x \in Fields : db'[x] = Stored(x)'
  BY <1>1 DEF Kept
<1>3. /\ db'.curr = Written(mem'.curr) /\ db'.prev = Written(mem'.prev)
      /\ db'.pprev = Written(mem'.pprev) /\ db'.pos = mem'.pos /\ db'.counter = mem'.counter
  BY <1>2 DEF Fields, Stored
<1>4. mem'.pos # NoRow
  BY CheckpointAssumption DEF TypeOK, Memory
<1> QED BY <1>3, <1>4 DEF InTables, InMemory, Loaded, ComesBack

\* A statement stores its field.
LEMMA StatementSaves ==
  ASSUME TypeOK, Execute
  PROVE  InTables' = [InTables EXCEPT ![Head(todo)] = InMemory[Head(todo)]]
<1>1. mem.pos # NoRow
  BY CheckpointAssumption DEF TypeOK, Memory
<1>2. CASE Head(todo) \in {"curr", "prev", "pprev"}
  <2>1. db' = [db EXCEPT ![Head(todo)] = Written(mem[Head(todo)])]
    BY <1>2 DEF Execute
  <2>2. CASE Head(todo) = "curr"
    BY <2>1, <2>2 DEF TypeOK, InTables, InMemory, Loaded, ComesBack
  <2>3. CASE Head(todo) = "prev"
    BY <2>1, <2>3 DEF TypeOK, InTables, InMemory, Loaded, ComesBack
  <2>4. CASE Head(todo) = "pprev"
    BY <2>1, <2>4 DEF TypeOK, InTables, InMemory, Loaded, ComesBack
  <2> QED BY <1>2, <2>2, <2>3, <2>4
<1>3. CASE Head(todo) \in {"pos", "counter"}
  <2>1. db' = [db EXCEPT ![Head(todo)] = mem[Head(todo)]]
    BY <1>3 DEF Execute
  <2>2. CASE Head(todo) = "pos"
    BY <1>1, <2>1, <2>2 DEF TypeOK, InTables, InMemory, Loaded
  <2>3. CASE Head(todo) = "counter"
    BY <2>1, <2>3 DEF TypeOK, InTables, InMemory, Loaded
  <2> QED BY <1>3, <2>2, <2>3
<1> QED BY <1>2, <1>3 DEF Execute

LEMMA StepIsRecordStep ==
  ASSUME BestInv, BestInv', todo # <<>> => Kept, OlderRounded, [Next]_vars
  PROVE  [Durable!Next]_(Durable!recordVars)
<1> DEFINE Stutters == UNCHANGED <<InForce, InTables, todo # <<>>>>
<1>0. TypeOK /\ todo \in Seq(Step) /\ (todo # <<>> => phase # "down")
  BY DEF BestInv, TypeOK, StoredInTime
<1>1. Stutters => UNCHANGED Durable!recordVars
  BY DEF Durable!recordVars
<1>2. ASSUME todo # <<>>, phase' # "down", todo' = <<>>
      PROVE  InForce' = InTables'
  <2>1. Kept'
    BY <1>2, StepKeepsFields
  <2>2. TypeOK'
    BY DEF BestInv
  <2> QED BY <1>2, <2>1, <2>2, AllKept DEF InForce
<1>3. ASSUME NEW f \in Fitness \cup {MAX} \cup Rounded, NEW x \in Position,
             NEW rest \in Seq(Step), Report(f, x, rest), phase # "down",
             UNCHANGED <<db, phase>>
      PROVE  Durable!Next
  <2>1. todo' # <<>>
    <3>1. "curr" \in Range(todo')
      BY <1>3, ReportStores DEF Fields
    <3> QED BY <3>1 DEF Range
  <2>2. mem' = ShouldStop(f, x)
    BY <1>3 DEF Report
  <2> QED BY <1>0, <1>3, <2>1, <2>2, JudgementIsReport DEF Durable!Next
<1>4. CASE StartKnown
  <2>1. PICK f \in Fitness, x \in Position : Report(Written(f), x, <<>>)
    BY <1>4 DEF StartKnown
  <2>2. Written(f) \in Rounded /\ <<>> \in Seq(Step)
    BY DEF Rounded
  <2> QED BY <1>3, <1>4, <2>1, <2>2 DEF StartKnown
<1>5. CASE Receive
  <2>1. PICK f \in Fitness \cup {MAX}, x \in Position : Report(f, x, <<>>)
    BY <1>5 DEF Receive
  <2>2. <<>> \in Seq(Step)
    OBVIOUS
  <2> QED BY <1>3, <1>5, <2>1, <2>2 DEF Receive
<1>6. CASE Known
  <2>1. PICK f \in Fitness, x \in Position : Report(Written(f), x, Tail(todo))
    BY <1>6 DEF Known
  <2>2. Written(f) \in Rounded /\ Tail(todo) \in Seq(Step) /\ phase # "down"
    BY <1>0, <1>6, Rest DEF Known, Rounded
  <2> QED BY <1>3, <1>6, <2>1, <2>2 DEF Known
<1>7. CASE Started
  <2>1. Stutters
    BY <1>7 DEF Started, InForce, InTables, InMemory
  <2> QED BY <1>1, <2>1
<1>8. CASE Queue \/ Record
  <2>1. /\ todo # <<>> /\ mem' = mem /\ phase' = phase /\ phase # "down"
        /\ \A x \in Fields : db'[x] = db[x]
    BY <1>0, <1>8 DEF Queue, Record, Fields, TypeOK
  <2>2. InMemory' = InMemory /\ InTables' = InTables
    BY <2>1 DEF Fields, InMemory, InTables, Loaded
  <2>3. InForce' = InForce
    BY <2>1, <2>2 DEF InForce
  <2>4. CASE todo' # <<>>
    BY <1>1, <2>1, <2>2, <2>3, <2>4
  <2>5. CASE todo' = <<>>
    <3>1. InForce = InTables
      BY <1>2, <2>1, <2>2, <2>3, <2>5
    <3>2. "curr" \in DOMAIN InTables /\ InTables = [InTables EXCEPT !["curr"] = InTables["curr"]]
      BY DEF InTables
    <3>3. Durable!Save
      BY <2>1, <2>2, <2>3, <2>5, <3>1, <3>2 DEF Durable!Save
    <3> QED BY <3>3 DEF Durable!Next
  <2> QED BY <2>4, <2>5
<1>9. CASE Execute
  <2>1. todo # <<>> /\ mem' = mem /\ phase' = phase /\ phase # "down" /\ Head(todo) \in Fields
    BY <1>0, <1>9 DEF Execute, Fields
  <2>2. InForce = InMemory /\ InForce' = InForce
    BY <2>1 DEF InForce, InMemory
  <2>3. DOMAIN InForce = Fields
    BY <2>2 DEF InMemory, Fields
  <2>4. InTables' = [InTables EXCEPT ![Head(todo)] = InForce[Head(todo)]]
    BY <1>0, <1>9, <2>2, StatementSaves
  <2>5. todo' = <<>> => InTables' = InForce
    BY <1>2, <2>1, <2>2
  <2>6. Durable!Save
    BY <2>1, <2>2, <2>3, <2>4, <2>5 DEF Durable!Save
  <2> QED BY <2>6 DEF Durable!Next
<1>10. CASE StopSearch
  <2>1. /\ phase # "down" /\ phase' # "down" /\ db' = db
        /\ mem' = [mem EXCEPT !.stopped = TRUE] /\ todo' = Statements \o todo
    BY <1>10 DEF StopSearch
  <2>2. InMemory' = InMemory /\ InTables' = InTables
    BY <1>0, <2>1 DEF TypeOK, Memory, InMemory, InTables
  <2>3. todo' # <<>>
    <3>1. Range(todo') = Range(Statements) \cup Range(todo)
      BY <1>0, <2>1, Steps, RangeConcatenation
    <3>2. "curr" \in Range(todo')
      BY <3>1, EveryField DEF Fields
    <3> QED BY <3>2 DEF Range
  <2>4. Durable!Report
    BY <2>1, <2>2, <2>3 DEF InForce, Durable!Report, Durable!Ignored
  <2> QED BY <2>4 DEF Durable!Next
<1>11. CASE Die
  <2>1. InForce' = InTables' /\ InTables' = InTables /\ todo' = <<>>
    BY <1>11 DEF Die, InForce, InTables
  <2>2. Durable!Death
    BY <2>1 DEF Durable!Death
  <2> QED BY <2>2 DEF Durable!Next
<1>12. CASE Restart
  <2>1. /\ phase = "down" /\ phase' # "down" /\ UNCHANGED <<db, todo>>
    BY <1>12 DEF Restart
  <2>2. InMemory' = InTables /\ InTables' = InTables
    BY <1>0, <1>12, <2>1, RestartIsHidden DEF BestInv, Back, InTables
  <2>3. Stutters
    BY <2>1, <2>2 DEF InForce
  <2> QED BY <1>1, <2>3
<1>13. CASE UNCHANGED vars
  <2>1. Stutters
    BY <1>13 DEF vars, InForce, InTables, InMemory
  <2> QED BY <1>1, <2>1
<1> HIDE DEF Stutters
<1> QED BY <1>4, <1>5, <1>6, <1>7, <1>8, <1>9, <1>10, <1>11, <1>12, <1>13 DEF Next, Finished

LEMMA InitIsRecordInit == Init => Durable!Init
<1> SUFFICES ASSUME Init PROVE Durable!Init
  OBVIOUS
<1>1. PICK x \in Position : mem = NewRecord(x)
  BY DEF Init
<1>2. MAX \in Nat /\ todo = <<>> /\ phase = "up"
  BY CheckpointAssumption DEF Init
<1>3. ComesBack(MAX) = MAX /\ ComesBack(NONE) = MAX /\ Capped(Read(NONE)) = MAX
  BY <1>2 DEF ComesBack, Capped, Read, Written, NONE, INF
<1>4. InForce = Durable!Blank(x)
  BY <1>1, <1>2, <1>3 DEF InForce, InMemory, NewRecord, Durable!Blank
<1>5. InTables = Durable!Blank(Origin)
  BY <1>3 DEF Init, InTables, Loaded, Durable!Blank
<1> QED BY <1>2, <1>4, <1>5 DEF Durable!Init

\* Whatever fitness is measured, however reports nest and whenever signals and deaths
\* come, swarm and tables are one record that outlives the process: a death forgets
\* only what was still being stored, and starting again changes nothing
\* (spso.c:307-354, optimiser.c:160-233, 463-480; data.c:1493-1737).
THEOREM CheckpointRefinesRecord == Spec => ImplementsRecord
<1> DEFINE Saved == todo # <<>> => Kept
<1>1. Init => Saved /\ OlderRounded
  BY DEF Init, OlderRounded, Back
<1>2. BestInv /\ BestInv' /\ Saved /\ [Next]_vars => Saved'
  <2> SUFFICES ASSUME BestInv, BestInv', Saved, [Next]_vars, todo' # <<>> PROVE Kept'
    OBVIOUS
  <2>1. phase' # "down"
    BY DEF BestInv, StoredInTime
  <2> QED BY <2>1, StepKeepsFields
<1>3. BestInv /\ OlderRounded /\ [Next]_vars => OlderRounded'
  BY OlderStayRounded DEF BestInv
<1>4. BestInv /\ BestInv' /\ Saved /\ OlderRounded /\ [Next]_vars
        => [Durable!Next]_(Durable!recordVars)
  BY StepIsRecordStep
<1> HIDE DEF Saved
<1>5. BestInv /\ [Next]_vars => BestInv'
  BY NextBestInv
<1> QED BY <1>1, <1>2, <1>3, <1>4, <1>5, InitBestInv, InitIsRecordInit, PTL
        DEF Spec, ImplementsRecord, Durable!Spec
=============================================================================

----------------------------- MODULE RunnerProofs -----------------------------
(***************************************************************************)
(* Proofs about Runner for any number of cases, repetitions, modes, turns, *)
(* sessions and stray handlers, and any lists of calls.  The schedules are *)
(* shown to visit every cell, by division; a report's spending to grow by  *)
(* its records, by induction over a sequence in the form of least          *)
(* counterexamples; and the invariant relates the session to the disk      *)
(* (WalkInv, DiskInv), what has begun to what is marked or recorded        *)
(* (OnceInv), the handlers to the calls (CallsInv) and the calls of the    *)
(* model to what is accounted for (SpendInv).                              *)
(***************************************************************************)
EXTENDS Runner, FiniteSetTheorems, SequenceTheorems, WellFoundedInduction, TLAPS

\* The steps of a session, the handlers of a provider and a conversation.
Stages == {"down", "boundary", "reset", "connect", "calls", "model", "asked", "report", "save"}
Handler == [cell : Nat, session : Nat, turn : Nat, call : Nat \ {0}]
Talk == [turn : Nat, calls : Seq({"read", "write"}), next : Nat \ {0}, awaited : SUBSET Handler,
         made : Nat, stop : BOOLEAN, expired : BOOLEAN]

\* Every variable holds what its declaration says; a report only while a session runs.
TypeOK ==
    /\ version \in Versions
    /\ pc \in Stages
    /\ cell \in Nat
    /\ talk \in Talk
    /\ host \in [uncertain : BOOLEAN, running : SUBSET Handler]
    /\ past \in [spent : Nat, sessions : Nat, given : Nat, stray : SUBSET Handler,
                 begun : [DOMAIN Plan -> Nat]]
    /\ disk # None => disk \in Report
    /\ pc # "down" => report \in Report

\* A handler belongs to a call that has been made: of an earlier session, of an earlier cell
\* of this one, or of this cell and before the next call.
Behind(h) ==
    \/ h.session < past.sessions
    \/ /\ h.session = past.sessions
       /\ pc # "down" => \/ h.cell < cell
                         \/ h.cell = cell /\ h.turn < talk.turn
                         \/ h.cell = cell /\ h.turn = talk.turn /\ h.call < talk.next

\* Two calls that are awaited together.
Neighbours(g, h) ==
    /\ version # "v2"
    /\ talk.calls[g.call] = "read" /\ talk.calls[h.call] = "read"
    /\ h.call - g.call < MaxConcurrent
    /\ \A i \in g.call..h.call : talk.calls[i] = "read"

\* The handlers that run are those the client awaits and those it gave up.
CallsInv ==
    /\ past.stray \subseteq host.running
    /\ talk.awaited = host.running \ past.stray
    /\ pc # "calls" => talk.awaited = {}
    /\ pc \in {"down", "boundary", "reset", "connect"} => talk = NoTalk
    /\ \A h \in host.running : Behind(h)
    /\ \A h \in talk.awaited : h.cell = cell /\ h.turn = talk.turn
    /\ \A g, h \in talk.awaited : g # h => Neighbours(g, h)

\* The cells of the plan.
PlanCells == {Plan[n] : n \in DOMAIN Plan}

\* A report records no cell twice and only planned ones.
Sound(r) ==
    /\ Recorded(r) \subseteq PlanCells
    /\ IsFiniteSet(Recorded(r))
    /\ Cardinality(Recorded(r)) = Len(r.records)

\* The session has recorded every cell before the one it is at and, once it has begun
\* that one, not yet this one; what it knows is what the disk holds.
WalkInv ==
    pc # "down" =>
        /\ cell \in 1..Len(Plan) + 1
        /\ pc # "boundary" => cell <= Len(Plan) /\ Plan[cell] \notin Recorded(report)
        /\ \A n \in 1..cell - 1 : Plan[n] \in Recorded(report)
        /\ Sound(report)
        /\ ~report.complete
        /\ report.active = IF version = "v3p2" /\ pc # "boundary" THEN Plan[cell] ELSE None
        /\ disk = None => report.records = <<>> /\ (version = "v3p2" => pc = "boundary")
        /\ disk # None => disk = report

\* What is on disk is sound, and says it is complete only when it is.
DiskInv ==
    disk # None => /\ Sound(disk)
                   /\ disk.complete => PlanCells \subseteq Recorded(disk)

\* In part 2 a cell that has begun is recorded, or marked in the report on disk.
OnceInv ==
    version = "v3p2" =>
        /\ disk # None => Recorded(disk) \subseteq files
        /\ pc = "save" => Plan[cell] \in files
        /\ pc = "reset" => past.begun[cell] = 0
        /\ \A n \in DOMAIN Plan : past.begun[n] > 0 =>
              /\ past.begun[n] = 1
              /\ disk # None
              /\ Plan[n] \in Recorded(disk) \/ disk.active = Plan[n]

\* What the report on disk accounts for, and what it does not: in part 2 the cell that is
\* marked, before it the cells that were given up.
Saved == IF disk = None THEN 0 ELSE Spent(disk)
Marked == disk # None /\ disk.active # None
Lost == IF version # "v3p2" THEN Turns * past.given
        ELSE IF pc = "down" /\ Marked THEN Turns ELSE 0

\* A conversation makes one call a turn and the limit was not reached when its cell began.
SpendInv ==
    /\ talk.turn <= Turns /\ talk.made <= Turns
    /\ pc \in {"calls", "model"} => talk.made = talk.turn
    /\ pc = "model" => talk.turn < Turns
    /\ pc = "asked" => talk.made = talk.turn + 1
    /\ Saved < MaxModelCalls + Turns
    /\ pc \notin {"down", "boundary"} \/ Marked => Saved < MaxModelCalls
    /\ past.spent <= Saved + talk.made + Lost

\* Together they are inductive.
IInv == TypeOK /\ CallsInv /\ WalkInv /\ DiskInv /\ OnceInv /\ SpendInv

-----------------------------------------------------------------------------
(* The plan *)

\* A multiple of a positive number by a positive one is not less than it.
LEMMA ProductGrows ==
    ASSUME NEW d \in Nat \ {0}, NEW k \in Int, k >= 1 PROVE d * k >= d
OBVIOUS

\* Quotient and remainder as the schedules use them.
LEMMA DivisionParts ==
    ASSUME NEW d \in Nat \ {0}, NEW n \in Int
    PROVE  n % d \in 0..d - 1 /\ n \div d \in Int /\ n = d * (n \div d) + (n % d)
OBVIOUS

\* They are the only such pair.
LEMMA DivisionUnique ==
    ASSUME NEW d \in Nat \ {0}, NEW q \in Int, NEW b \in 0..d - 1
    PROVE  (d * q + b) \div d = q /\ (d * q + b) % d = b
<1> DEFINE n == d * q + b
           p == n \div d
           c == n % d
<1>0. n \in Int OBVIOUS
<1>1. p \in Int /\ c \in 0..d - 1 /\ n = d * p + c BY <1>0, DivisionParts
<1> HIDE DEF p, c
<1>2. d * (p - q) = b - c BY <1>1
<1>3. ~(p - q >= 1) BY <1>1, <1>2, ProductGrows
<1>4. d * (q - p) = c - b BY <1>1
<1>5. ~(q - p >= 1) BY <1>1, <1>4, ProductGrows
<1>6. p = q BY <1>1, <1>3, <1>5
<1>7. c = b BY <1>1, <1>6
<1> QED BY <1>6, <1>7 DEF p, c

\* For some b below d, b moved by k lands on c.
LEMMA Rotation ==
    ASSUME NEW d \in Nat \ {0}, NEW k \in Int, NEW c \in 0..d - 1
    PROVE  \E b \in 0..d - 1 : (b + k) % d = c
<1>1. PICK m \in Int : m = c - k OBVIOUS
<1> DEFINE b == m % d
           q == m \div d
<1>2. b \in 0..d - 1 /\ q \in Int /\ m = d * q + b BY DivisionParts
<1> HIDE DEF b, q
<1>3. b + k = d * (0 - q) + c BY <1>1, <1>2
<1>4. 0 - q \in Int BY <1>2
<1>5. (d * (0 - q) + c) % d = c BY <1>4, DivisionUnique
<1> QED BY <1>2, <1>3, <1>5

\* A quotient is below m when its numerator is below d * m, and not negative when that is not.
LEMMA QuotientBounds ==
    ASSUME NEW d \in Nat \ {0}, NEW m \in Nat, NEW n \in Nat, n < d * m
    PROVE  n \div d \in 0..m - 1
<1> DEFINE q == n \div d
           b == n % d
<1>1. q \in Int /\ b \in 0..d - 1 /\ n = d * q + b BY DivisionParts
<1> HIDE DEF q, b
<1>2. ~(q >= m)
  <2>1. SUFFICES ASSUME q - m >= 0 PROVE FALSE BY <1>1
  <2>2. d * (q - m) >= 0 BY <1>1, <2>1
  <2>3. n - d * m = d * (q - m) + b BY <1>1
  <2> QED BY <1>1, <2>2, <2>3
<1>3. ~(q <= -1)
  <2>1. SUFFICES ASSUME 0 - q >= 1 PROVE FALSE BY <1>1
  <2>2. d * (0 - q) >= d BY <1>1, <2>1, ProductGrows
  <2> QED BY <1>1, <2>2
<1> QED BY <1>1, <1>2, <1>3 DEF q

\* A pair of digits makes a number below the product, for the schedules' positions.
LEMMA DigitBounds ==
    ASSUME NEW d \in Nat \ {0}, NEW m \in Nat, NEW q \in 0..m - 1, NEW b \in 0..d - 1
    PROVE  d * q + b \in 0..d * m - 1
<1>1. d * (m - q) >= d BY ProductGrows
<1>2. d * m - d * q >= d BY <1>1
<1>3. d * q >= 0 OBVIOUS
<1> QED BY <1>2, <1>3

\* Every cell a version plans: each case with each mode, in part 2 each time again.
Everything ==
    [case : 0..Cases - 1, mode : ToSet(Modes[version]),
     repeat : 0..(IF version = "v3p2" THEN Repetitions - 1 ELSE 0)]

\* The schedule of v2 and v3 visits every case in every mode and nothing else.
LEMMA ScheduleIsFull ==
    ASSUME version \in Versions
    PROVE  \E N \in Nat :
              /\ DOMAIN Schedule = 1..N
              /\ {Schedule[n] : n \in 1..N} =
                    [case : 0..Cases - 1, mode : ToSet(Modes[version]), repeat : {0}]
<1> DEFINE modes == Modes[version]
           per == Len(modes)
           N == Cases * per
           All == [case : 0..Cases - 1, mode : ToSet(modes), repeat : {0}]
           Case(n) == (n - 1) \div per
           Index(n) == ((Case(n) + ((n - 1) % per)) % per) + 1
           At(n) == [case |-> Case(n), repeat |-> 0, mode |-> modes[Index(n)]]
<1>1. Cases \in Nat \ {0} /\ modes \in Seq(STRING) /\ modes # <<>>
  BY RunnerAssumption
<1>2. per \in Nat \ {0} /\ DOMAIN modes = 1..per
  BY <1>1, EmptySeq, LenProperties
<1>3. N \in Nat BY <1>1, <1>2
<1>4. Schedule = [n \in 1..N |-> At(n)] BY DEF Schedule
<1>5. ToSet(modes) = {modes[i] : i \in 1..per} BY <1>2 DEF ToSet
<1> HIDE DEF modes, per
<1>6. ASSUME NEW n \in 1..N PROVE At(n) \in All
  <2>1. n - 1 \in Nat /\ n - 1 < per * Cases BY <1>1, <1>2, <1>3
  <2>2. Case(n) \in 0..Cases - 1 BY <1>1, <1>2, <2>1, QuotientBounds
  <2>3. (n - 1) % per \in 0..per - 1 BY <1>2, <2>1, DivisionParts
  <2> HIDE DEF Case
  <2>4. Case(n) + ((n - 1) % per) \in Int BY <2>2, <2>3
  <2>5. Index(n) \in 1..per
    <3>1. (Case(n) + ((n - 1) % per)) % per \in 0..per - 1 BY <1>2, <2>4, DivisionParts
    <3> QED BY <1>2, <3>1
  <2> HIDE DEF Index
  <2> QED BY <1>5, <2>2, <2>5
<1>7. ASSUME NEW e \in All PROVE \E n \in 1..N : At(n) = e
  <2>1. e.case \in 0..Cases - 1 /\ e.repeat = 0
        /\ e = [case |-> e.case, repeat |-> 0, mode |-> e.mode]
    BY <1>1
  <2>2. PICK k \in 1..per : e.mode = modes[k] BY <1>5
  <2>3. PICK b \in 0..per - 1 : (b + e.case) % per = k - 1
    <3>1. k - 1 \in 0..per - 1 /\ e.case \in Int BY <1>1, <1>2, <2>1
    <3> QED BY <1>2, <3>1, Rotation
  <2> DEFINE n == per * e.case + b + 1
  <2>4. n \in 1..N
    <3>1. per * e.case + b \in 0..per * Cases - 1 BY <1>1, <1>2, <2>1, DigitBounds
    <3> QED BY <1>1, <1>2, <3>1
  <2>5. n - 1 = per * e.case + b BY <1>1, <1>2, <2>1
  <2>6. (n - 1) \div per = e.case /\ (n - 1) % per = b
    <3>1. e.case \in Int BY <1>1, <2>1
    <3> HIDE DEF n
    <3> QED BY <1>2, <2>5, <3>1, DivisionUnique
  <2> HIDE DEF n
  <2>7. e.case + b = b + e.case BY <1>1, <1>2, <2>1
  <2>8. Index(n) = k BY <2>3, <2>6, <2>7, <1>2
  <2> QED BY <2>1, <2>2, <2>4, <2>6, <2>8
<1> HIDE DEF At, All, N
<1>8. {Schedule[n] : n \in 1..N} = All BY <1>4, <1>6, <1>7
<1> QED BY <1>3, <1>4, <1>8 DEF All, modes

\* That of part 2 does so in every repetition.
LEMMA RepeatedScheduleIsFull ==
    \E N \in Nat :
       /\ DOMAIN RepeatedSchedule = 1..N
       /\ {RepeatedSchedule[n] : n \in 1..N} =
             [case : 0..Cases - 1, mode : ToSet(Modes["v3p2"]), repeat : 0..Repetitions - 1]
<1> DEFINE modes == Modes["v3p2"]
           per == Len(modes)
           size == Cases * per
           N == Repetitions * Cases * per
           All == [case : 0..Cases - 1, mode : ToSet(modes), repeat : 0..Repetitions - 1]
           Repeat(n) == (n - 1) \div size
           Block(n) == ((n - 1) \div per) % Cases
           Case(n) == (Block(n) + Repeat(n) * 7) % Cases
           Index(n) == ((Case(n) + Repeat(n) + ((n - 1) % per)) % per) + 1
           At(n) == [case |-> Case(n), repeat |-> Repeat(n), mode |-> modes[Index(n)]]
<1>1. Cases \in Nat \ {0} /\ Repetitions \in Nat \ {0} /\ modes \in Seq(STRING) /\ modes # <<>>
  BY RunnerAssumption DEF Versions
<1>2. per \in Nat \ {0} /\ DOMAIN modes = 1..per
  BY <1>1, EmptySeq, LenProperties
<1>3. RepeatedSchedule = [n \in 1..N |-> At(n)] BY DEF RepeatedSchedule
<1>4. ToSet(modes) = {modes[i] : i \in 1..per} BY <1>2 DEF ToSet
<1> HIDE DEF modes, per
<1>5. /\ size \in Nat \ {0} /\ N \in Nat
      /\ N = size * Repetitions
  <2>1. size \in Nat /\ size >= per BY <1>1, <1>2, ProductGrows
  <2>2. N = size * Repetitions BY <1>1, <1>2
  <2> QED BY <1>1, <1>2, <2>1, <2>2
<1> HIDE DEF size, N
<1>6. ASSUME NEW n \in 1..N PROVE At(n) \in All
  <2>1. n - 1 \in Nat /\ n - 1 < size * Repetitions BY <1>5
  <2>2. Repeat(n) \in 0..Repetitions - 1 BY <1>1, <1>5, <2>1, QuotientBounds
  <2>3. (n - 1) % per \in 0..per - 1 /\ (n - 1) \div per \in Int BY <1>2, <2>1, DivisionParts
  <2>4. Block(n) \in 0..Cases - 1 BY <1>1, <2>3, DivisionParts
  <2> HIDE DEF Repeat, Block
  <2>5. Block(n) + Repeat(n) * 7 \in Int BY <2>2, <2>4
  <2>6. Case(n) \in 0..Cases - 1 BY <1>1, <2>5, DivisionParts
  <2> HIDE DEF Case
  <2>7. Case(n) + Repeat(n) + ((n - 1) % per) \in Int BY <2>2, <2>3, <2>6
  <2>8. Index(n) \in 1..per
    <3>1. (Case(n) + Repeat(n) + ((n - 1) % per)) % per \in 0..per - 1
      BY <1>2, <2>7, DivisionParts
    <3> QED BY <1>2, <3>1
  <2> HIDE DEF Index
  <2> QED BY <1>4, <2>2, <2>6, <2>8
<1>7. ASSUME NEW e \in All PROVE \E n \in 1..N : At(n) = e
  <2>1. e.case \in 0..Cases - 1 /\ e.repeat \in 0..Repetitions - 1
        /\ e = [case |-> e.case, repeat |-> e.repeat, mode |-> e.mode]
    OBVIOUS
  <2>2. PICK k \in 1..per : e.mode = modes[k] BY <1>4
  <2>3. PICK block \in 0..Cases - 1 : (block + e.repeat * 7) % Cases = e.case
    <3>1. e.repeat * 7 \in Int BY <1>1, <2>1
    <3> QED BY <1>1, <2>1, <3>1, Rotation
  <2>4. PICK b \in 0..per - 1 : (b + (e.case + e.repeat)) % per = k - 1
    <3>1. k - 1 \in 0..per - 1 /\ e.case + e.repeat \in Int BY <1>1, <1>2, <2>1
    <3> QED BY <1>2, <3>1, Rotation
  <2> DEFINE low == per * block + b
             n == size * e.repeat + low + 1
             high == Cases * e.repeat + block
  <2>5. low \in 0..size - 1
    <3>1. low \in 0..per * Cases - 1 BY <1>1, <1>2, DigitBounds
    <3>2. size = per * Cases BY <1>1, <1>2 DEF size
    <3> QED BY <3>1, <3>2
  <2>6. high \in Int BY <1>1, <2>1
  <2>7. size * e.repeat + low = per * high + b
    <3>1. size * e.repeat = per * (Cases * e.repeat) BY <1>1, <1>2, <2>1 DEF size
    <3>2. per * high = per * (Cases * e.repeat) + per * block BY <1>1, <1>2, <2>1
    <3> QED BY <1>1, <1>2, <2>1, <3>1, <3>2
  <2>8. high \div Cases = e.repeat /\ high % Cases = block
    <3>1. e.repeat \in Int BY <1>1, <2>1
    <3> QED BY <1>1, <3>1, DivisionUnique
  <2>9. n \in 1..N /\ n - 1 = size * e.repeat + low
    <3> HIDE DEF low
    <3>1. size * e.repeat + low \in 0..size * Repetitions - 1
      BY <1>1, <1>5, <2>1, <2>5, DigitBounds
    <3> QED BY <1>1, <1>5, <3>1, <2>5
  <2> HIDE DEF n
  <2>10. Repeat(n) = e.repeat
    <3>1. e.repeat \in Int BY <1>1, <2>1
    <3> HIDE DEF low
    <3> QED BY <1>5, <2>5, <2>9, <3>1, DivisionUnique
  <2>11. (n - 1) \div per = high /\ (n - 1) % per = b
    <3> HIDE DEF low, high
    <3>1. (per * high + b) \div per = high /\ (per * high + b) % per = b
      BY <1>2, <2>6, DivisionUnique
    <3>2. n - 1 = per * high + b BY <2>7, <2>9
    <3> QED BY <3>1, <3>2
  <2>12. Case(n) = e.case BY <2>3, <2>8, <2>10, <2>11
  <2>13. e.case + e.repeat + b = b + (e.case + e.repeat) BY <1>1, <1>2, <2>1
  <2> HIDE DEF Case, Repeat
  <2>14. Index(n) = k BY <1>2, <2>4, <2>10, <2>11, <2>12, <2>13
  <2> HIDE DEF Index
  <2> QED BY <2>1, <2>2, <2>9, <2>10, <2>12, <2>14
<1> HIDE DEF At, All
<1>8. {RepeatedSchedule[n] : n \in 1..N} = All BY <1>3, <1>6, <1>7
<1> QED BY <1>3, <1>5, <1>8 DEF All, modes

\* The plan is a sequence that visits exactly the cells of the version.
LEMMA PlanIsFull ==
    ASSUME version \in Versions
    PROVE  /\ Len(Plan) \in Nat /\ DOMAIN Plan = 1..Len(Plan)
           /\ PlanCells = Everything
           /\ PlanCells \subseteq Cell
           /\ \A n \in 1..Len(Plan) : Plan[n] \in PlanCells
<1>1. \E N \in Nat : DOMAIN Plan = 1..N /\ {Plan[n] : n \in 1..N} = Everything
  <2>1. CASE version = "v3p2" BY <2>1, RepeatedScheduleIsFull DEF Plan, Everything
  <2>2. CASE version # "v3p2"
    <3>1. 0..0 = {0} OBVIOUS
    <3>2. Everything = [case : 0..Cases - 1, mode : ToSet(Modes[version]), repeat : {0}]
      BY <2>2, <3>1, Zenon DEF Everything
    <3>3. Plan = Schedule BY <2>2 DEF Plan
    <3> QED BY <3>2, <3>3, ScheduleIsFull, Zenon
  <2> QED BY <2>1, <2>2
<1>2. PICK N \in Nat : DOMAIN Plan = 1..N /\ {Plan[n] : n \in 1..N} = Everything
  BY <1>1
<1>3. Everything \subseteq Cell
  <2>1. ToSet(Modes[version]) \subseteq STRING
    BY RunnerAssumption, ElementOfSeq, LenProperties DEF ToSet
  <2>2. Cases - 1 \in Int /\ Repetitions - 1 \in Int BY RunnerAssumption
  <2> QED BY <2>1, <2>2 DEF Everything, Cell
<1>4. Plan = [n \in DOMAIN Plan |-> Plan[n]]
  BY DEF Plan, Schedule, RepeatedSchedule
<1>5. Len(Plan) = N
  <2>1. Plan \in [1..N -> Cell] BY <1>2, <1>3, <1>4
  <2> HIDE DEF Plan
  <2>2. Plan \in Seq(Cell) BY <2>1, IsASeq
  <2> QED BY <1>2, <2>2, LenProperties
<1> QED BY <1>2, <1>3, <1>5 DEF PlanCells

-----------------------------------------------------------------------------
(* The batches of calls *)

\* A batch is finite and holds numbers of calls.
LEMMA BatchIsFinite ==
    ASSUME NEW from \in Nat \ {0}
    PROVE  Batch(from) \subseteq from..from + MaxConcurrent - 1 /\ IsFiniteSet(Batch(from))
           /\ from \in Batch(from) /\ Batch(from) \subseteq Nat \ {0}
<1>1. MaxConcurrent \in Nat \ {0} BY RunnerAssumption
<1>2. /\ Batch(from) \subseteq from..from + MaxConcurrent - 1
      /\ from \in Batch(from)
  BY <1>1 DEF Batch, OneByOne, Reads
<1>3. IsFiniteSet(from..from + MaxConcurrent - 1) BY <1>1, FS_Interval
<1> QED BY <1>1, <1>2, <1>3, FS_Subset

\* The calls of a batch are less than its size past its first: nothing is skipped.
LEMMA BatchIsDense ==
    ASSUME Len(talk.calls) \in Nat, NEW from \in Nat \ {0}, NEW i \in Batch(from)
    PROVE  i >= from /\ i < from + Cardinality(Batch(from)) /\ Cardinality(Batch(from)) \in Nat
<1>1. MaxConcurrent \in Nat \ {0} BY RunnerAssumption
<1>2. i \in from..from + MaxConcurrent - 1 /\ i \in Nat BY BatchIsFinite
<1>3. from..i \subseteq Batch(from)
  <2>1. CASE version = "v2" BY <1>2, <2>1 DEF Batch, OneByOne
  <2>2. CASE version # "v2"
    <3>1. i = from \/ (i <= Len(talk.calls) /\ \A j \in from..i : talk.calls[j] = "read")
      BY <2>2 DEF Batch, Reads
    <3>2. CASE i = from BY <1>2, <2>2, <3>2 DEF Batch, Reads
    <3>3. ASSUME i # from, NEW k \in from..i PROVE k \in Batch(from)
      <4>1. i <= Len(talk.calls) /\ \A j \in from..i : talk.calls[j] = "read" BY <3>1, <3>3
      <4>2. CASE k = from BY <2>2, <4>2 DEF Batch, Reads
      <4>3. CASE k # from
        <5>1. k \in from + 1..from + MaxConcurrent - 1 BY <1>1, <1>2, <4>3
        <5>2. \A j \in from..k : talk.calls[j] = "read" BY <1>2, <4>1
        <5>3. k <= Len(talk.calls) BY <1>2, <4>1
        <5> QED BY <2>2, <5>1, <5>2, <5>3 DEF Batch, Reads
      <4> QED BY <4>2, <4>3
    <3> QED BY <3>2, <3>3
  <2> QED BY <2>1, <2>2
<1>4. Cardinality(from..i) = i - from + 1 BY <1>2, FS_Interval
<1>5. Cardinality(from..i) <= Cardinality(Batch(from))
      /\ Cardinality(Batch(from)) \in Nat
  BY <1>3, BatchIsFinite, FS_Subset, FS_CardinalityType
<1> QED BY <1>2, <1>4, <1>5

\* Two calls of one batch are reads, and so is every call between them; v2 makes one at a time.
LEMMA BatchIsReads ==
    ASSUME NEW from \in Nat \ {0}, NEW i \in Batch(from), NEW j \in Batch(from), i # j
    PROVE  /\ version # "v2"
           /\ talk.calls[i] = "read" /\ talk.calls[j] = "read"
           /\ \A k \in i..j : talk.calls[k] = "read"
<1>1. version # "v2" BY DEF Batch, OneByOne
<1>2. i \in Nat /\ j \in Nat /\ i >= from /\ j >= from
  <2>1. MaxConcurrent \in Nat BY RunnerAssumption
  <2> QED BY <2>1, BatchIsFinite
<1>3. i = from \/ \A k \in from..i : talk.calls[k] = "read" BY <1>1 DEF Batch, Reads
<1>4. j = from \/ \A k \in from..j : talk.calls[k] = "read" BY <1>1 DEF Batch, Reads
<1>5. talk.calls[i] = "read" /\ talk.calls[j] = "read" BY <1>2, <1>3, <1>4
<1>6. \A k \in i..j : talk.calls[k] = "read" BY <1>2, <1>3, <1>4, <1>5
<1> QED BY <1>1, <1>5, <1>6

-----------------------------------------------------------------------------
(* What a report spent *)

\* A set of natural numbers has a least element.
LEMMA LeastOf ==
    ASSUME NEW S \in SUBSET Nat, S # {} PROVE \E x \in S : \A y \in S : x <= y
<1>1. PICK x \in S : \A y \in S : ~(<<y, x>> \in OpToRel(<, Nat))
  BY NatLessThanWellFounded, WFMin, Zenon
<1>2. \A y \in S : ~(y < x) BY <1>1 DEF OpToRel
<1> QED BY <1>2

\* The running totals of a sequence of records, up to its n-th.
Totals(s, n, f) == f = [i \in 0..n |-> IF i = 0 THEN 0 ELSE f[i - 1] + s[i].made]
Entries == Seq([cell : Cell, made : Nat])

\* They exist and are natural numbers.
LEMMA TotalsExist ==
    ASSUME NEW s \in Entries PROVE \E f \in [0..Len(s) -> Nat] : Totals(s, Len(s), f)
<1> DEFINE Good(n) == \E f \in [0..n -> Nat] : Totals(s, n, f)
           Bad == {n \in Nat : n <= Len(s) /\ ~Good(n)}
<1>1. /\ Len(s) \in Nat /\ \A i \in 1..Len(s) : s[i].made \in Nat
  <2>1. \A i \in 1..Len(s) : s[i] \in [cell : Cell, made : Nat] BY ElementOfSeq DEF Entries
  <2> QED BY <2>1, LenProperties DEF Entries
<1>2. SUFFICES ASSUME Bad # {} PROVE FALSE BY <1>1
<1>3. PICK m \in Bad : \A n \in Bad : m <= n BY <1>2, LeastOf
<1>4. m \in Nat /\ m <= Len(s) /\ ~Good(m) BY <1>3
<1>5. m # 0
  <2>1. SUFFICES Good(0) BY <1>4
  <2>2. [i \in 0..0 |-> 0] \in [0..0 -> Nat] OBVIOUS
  <2>3. Totals(s, 0, [i \in 0..0 |-> 0])
    <3>1. \A i \in 0..0 : i = 0 OBVIOUS
    <3> QED BY <3>1 DEF Totals
  <2> QED BY <2>2, <2>3
<1>6. Good(m - 1)
  <2>1. m - 1 \in Nat /\ m - 1 <= Len(s) /\ m - 1 < m BY <1>1, <1>4, <1>5
  <2>2. ~(m <= m - 1) BY <1>4
  <2>3. m - 1 \notin Bad BY <1>3, <2>2
  <2> HIDE DEF Good
  <2> QED BY <2>1, <2>3
<1>7. PICK f \in [0..m - 1 -> Nat] : Totals(s, m - 1, f) BY <1>6
<1> DEFINE g == [i \in 0..m |-> IF i = m THEN f[m - 1] + s[m].made ELSE f[i]]
<1>8. g \in [0..m -> Nat]
  <2>1. m - 1 \in 0..m - 1 /\ m \in 1..Len(s) BY <1>1, <1>4, <1>5
  <2>2. f[m - 1] + s[m].made \in Nat BY <1>1, <2>1
  <2>3. \A i \in 0..m : i # m => i \in 0..m - 1 BY <1>4
  <2> QED BY <2>2, <2>3
<1>9. Totals(s, m, g)
  <2>1. ASSUME NEW i \in 0..m PROVE g[i] = IF i = 0 THEN 0 ELSE g[i - 1] + s[i].made
    <3>1. CASE i = m
      <4>1. m - 1 \in 0..m /\ m - 1 # m BY <1>4, <1>5
      <4>2. g[m - 1] = f[m - 1] BY <4>1
      <4> QED BY <1>5, <3>1, <4>2
    <3>2. CASE i # m
      <4>1. i \in 0..m - 1 /\ g[i] = f[i] BY <1>4, <3>2
      <4>2. f[i] = IF i = 0 THEN 0 ELSE f[i - 1] + s[i].made BY <1>7, <4>1 DEF Totals
      <4>3. i # 0 => i - 1 \in 0..m /\ i - 1 # m BY <1>4, <4>1
      <4>4. i # 0 => g[i - 1] = f[i - 1] BY <4>3
      <4> QED BY <4>1, <4>2, <4>4
    <3> QED BY <3>1, <3>2
  <2>2. g = [i \in 0..m |-> g[i]] OBVIOUS
  <2> HIDE DEF g
  <2> QED BY <2>1, <2>2 DEF Totals
<1>10. Good(m) BY <1>8, <1>9
<1> QED BY <1>4, <1>10

\* They are determined by the records.
LEMMA TotalsUnique ==
    ASSUME NEW s, NEW n \in Nat, NEW f, NEW g, Totals(s, n, f), Totals(s, n, g) PROVE f = g
<1> DEFINE Bad == {i \in Nat : i <= n /\ f[i] # g[i]}
<1>1. SUFFICES ASSUME Bad # {} PROVE FALSE
  <2>1. \A i \in 0..n : f[i] = g[i] \/ i \in Bad OBVIOUS
  <2>2. /\ f = [i \in 0..n |-> f[i]]
        /\ g = [i \in 0..n |-> g[i]]
    BY DEF Totals
  <2> QED BY <2>1, <2>2
<1>2. PICK m \in Bad : \A i \in Bad : m <= i BY <1>1, LeastOf
<1>3. m \in 0..n /\ f[m] # g[m] BY <1>2
<1>4. /\ f[m] = IF m = 0 THEN 0 ELSE f[m - 1] + s[m].made
      /\ g[m] = IF m = 0 THEN 0 ELSE g[m - 1] + s[m].made
  BY <1>3 DEF Totals
<1>5. m # 0 BY <1>3, <1>4
<1>6. m - 1 \in Nat /\ m - 1 <= n /\ ~(m <= m - 1) BY <1>3, <1>5
<1>7. m - 1 \notin Bad BY <1>2, <1>6
<1>8. f[m - 1] = g[m - 1] BY <1>6, <1>7
<1> QED BY <1>3, <1>4, <1>8

\* Spent is the last total.
LEMMA SpentIsTotal ==
    ASSUME NEW r, r.records \in Entries, NEW f, Totals(r.records, Len(r.records), f)
    PROVE  Spent(r) = f[Len(r.records)]
<1> DEFINE s == r.records
           g == CHOOSE h : Totals(s, Len(s), h)
<1>1. Totals(s, Len(s), g) BY Zenon
<1>2. Len(s) \in Nat BY LenProperties DEF Entries
<1>3. Spent(r) = g[Len(s)] BY DEF Spent, Totals
<1> HIDE DEF g
<1>4. g = f BY <1>1, <1>2, TotalsUnique
<1> QED BY <1>3, <1>4

\* A report without records spent nothing.
LEMMA SpentNothing ==
    ASSUME NEW r, r.records = <<>> PROVE Spent(r) = 0
<1>1. r.records \in Entries /\ Len(r.records) = 0 BY EmptySeq DEF Entries
<1>2. PICK f : Totals(r.records, Len(r.records), f) BY <1>1, TotalsExist
<1>3. f[0] = 0 BY <1>1, <1>2 DEF Totals
<1> QED BY <1>1, <1>2, <1>3, SpentIsTotal

\* A report with one more record spent that record's calls more.
LEMMA SpentGrows ==
    ASSUME NEW r, NEW q, NEW e \in [cell : Cell, made : Nat],
           r.records \in Entries, q.records = Append(r.records, e)
    PROVE  Spent(r) \in Nat /\ Spent(q) = Spent(r) + e.made
<1> DEFINE s == r.records
           t == q.records
           n == Len(s)
<1>1. /\ n \in Nat /\ t \in Entries /\ Len(t) = n + 1
      /\ \A i \in 1..n : t[i] = s[i]
      /\ t[n + 1] = e
  BY AppendProperties, LenProperties DEF Entries
<1>2. PICK f \in [0..n -> Nat] : Totals(s, n, f) BY TotalsExist
<1>3. Spent(r) = f[n] BY <1>2, SpentIsTotal
<1>4. PICK g \in [0..n + 1 -> Nat] : Totals(t, n + 1, g) BY <1>1, TotalsExist
<1>5. Spent(q) = g[n + 1] BY <1>1, <1>4, SpentIsTotal
<1> DEFINE h == [i \in 0..n |-> g[i]]
<1> HIDE DEF s, t, n
<1>6. Totals(s, n, h)
  <2>1. ASSUME NEW i \in 0..n PROVE h[i] = IF i = 0 THEN 0 ELSE h[i - 1] + s[i].made
    <3>1. i \in 0..n + 1 /\ h[i] = g[i] BY <1>1
    <3>2. g[i] = IF i = 0 THEN 0 ELSE g[i - 1] + t[i].made BY <1>4, <3>1 DEF Totals
    <3>3. i # 0 => i - 1 \in 0..n /\ i \in 1..n BY <1>1
    <3>4. i # 0 => h[i - 1] = g[i - 1] /\ t[i] = s[i] BY <1>1, <3>3
    <3> QED BY <3>1, <3>2, <3>4
  <2>2. h = [i \in 0..n |-> h[i]] OBVIOUS
  <2> HIDE DEF h
  <2> QED BY <2>1, <2>2 DEF Totals
<1>7. h = f BY <1>1, <1>2, <1>6, TotalsUnique
<1>8. f[n] = g[n] BY <1>1, <1>7
<1>9. g[n + 1] = g[n] + t[n + 1].made
  <2>1. n + 1 \in 0..n + 1 /\ n + 1 # 0 /\ (n + 1) - 1 = n BY <1>1
  <2> QED BY <1>4, <2>1 DEF Totals
<1>10. f[n] \in Nat BY <1>1, <1>2
<1> QED BY <1>1, <1>3, <1>5, <1>8, <1>9, <1>10

\* What a report spent is a number, and depends on its records only.
LEMMA SpentOf ==
    ASSUME NEW r, NEW q, r.records \in Entries, q.records = r.records
    PROVE  Spent(r) \in Nat /\ Spent(q) = Spent(r)
<1>1. PICK f \in [0..Len(r.records) -> Nat] : Totals(r.records, Len(r.records), f)
  BY TotalsExist
<1>2. Spent(r) = f[Len(r.records)] /\ Spent(q) = f[Len(r.records)]
  BY <1>1, SpentIsTotal
<1>3. Len(r.records) \in Nat BY LenProperties DEF Entries
<1> QED BY <1>1, <1>2, <1>3

-----------------------------------------------------------------------------
(* The steps *)

\* No step changes which version runs, nor therefore its plan.
LEMMA PlanStays ==
    ASSUME [Next]_vars
    PROVE  version' = version /\ Plan' = Plan /\ PlanCells' = PlanCells
<1>1. version' = version
  BY DEF Next, Session, Conversation, vars, Fresh, Resume, Skip, Halt, Begin, Complete, Reset,
         Connect, Break, Crash, Ask, ModelCalls, FinalAnswer, ModelFails, Call, Unparsable,
         EndTurn, HandlerEnds, LoseCall, Expire, Collect, CollectFile, Save, SaveCell
<1>2. Plan' = Plan BY <1>1, Zenon DEF Plan, Schedule
<1> QED BY <1>1, <1>2 DEF PlanCells

\* The empty conversation is one.
LEMMA NoTalkType == NoTalk \in Talk
BY EmptySeq DEF NoTalk, Talk

\* Ending a session keeps what relates handlers and calls: those that run are given up.
LEMMA DownKeeps ==
    ASSUME TypeOK, CallsInv, UNCHANGED <<version, host>>, Plan' = Plan, NEW g \in BOOLEAN, Down(g),
           disk' # None => disk' \in Report
    PROVE  /\ TypeOK' /\ CallsInv' /\ WalkInv'
           /\ pc' = "down" /\ past'.begun = past.begun
<1>1. /\ pc' = "down" /\ cell' = 0 /\ talk' = NoTalk
      /\ past'.begun = past.begun /\ past'.sessions = past.sessions
      /\ past'.stray = past.stray \cup host.running
      /\ past' \in [spent : Nat, sessions : Nat, given : Nat, stray : SUBSET Handler,
                    begun : [DOMAIN Plan -> Nat]]
  <2>1. past \in [spent : Nat, sessions : Nat, given : Nat, stray : SUBSET Handler,
                  begun : [DOMAIN Plan -> Nat]]
    BY DEF TypeOK
  <2>2. host.running \subseteq Handler BY DEF TypeOK
  <2>3. past.given + (IF g THEN 1 ELSE 0) \in Nat BY <2>1
  <2> HIDE DEF Handler
  <2> QED BY <2>1, <2>2, <2>3 DEF Down
<1>2. TypeOK' BY <1>1, NoTalkType DEF TypeOK, Stages
<1>3. past'.stray = host'.running BY <1>1 DEF CallsInv
<1>4. \A h \in host'.running : Behind(h)' BY <1>1 DEF CallsInv, Behind
<1>5. CallsInv' BY <1>1, <1>3, <1>4 DEF CallsInv, NoTalk
<1> QED BY <1>1, <1>2, <1>5 DEF WalkInv

\* An invariant step: TypeOK.
LEMMA TypeStep ==
    ASSUME IInv, [Next]_vars PROVE TypeOK'
<1> USE DEF TypeOK, Stages
<1>1. version' = version /\ Plan' = Plan /\ PlanCells' = PlanCells BY PlanStays
<1>2. version \in Versions /\ TypeOK /\ CallsInv BY DEF IInv
<1>3. /\ Len(Plan) \in Nat /\ DOMAIN Plan = 1..Len(Plan)
      /\ \A n \in 1..Len(Plan) : Plan[n] \in Cell
  BY <1>2, PlanIsFull
<1>4. pc \notin {"down", "boundary"} => cell \in 1..Len(Plan) /\ Plan[cell] \in Cell
  BY <1>3 DEF IInv, WalkInv
<1>5. ASSUME Down(TRUE) \/ Down(FALSE), UNCHANGED host, disk' # None => disk' \in Report
      PROVE  TypeOK'
  BY <1>1, <1>2, <1>5, DownKeeps
<1>6. CASE Fresh
  <2>1. report' \in Report
    BY <1>6, EmptySeq DEF Fresh, Report
  <2> QED BY <1>1, <1>2, <1>6, <2>1 DEF Fresh
<1>7. CASE Resume BY <1>1, <1>2, <1>7 DEF Resume
<1>8. CASE Skip BY <1>1, <1>2, <1>8 DEF Skip, Planned
<1>9. CASE Halt BY <1>1, <1>2, <1>5, <1>9 DEF Halt
<1>10. CASE Begin
  <2>1. Plan[cell] \in Cell
    BY <1>2, <1>3, <1>10 DEF Begin, Planned, IInv, WalkInv
  <2>2. report' \in Report
    BY <1>2, <1>10, <2>1 DEF Begin, Planned, Report
  <2> QED BY <1>1, <1>2, <1>10, <2>2 DEF Begin
<1>11. CASE Complete
  <2>1. disk' \in Report BY <1>2, <1>11 DEF Complete, Report
  <2> QED BY <1>5, <1>11, <2>1 DEF Complete
<1>12. CASE Reset
  <2>1. past' \in [spent : Nat, sessions : Nat, given : Nat, stray : SUBSET Handler,
                   begun : [DOMAIN Plan -> Nat]]
    <3>1. cell \in DOMAIN Plan /\ past.begun \in [DOMAIN Plan -> Nat]
      BY <1>2, <1>3, <1>4, <1>12 DEF Reset
    <3>2. [past.begun EXCEPT ![cell] = @ + 1] \in [DOMAIN Plan -> Nat]
      BY <3>1
    <3>3. past' = [past EXCEPT !.begun = [past.begun EXCEPT ![cell] = @ + 1]]
      BY <1>2, <1>12 DEF Reset
    <3> QED BY <1>2, <3>2, <3>3
  <2> QED BY <1>1, <1>2, <1>12, <2>1 DEF Reset
<1>13. CASE Connect
  <2>1. <<>> \in Seq({"read", "write"}) /\ <<"write">> \in Seq({"read", "write"})
    BY EmptySeq
  <2>2. talk' \in Talk
    BY <1>13, <2>1, NoTalkType DEF Connect, Talk
  <2> QED BY <1>1, <1>2, <1>13, <2>2 DEF Connect
<1>14. CASE Break BY <1>2, <1>5, <1>14 DEF Break
<1>15. CASE Crash
  <2>1. Down(TRUE) \/ Down(FALSE) BY <1>15 DEF Crash
  <2> QED BY <1>2, <1>5, <1>15, <2>1 DEF Crash
<1>16. CASE Ask
  <2>1. talk' \in Talk
    <3>1. talk.made + 1 \in Nat BY <1>2 DEF Talk
    <3>2. talk' = [talk EXCEPT !.made = talk.made + 1] BY <1>16 DEF Ask
    <3> QED BY <1>2, <3>1, <3>2 DEF Talk
  <2>2. past' \in [spent : Nat, sessions : Nat, given : Nat, stray : SUBSET Handler,
                   begun : [DOMAIN Plan -> Nat]]
    BY <1>2, <1>16 DEF Ask
  <2> QED BY <1>1, <1>2, <1>16, <2>1, <2>2 DEF Ask
<1>17. CASE ModelCalls
  <2>1. PICK list \in Seq({"read", "write"}) :
            talk' = [talk EXCEPT !.calls = list, !.next = 1, !.turn = @ + 1]
    BY <1>17, RunnerAssumption DEF ModelCalls
  <2>2. talk' \in Talk
    <3>1. talk.turn + 1 \in Nat /\ 1 \in Nat \ {0} BY <1>2 DEF Talk
    <3>2. talk' = [talk EXCEPT !.calls = list, !.next = 1, !.turn = talk.turn + 1] BY <2>1
    <3> QED BY <1>2, <3>1, <3>2 DEF Talk
  <2> QED BY <1>1, <1>2, <1>17, <2>2 DEF ModelCalls
<1>18. CASE FinalAnswer BY <1>1, <1>2, <1>18 DEF FinalAnswer
<1>19. CASE ModelFails BY <1>1, <1>2, <1>19 DEF ModelFails, Talk
<1>20. CASE Call
  <2> DEFINE batch == Batch(talk.next)
  <2>1. batch \subseteq Nat \ {0} /\ IsFiniteSet(batch)
    BY <1>2, BatchIsFinite DEF Talk
  <2>2. Cardinality(batch) \in Nat BY <2>1, FS_CardinalityType
  <2>3. \A i \in batch : [cell |-> cell, session |-> past.sessions, turn |-> talk.turn, call |-> i]
                           \in Handler
    BY <1>2, <2>1 DEF Handler, Talk
  <2> HIDE DEF batch
  <2>4. /\ talk' = [talk EXCEPT !.next = @ + Cardinality(batch), !.awaited = talk'.awaited]
        /\ host' = [host EXCEPT !.running = @ \cup talk'.awaited]
        /\ talk'.awaited \subseteq Handler
        /\ UNCHANGED <<version, disk, report, files, pc, cell, past>>
    <3> DEFINE new == IF (talk.expired => Unsignalled) /\ Dispatched
                      THEN {[cell |-> cell, session |-> past.sessions, turn |-> talk.turn, call |-> i]
                              : i \in batch}
                      ELSE {}
    <3>1. new \subseteq Handler BY <2>3
    <3>2. /\ host' = [host EXCEPT !.running = @ \cup new]
          /\ talk' = [talk EXCEPT !.next = @ + Cardinality(batch), !.awaited = new]
          /\ UNCHANGED <<version, disk, report, files, pc, cell, past>>
      BY <1>20 DEF Call, batch
    <3> HIDE DEF new
    <3>3. talk'.awaited = new BY <1>2, <3>2 DEF Talk
    <3> QED BY <3>1, <3>2, <3>3
  <2>5. talk' \in Talk
    <3>1. talk.next + Cardinality(batch) \in Nat \ {0} BY <1>2, <2>2 DEF Talk
    <3> QED BY <1>2, <2>4, <3>1 DEF Talk
  <2>6. host' \in [uncertain : BOOLEAN, running : SUBSET Handler] BY <1>2, <2>4
  <2> QED BY <1>1, <1>2, <2>4, <2>5, <2>6
<1>21. CASE Unparsable BY <1>1, <1>2, <1>21 DEF Unparsable
<1>22. CASE EndTurn BY <1>1, <1>2, <1>22 DEF EndTurn
<1>23. CASE HandlerEnds
  <2>1. PICK h \in host.running : talk' = [talk EXCEPT !.awaited = @ \ {h}]
    BY <1>23 DEF HandlerEnds
  <2>2. talk.awaited \ {h} \in SUBSET Handler BY <1>2 DEF Talk
  <2>3. talk' \in Talk BY <1>2, <2>1, <2>2 DEF Talk
  <2> QED BY <1>1, <1>2, <1>23, <2>3 DEF HandlerEnds
<1>24. CASE LoseCall
  <2>1. PICK h \in talk.awaited : /\ talk' = [talk EXCEPT !.awaited = @ \ {h}]
                                 /\ past' = [past EXCEPT !.stray = @ \cup {h}]
    BY <1>24 DEF LoseCall
  <2>2. talk.awaited \ {h} \in SUBSET Handler /\ past.stray \cup {h} \in SUBSET Handler
    BY <1>2 DEF Talk
  <2>3. talk' \in Talk BY <1>2, <2>1, <2>2 DEF Talk
  <2>4. past' \in [spent : Nat, sessions : Nat, given : Nat, stray : SUBSET Handler,
                   begun : [DOMAIN Plan -> Nat]]
    BY <1>2, <2>1, <2>2
  <2> QED BY <1>1, <1>2, <1>24, <2>3, <2>4 DEF LoseCall
<1>25. CASE Expire
  <2>1. talk' \in Talk BY <1>2, <1>25 DEF Expire, Talk
  <2>2. past' \in [spent : Nat, sessions : Nat, given : Nat, stray : SUBSET Handler,
                   begun : [DOMAIN Plan -> Nat]]
    BY <1>2, <1>25 DEF Expire, Talk
  <2> QED BY <1>1, <1>2, <1>25, <2>1, <2>2 DEF Expire
<1>26. CASE Collect
  <2>1. talk' \in Talk BY <1>2, <1>26 DEF Collect, Talk
  <2> QED BY <1>1, <1>2, <1>26, <2>1 DEF Collect
<1>27. CASE CollectFile
  <2>1. CASE Plan[cell] \in files BY <1>2, <1>5, <1>27, <2>1 DEF CollectFile
  <2>2. CASE Plan[cell] \notin files
    <3>1. talk' \in Talk BY <1>2, <1>27, <2>2 DEF CollectFile, Talk
    <3> QED BY <1>1, <1>2, <1>27, <2>2, <3>1 DEF CollectFile
  <2> QED BY <2>1, <2>2
<1>28. ASSUME pc = "save", NEW saved \in Report, After(saved), disk' = saved, UNCHANGED host
       PROVE  TypeOK'
  <2>1. CASE talk.stop BY <1>5, <1>28, <2>1 DEF After
  <2>2. CASE ~talk.stop BY <1>1, <1>2, <1>28, <2>2, NoTalkType DEF After
  <2> QED BY <2>1, <2>2
<1>29. pc = "save" => Recording \in Report /\ [Recording EXCEPT !.active = None] \in Report
  <2>1. SUFFICES ASSUME pc = "save"
                 PROVE  Recording \in Report /\ [Recording EXCEPT !.active = None] \in Report
    OBVIOUS
  <2>2. [cell |-> Plan[cell], made |-> talk.made] \in [cell : Cell, made : Nat]
    BY <1>2, <1>4, <2>1 DEF Talk
  <2>3. report \in Report BY <1>2, <2>1
  <2>4. Append(report.records, [cell |-> Plan[cell], made |-> talk.made])
            \in Seq([cell : Cell, made : Nat])
    BY <2>2, <2>3, AppendProperties DEF Report
  <2> QED BY <2>3, <2>4 DEF Recording, Report
<1>30. CASE Save BY <1>28, <1>29, <1>30 DEF Save
<1>31. CASE SaveCell BY <1>28, <1>29, <1>31 DEF SaveCell
<1>32. CASE UNCHANGED vars BY <1>1, <1>2, <1>32 DEF vars
<1> HIDE DEF TypeOK
<1> QED
  BY <1>6, <1>7, <1>8, <1>9, <1>10, <1>11, <1>12, <1>13, <1>14, <1>15, <1>16, <1>17, <1>18, <1>19,
     <1>20, <1>21, <1>22, <1>23, <1>24, <1>25, <1>26, <1>27, <1>30, <1>31, <1>32
  DEF Next, Session, Conversation

\* A step within a session that makes no call and ends none may move on: to a later
\* cell, a later turn or a later call.
LEMMA MovesOn ==
    ASSUME TypeOK, TypeOK', CallsInv, pc # "down", pc' # "down",
           host'.running = host.running, past'.stray = past.stray, past'.sessions = past.sessions,
           talk.awaited = {}, talk'.awaited = {},
           \/ cell' > cell
           \/ cell' = cell /\ talk'.turn > talk.turn
           \/ cell' = cell /\ talk'.turn = talk.turn /\ talk'.next = talk.next,
           pc' \in {"boundary", "reset", "connect"} => talk' = NoTalk
    PROVE  CallsInv'
<1>1. ASSUME NEW h \in host.running PROVE Behind(h)'
  <2>1. h \in Handler BY DEF TypeOK
  <2>2. Behind(h) BY DEF CallsInv
  <2>3. /\ h.cell \in Nat /\ h.turn \in Nat /\ h.call \in Nat
        /\ cell \in Nat /\ cell' \in Nat
        /\ talk.turn \in Nat /\ talk'.turn \in Nat /\ talk.next \in Nat /\ talk'.next \in Nat
    BY <2>1 DEF Handler, TypeOK, Talk
  <2>4. CASE h.session < past.sessions BY <2>4 DEF Behind
  <2>5. CASE ~(h.session < past.sessions)
    <3>1. /\ h.session = past.sessions
          /\ \/ h.cell < cell
             \/ h.cell = cell /\ h.turn < talk.turn
             \/ h.cell = cell /\ h.turn = talk.turn /\ h.call < talk.next
      BY <2>2, <2>5 DEF Behind
    <3>2. \/ h.cell < cell'
          \/ h.cell = cell' /\ h.turn < talk'.turn
          \/ h.cell = cell' /\ h.turn = talk'.turn /\ h.call < talk'.next
      BY <2>3, <3>1
    <3> QED BY <3>1, <3>2 DEF Behind
  <2> QED BY <2>4, <2>5
<1>2. /\ past'.stray \subseteq host'.running
      /\ talk'.awaited = host'.running \ past'.stray
  BY DEF CallsInv
<1>3. pc' \in {"down", "boundary", "reset", "connect"} => talk' = NoTalk OBVIOUS
<1> QED BY <1>1, <1>2, <1>3 DEF CallsInv

\* An invariant step: CallsInv.
LEMMA CallsStep ==
    ASSUME IInv, [Next]_vars PROVE CallsInv'
<1>1. version' = version /\ Plan' = Plan BY PlanStays
<1>2. TypeOK /\ CallsInv /\ TypeOK' BY TypeStep DEF IInv
<1>3. /\ cell \in Nat /\ cell + 1 > cell
      /\ pc # "calls" => talk.awaited = {}
      /\ pc \in {"down", "boundary", "reset", "connect"} => talk = NoTalk
      /\ NoTalk.awaited = {} /\ NoTalk.turn = 0 /\ NoTalk.next = 1
  BY <1>2 DEF TypeOK, CallsInv, NoTalk
<1>4. ASSUME Down(TRUE) \/ Down(FALSE), UNCHANGED host, disk' # None => disk' \in Report
      PROVE  CallsInv'
  BY <1>1, <1>2, <1>4, DownKeeps
<1>5. disk' # None => disk' \in Report BY <1>2 DEF TypeOK
<1>6. ASSUME pc = "down", pc' = "boundary", cell' = 1, past' = [past EXCEPT !.sessions = @ + 1],
             UNCHANGED <<talk, host>>
      PROVE  CallsInv'
  <2>1. past'.sessions = past.sessions + 1 /\ past'.stray = past.stray /\ past.sessions \in Nat
    BY <1>2, <1>6 DEF TypeOK
  <2>2. \A h \in host.running : h.session \in Nat
                                 /\ (h.session < past.sessions \/ h.session = past.sessions)
    BY <1>2 DEF CallsInv, Behind, TypeOK, Handler
  <2>3. \A h \in host.running : Behind(h)'
    BY <2>1, <2>2 DEF Behind
  <2>4. talk = NoTalk /\ talk.awaited = {} BY <1>3, <1>6
  <2> QED BY <1>2, <1>6, <2>1, <2>3, <2>4 DEF CallsInv
<1>7. CASE Fresh BY <1>6, <1>7 DEF Fresh
<1>8. CASE Resume BY <1>6, <1>8 DEF Resume
<1>9. CASE Skip BY <1>2, <1>3, <1>9, MovesOn DEF Skip, Planned
<1>10. CASE Halt BY <1>4, <1>5, <1>10 DEF Halt
<1>11. CASE Begin BY <1>2, <1>3, <1>11, MovesOn DEF Begin, Planned
<1>12. CASE Complete BY <1>4, <1>5, <1>12 DEF Complete
<1>13. CASE Reset
  <2>1. /\ host'.running = host.running /\ past'.stray = past.stray
        /\ past'.sessions = past.sessions
    BY <1>2, <1>13 DEF Reset, TypeOK
  <2> QED BY <1>2, <1>3, <1>13, <2>1, MovesOn DEF Reset
<1>14. CASE Connect
  <2>1. talk'.awaited = {} /\ talk'.turn = 0 /\ talk'.next = 1
    BY <1>14 DEF Connect, NoTalk
  <2> QED BY <1>2, <1>3, <1>14, <2>1, MovesOn DEF Connect
<1>15. CASE Break BY <1>4, <1>5, <1>15 DEF Break
<1>16. CASE Crash
  <2>1. Down(TRUE) \/ Down(FALSE) BY <1>16 DEF Crash
  <2> QED BY <1>4, <1>5, <1>16, <2>1 DEF Crash
<1>17. CASE Ask
  <2>1. /\ talk'.awaited = talk.awaited /\ talk'.turn = talk.turn /\ talk'.next = talk.next
        /\ past'.stray = past.stray /\ past'.sessions = past.sessions
    BY <1>2, <1>17 DEF Ask, TypeOK, Talk
  <2> QED BY <1>2, <1>3, <1>17, <2>1, MovesOn DEF Ask
<1>18. CASE ModelCalls
  <2>1. talk'.awaited = talk.awaited /\ talk'.turn > talk.turn
    BY <1>2, <1>18 DEF ModelCalls, TypeOK, Talk
  <2> QED BY <1>2, <1>3, <1>18, <2>1, MovesOn DEF ModelCalls
<1>19. CASE FinalAnswer BY <1>2, <1>3, <1>19, MovesOn DEF FinalAnswer
<1>20. CASE ModelFails
  <2>1. talk'.awaited = talk.awaited /\ talk'.turn = talk.turn /\ talk'.next = talk.next
    BY <1>2, <1>20 DEF ModelFails, TypeOK, Talk
  <2> QED BY <1>2, <1>3, <1>20, <2>1, MovesOn DEF ModelFails
<1>21. CASE Call
  <2> DEFINE batch == Batch(talk.next)
             one(i) == [cell |-> cell, session |-> past.sessions, turn |-> talk.turn, call |-> i]
             new == IF (talk.expired => Unsignalled) /\ Dispatched
                    THEN {one(i) : i \in batch} ELSE {}
  <2>1. /\ pc = "calls" /\ pc' = pc /\ cell' = cell /\ past' = past
        /\ talk.awaited = {} /\ talk.next \in Nat \ {0} /\ talk.turn \in Nat
        /\ past.sessions \in Nat /\ Len(talk.calls) \in Nat
    <3>1. /\ pc = "calls" /\ pc' = pc /\ cell' = cell /\ past' = past
          /\ talk.awaited = {}
      BY <1>21 DEF Call
    <3>2. talk.calls \in Seq({"read", "write"}) /\ talk.next \in Nat \ {0} /\ talk.turn \in Nat
      BY <1>2 DEF TypeOK, Talk
    <3>3. past.sessions \in Nat BY <1>2 DEF TypeOK
    <3> QED BY <3>1, <3>2, <3>3, LenProperties
  <2>2. \A i \in batch : i >= talk.next /\ i < talk.next + Cardinality(batch)
                         /\ Cardinality(batch) \in Nat
    BY <2>1, BatchIsDense
  <2>3. batch # {} /\ batch \subseteq talk.next..talk.next + MaxConcurrent - 1
        /\ batch \subseteq Nat \ {0}
    BY <2>1, BatchIsFinite
  <2>4. /\ host' = [host EXCEPT !.running = @ \cup new]
        /\ talk' = [talk EXCEPT !.next = @ + Cardinality(batch), !.awaited = new]
    BY <1>21 DEF Call
  <2>5. \A h \in new : \E i \in batch : h = one(i) OBVIOUS
  <2> HIDE DEF new, batch
  <2>6. /\ host'.running = host.running \cup new
        /\ talk'.awaited = new /\ talk'.next = talk.next + Cardinality(batch)
        /\ talk'.calls = talk.calls /\ talk'.turn = talk.turn
    BY <1>2, <2>4 DEF TypeOK, Talk
  <2>7. ASSUME NEW h \in host.running PROVE Behind(h)' /\ h \notin new
    <3>1. Behind(h) /\ h \in Handler BY <1>2 DEF CallsInv, TypeOK
    <3>2. /\ h.call \in Nat /\ talk'.next \in Nat /\ talk.next \in Nat
          /\ talk'.next >= talk.next
      <4>1. Cardinality(batch) \in Nat BY <2>2, <2>3
      <4> QED BY <2>1, <2>6, <3>1, <4>1 DEF Handler
    <3>3. Behind(h)'
      <4>1. h.call < talk.next => h.call < talk'.next BY <3>2
      <4> QED BY <2>1, <2>6, <3>1, <4>1 DEF Behind
    <3>4. ASSUME NEW i \in batch, h = one(i) PROVE FALSE
      <4>1. h.session = past.sessions /\ h.cell = cell /\ h.turn = talk.turn /\ h.call = i
        BY <3>4
      <4>2. i < talk.next
        BY <1>2, <2>1, <3>1, <4>1 DEF Behind, TypeOK
      <4> QED BY <2>1, <2>2, <2>3, <4>2
    <3> QED BY <2>5, <3>3, <3>4
  <2>8. ASSUME NEW h \in new
        PROVE  /\ Behind(h)' /\ h.cell = cell /\ h.turn = talk.turn /\ h.call \in batch
    <3>1. PICK i \in batch : h = one(i) BY <2>5
    <3>2. h.session = past.sessions /\ h.cell = cell /\ h.turn = talk.turn /\ h.call = i
      BY <3>1
    <3>3. h.call < talk'.next BY <2>2, <2>6, <3>2
    <3>4. Behind(h)' BY <2>1, <2>6, <3>2, <3>3 DEF Behind
    <3> QED BY <3>2, <3>4
  <2>9. ASSUME NEW g \in new, NEW h \in new, g # h PROVE Neighbours(g, h)'
    <3>1. PICK i \in batch : g = one(i) BY <2>5
    <3>2. PICK j \in batch : h = one(j) BY <2>5
    <3>3. g.call = i /\ h.call = j /\ i # j BY <2>9, <3>1, <3>2
    <3>4. version # "v2"
          /\ talk.calls[i] = "read" /\ talk.calls[j] = "read"
          /\ \A k \in i..j : talk.calls[k] = "read"
      BY <2>1, <3>3, BatchIsReads DEF batch
    <3>5. j - i < MaxConcurrent
      <4>1. MaxConcurrent \in Nat BY RunnerAssumption
      <4> QED BY <2>1, <2>3, <4>1
    <3> QED BY <1>1, <2>6, <3>3, <3>4, <3>5 DEF Neighbours
  <2>10. past.stray \subseteq host.running /\ host.running \ past.stray = {}
    BY <1>2, <2>1 DEF CallsInv
  <2>11. past'.stray \subseteq host'.running /\ talk'.awaited = host'.running \ past'.stray
    BY <2>1, <2>6, <2>7, <2>10
  <2>12. /\ \A h \in host'.running : Behind(h)'
         /\ \A h \in talk'.awaited : h.cell = cell' /\ h.turn = talk'.turn
         /\ \A g, h \in talk'.awaited : g # h => Neighbours(g, h)'
    BY <2>1, <2>6, <2>7, <2>8, <2>9
  <2> QED BY <2>1, <2>11, <2>12 DEF CallsInv
<1>22. CASE Unparsable BY <1>2, <1>3, <1>22, MovesOn DEF Unparsable
<1>23. CASE EndTurn
  <2>1. pc' \in {"model", "report"} BY <1>23 DEF EndTurn
  <2> QED BY <1>2, <1>3, <1>23, <2>1, MovesOn DEF EndTurn
<1>24. ASSUME \A h \in talk'.awaited : h \in talk.awaited,
              host'.running \subseteq host.running, past'.stray \subseteq host'.running,
              talk'.awaited = host'.running \ past'.stray, past'.sessions = past.sessions,
              talk'.turn = talk.turn, talk'.next = talk.next, talk'.calls = talk.calls,
              UNCHANGED <<pc, cell>>,
              pc \in {"down", "boundary", "reset", "connect"} => talk' = talk
       PROVE  CallsInv'
  <2>1. \A h \in host'.running : Behind(h)'
    BY <1>2, <1>24 DEF CallsInv, Behind
  <2>2. \A g, h \in talk'.awaited : g # h => Neighbours(g, h)'
    BY <1>1, <1>2, <1>24 DEF CallsInv, Neighbours
  <2>3. /\ \A h \in talk'.awaited : h.cell = cell' /\ h.turn = talk'.turn
        /\ pc' # "calls" => talk'.awaited = {}
        /\ pc' \in {"down", "boundary", "reset", "connect"} => talk' = NoTalk
    BY <1>2, <1>24 DEF CallsInv
  <2> QED BY <1>24, <2>1, <2>2, <2>3 DEF CallsInv
<1>25. CASE HandlerEnds
  <2>0. PICK h \in host.running, uncertain \in BOOLEAN :
            /\ host' = [running |-> host.running \ {h}, uncertain |-> host.uncertain \/ uncertain]
            /\ talk' = [talk EXCEPT !.awaited = @ \ {h}]
            /\ past' = [past EXCEPT !.stray = @ \ {h}]
            /\ UNCHANGED <<version, disk, report, files, pc, cell>>
    BY <1>25, Zenon DEF HandlerEnds
  <2>1. /\ host'.running = host.running \ {h}
        /\ talk' = [talk EXCEPT !.awaited = @ \ {h}]
        /\ past' = [past EXCEPT !.stray = @ \ {h}]
        /\ UNCHANGED <<pc, cell>>
    BY <2>0
  <2>2. /\ talk'.awaited = talk.awaited \ {h} /\ past'.stray = past.stray \ {h}
        /\ past'.sessions = past.sessions
        /\ talk'.turn = talk.turn /\ talk'.next = talk.next /\ talk'.calls = talk.calls
    BY <1>2, <2>1 DEF TypeOK, Talk
  <2>3. pc \in {"down", "boundary", "reset", "connect"} => talk' = talk
    <3>1. pc \in {"down", "boundary", "reset", "connect"} => talk.awaited \ {h} = talk.awaited
      BY <1>3
    <3> QED BY <1>2, <2>1, <3>1 DEF TypeOK, Talk
  <2>4. past'.stray \subseteq host'.running /\ talk'.awaited = host'.running \ past'.stray
    BY <1>2, <2>1, <2>2 DEF CallsInv
  <2> QED BY <1>24, <2>1, <2>2, <2>3, <2>4
<1>26. CASE LoseCall
  <2>1. PICK h \in talk.awaited :
            /\ talk' = [talk EXCEPT !.awaited = @ \ {h}]
            /\ past' = [past EXCEPT !.stray = @ \cup {h}]
            /\ UNCHANGED <<pc, cell, host>>
    BY <1>26 DEF LoseCall
  <2>2. /\ talk'.awaited = talk.awaited \ {h} /\ past'.stray = past.stray \cup {h}
        /\ past'.sessions = past.sessions
        /\ talk'.turn = talk.turn /\ talk'.next = talk.next /\ talk'.calls = talk.calls
    BY <1>2, <2>1 DEF TypeOK, Talk
  <2>3. past'.stray \subseteq host'.running /\ talk'.awaited = host'.running \ past'.stray
    BY <1>2, <2>1, <2>2 DEF CallsInv
  <2>4. pc = "calls" BY <1>3, <2>1
  <2> QED BY <1>24, <2>1, <2>2, <2>3, <2>4
<1>27. CASE Expire
  <2>1. /\ pc \in {"calls", "model", "asked"}
        /\ talk' = [talk EXCEPT !.expired = TRUE, !.awaited = talk'.awaited]
        /\ talk'.awaited = talk.awaited \/ talk'.awaited = {}
        /\ past' = [past EXCEPT !.stray = @ \cup (talk.awaited \ talk'.awaited)]
        /\ UNCHANGED <<pc, cell, host>>
    BY <1>2, <1>27 DEF Expire, TypeOK, Talk
  <2>2. /\ past'.stray = past.stray \cup (talk.awaited \ talk'.awaited)
        /\ past'.sessions = past.sessions
        /\ talk'.turn = talk.turn /\ talk'.next = talk.next /\ talk'.calls = talk.calls
    BY <1>2, <2>1 DEF TypeOK, Talk
  <2>3. past'.stray \subseteq host'.running /\ talk'.awaited = host'.running \ past'.stray
    BY <1>2, <2>1, <2>2 DEF CallsInv
  <2> QED BY <1>24, <2>1, <2>2, <2>3
<1>28. CASE Collect
  <2>1. talk'.awaited = talk.awaited /\ talk'.turn = talk.turn /\ talk'.next = talk.next
    BY <1>2, <1>28 DEF Collect, TypeOK, Talk
  <2> QED BY <1>2, <1>3, <1>28, <2>1, MovesOn DEF Collect
<1>29. CASE CollectFile
  <2>1. CASE Plan[cell] \in files BY <1>4, <1>5, <1>29, <2>1 DEF CollectFile
  <2>2. CASE Plan[cell] \notin files
    <3>1. talk'.awaited = talk.awaited /\ talk'.turn = talk.turn /\ talk'.next = talk.next
      BY <1>2, <1>29, <2>2 DEF CollectFile, TypeOK, Talk
    <3> QED BY <1>2, <1>3, <1>29, <2>2, <3>1, MovesOn DEF CollectFile
  <2> QED BY <2>1, <2>2
<1>30. ASSUME pc = "save", NEW saved, After(saved), UNCHANGED host PROVE CallsInv'
  <2>1. CASE talk.stop BY <1>4, <1>5, <1>30, <2>1 DEF After
  <2>2. CASE ~talk.stop BY <1>2, <1>3, <1>30, <2>2, MovesOn DEF After
  <2> QED BY <2>1, <2>2
<1>31. CASE Save BY <1>30, <1>31 DEF Save
<1>32. CASE SaveCell BY <1>30, <1>32 DEF SaveCell
<1>33. CASE UNCHANGED vars
  BY <1>1, <1>2, <1>33 DEF vars, CallsInv, Behind, Neighbours
<1> QED
  BY <1>7, <1>8, <1>9, <1>10, <1>11, <1>12, <1>13, <1>14, <1>15, <1>16, <1>17, <1>18, <1>19,
     <1>20, <1>21, <1>22, <1>23, <1>25, <1>26, <1>27, <1>28, <1>29, <1>31, <1>32, <1>33
  DEF Next, Session, Conversation

\* The record that a cell leaves is of a cell the report did not have.
LEMMA RecordingIsSound ==
    ASSUME IInv, pc = "save", NEW r, r.records = Recording.records
    PROVE  Recorded(r) = Recorded(report) \cup {Plan[cell]} /\ Sound(r)
<1> DEFINE entry == [cell |-> Plan[cell], made |-> talk.made]
<1>1. /\ report \in Report /\ version \in Versions /\ talk.made \in Nat
      /\ Plan[cell] \notin Recorded(report) /\ Sound(report)
      /\ cell \in 1..Len(Plan)
  BY PlanIsFull DEF IInv, TypeOK, WalkInv, Talk
<1>2. Plan[cell] \in PlanCells /\ Plan[cell] \in Cell BY <1>1, PlanIsFull
<1>3. entry \in [cell : Cell, made : Nat] BY <1>1, <1>2
<1>4. report.records \in Seq([cell : Cell, made : Nat]) BY <1>1 DEF Report
<1>5. r.records = Append(report.records, entry) BY <1>1 DEF Recording, Report
<1>6. entry.cell = Plan[cell] OBVIOUS
<1> HIDE DEF entry
<1>7. /\ Len(r.records) = Len(report.records) + 1
      /\ DOMAIN r.records = 1..Len(report.records) + 1
      /\ DOMAIN report.records = 1..Len(report.records)
      /\ Len(report.records) \in Nat
      /\ \A i \in 1..Len(report.records) : r.records[i] = report.records[i]
      /\ r.records[Len(report.records) + 1] = entry
  <2>1. r.records \in Seq([cell : Cell, made : Nat]) BY <1>3, <1>4, <1>5, AppendProperties
  <2> QED BY <1>3, <1>4, <1>5, <2>1, AppendProperties, LenProperties
<1>8. Recorded(r) = Recorded(report) \cup {Plan[cell]}
  <2>1. ASSUME NEW i \in DOMAIN r.records
        PROVE  r.records[i].cell \in Recorded(report) \cup {Plan[cell]}
    <3>1. i \in DOMAIN report.records \/ i = Len(report.records) + 1 BY <1>7
    <3> QED BY <1>6, <1>7, <3>1 DEF Recorded
  <2>2. ASSUME NEW i \in DOMAIN report.records PROVE report.records[i].cell \in Recorded(r)
    <3>1. i \in DOMAIN r.records /\ r.records[i] = report.records[i] BY <1>7
    <3> QED BY <3>1 DEF Recorded
  <2>3. Plan[cell] \in Recorded(r)
    <3>1. Len(report.records) + 1 \in DOMAIN r.records BY <1>7
    <3> QED BY <1>6, <1>7, <3>1 DEF Recorded
  <2> QED BY <2>1, <2>2, <2>3 DEF Recorded
<1>9. /\ IsFiniteSet(Recorded(r))
      /\ Cardinality(Recorded(r)) = Cardinality(Recorded(report)) + 1
  BY <1>1, <1>8, FS_AddElement DEF Sound
<1> QED BY <1>1, <1>2, <1>7, <1>8, <1>9 DEF Sound

\* The reports that Save and SaveCell write.
LEMMA SavedReport ==
    ASSUME IInv, pc = "save", NEW r,
           r = Recording \/ r = [Recording EXCEPT !.active = None]
    PROVE  /\ r \in Report /\ r # None
           /\ Recorded(r) = Recorded(report) \cup {Plan[cell]} /\ Sound(r)
           /\ ~r.complete
           /\ r.active = (IF r = Recording THEN report.active ELSE None)
<1>1. /\ report \in Report /\ version \in Versions /\ talk.made \in Nat
      /\ ~report.complete /\ cell \in 1..Len(Plan)
  BY PlanIsFull DEF IInv, TypeOK, WalkInv, Talk
<1>2. [cell |-> Plan[cell], made |-> talk.made] \in [cell : Cell, made : Nat]
  BY <1>1, PlanIsFull
<1>3. Append(report.records, [cell |-> Plan[cell], made |-> talk.made])
          \in Seq([cell : Cell, made : Nat])
  BY <1>1, <1>2, AppendProperties DEF Report
<1>4. /\ Recording \in Report /\ Recording.active = report.active
      /\ Recording.complete = report.complete
  BY <1>1, <1>3 DEF Recording, Report
<1>5. /\ r \in Report /\ r.records = Recording.records /\ r.complete = report.complete
      /\ r.active = (IF r = Recording THEN report.active ELSE None)
  BY <1>4 DEF Report
<1>6. r # None BY <1>5, RunnerAssumption
<1> QED BY <1>1, <1>5, <1>6, RecordingIsSound

\* An invariant step: WalkInv.
LEMMA WalkStep ==
    ASSUME IInv, [Next]_vars PROVE WalkInv'
<1>1. version' = version /\ Plan' = Plan /\ PlanCells' = PlanCells BY PlanStays
<1>2. TypeOK /\ CallsInv /\ WalkInv /\ DiskInv BY DEF IInv
<1>3. version \in Versions /\ Len(Plan) \in Nat /\ cell \in Nat BY <1>2, PlanIsFull DEF TypeOK
<1>4. ASSUME pc' = "down" PROVE WalkInv' BY <1>4 DEF WalkInv
<1>5. ASSUME pc \notin {"down", "boundary"}, pc' \notin {"down", "boundary"},
             UNCHANGED <<cell, disk, report>>
      PROVE  WalkInv'
  BY <1>1, <1>2, <1>5 DEF WalkInv, Recorded, Sound
<1>6. CASE Fresh
  <2>1. /\ report'.records = <<>> /\ report'.active = None /\ ~report'.complete
        /\ cell' = 1 /\ pc' = "boundary" /\ disk' = None
    BY <1>6 DEF Fresh
  <2>2. DOMAIN report'.records = {} /\ Len(report'.records) = 0 BY <2>1
  <2>3. Recorded(report)' = {} BY <2>2 DEF Recorded
  <2>4. Sound(report)' BY <2>2, <2>3, FS_EmptySet DEF Sound
  <2> QED BY <1>1, <1>3, <2>1, <2>4 DEF WalkInv
<1>7. CASE Resume
  <2>1. /\ report' = disk /\ disk # None /\ disk' = disk /\ cell' = 1 /\ pc' = "boundary"
        /\ ~disk.complete /\ disk.active = None
    BY <1>7 DEF Resume
  <2>2. Sound(disk) BY <1>2, <2>1 DEF DiskInv
  <2>3. Sound(report)' BY <1>1, <2>1, <2>2 DEF Sound, Recorded
  <2> QED BY <1>1, <1>3, <2>1, <2>3 DEF WalkInv
<1>8. CASE Skip
  <2>1. /\ pc = "boundary" /\ pc' = pc /\ cell' = cell + 1 /\ cell <= Len(Plan)
        /\ Plan[cell] \in Recorded(report)
        /\ UNCHANGED <<disk, report>>
    BY <1>8 DEF Skip, Planned
  <2>2. \A n \in 1..cell' - 1 : Plan[n] \in Recorded(report)
    <3>1. ASSUME NEW n \in 1..cell' - 1 PROVE n = cell \/ n \in 1..cell - 1
      BY <1>3, <2>1
    <3> QED BY <1>2, <2>1, <3>1 DEF WalkInv
  <2>3. cell' \in 1..Len(Plan) + 1 BY <1>3, <2>1
  <2>4. Recorded(report)' = Recorded(report) /\ (Sound(report) => Sound(report)')
    BY <1>1, <2>1 DEF Recorded, Sound
  <2> QED BY <1>1, <1>2, <2>1, <2>2, <2>3, <2>4 DEF WalkInv
<1>9. CASE Halt BY <1>4, <1>9 DEF Halt, Down
<1>10. CASE Begin
  <2>1. /\ pc = "boundary" /\ pc' = "reset" /\ cell' = cell /\ cell <= Len(Plan)
        /\ Plan[cell] \notin Recorded(report)
        /\ report' = IF version = "v3p2" THEN [report EXCEPT !.active = Plan[cell]] ELSE report
        /\ disk' = IF version = "v3p2" THEN report' ELSE disk
    BY <1>10 DEF Begin, Planned
  <2>2. report \in Report BY <1>2, <2>1 DEF TypeOK
  <2>3. /\ report'.records = report.records /\ report'.complete = report.complete
        /\ report'.active = IF version = "v3p2" THEN Plan[cell] ELSE report.active
    BY <2>1, <2>2 DEF Report
  <2>4. Recorded(report)' = Recorded(report) /\ (Sound(report) => Sound(report)')
    BY <1>1, <2>3 DEF Recorded, Sound
  <2>5. version = "v3p2" => disk' # None
    <3>1. report' \in Report BY <2>1, TypeStep DEF TypeOK
    <3> QED BY <2>1, <3>1, RunnerAssumption
  <2> QED BY <1>1, <1>2, <2>1, <2>3, <2>4, <2>5 DEF WalkInv
<1>11. CASE Complete BY <1>4, <1>11 DEF Complete, Down
<1>12. CASE Reset BY <1>5, <1>12 DEF Reset
<1>13. CASE Connect BY <1>5, <1>13 DEF Connect
<1>14. CASE Break BY <1>4, <1>14 DEF Break, Down
<1>15. CASE Crash BY <1>4, <1>15 DEF Crash, Down
<1>16. CASE \/ Ask \/ ModelCalls \/ FinalAnswer \/ ModelFails \/ Call \/ Unparsable \/ EndTurn
            \/ Expire \/ Collect
  <2>1. pc \notin {"down", "boundary"} /\ pc' \notin {"down", "boundary"}
    BY <1>16 DEF Ask, ModelCalls, FinalAnswer, ModelFails, Call, Unparsable, EndTurn, Expire,
                 Collect
  <2>2. UNCHANGED <<cell, disk, report>>
    BY <1>16, Zenon DEF Ask, ModelCalls, FinalAnswer, ModelFails, Call, Unparsable, EndTurn,
                 Expire, Collect
  <2> QED BY <1>5, <2>1, <2>2
<1>17. ASSUME UNCHANGED <<cell, disk, report, pc>> PROVE WalkInv'
  BY <1>1, <1>2, <1>17 DEF WalkInv, Recorded, Sound
<1>18. CASE HandlerEnds \/ LoseCall \/ UNCHANGED vars
  BY <1>17, <1>18 DEF HandlerEnds, LoseCall, vars
<1>19. CASE CollectFile
  <2>1. CASE Plan[cell] \in files BY <1>4, <1>19, <2>1 DEF CollectFile, Down
  <2>2. CASE Plan[cell] \notin files BY <1>5, <1>19, <2>2 DEF CollectFile
  <2> QED BY <2>1, <2>2
<1>20. ASSUME pc = "save", NEW r, disk' = r, After(r),
              r = IF version = "v3p2" THEN [Recording EXCEPT !.active = None] ELSE Recording
       PROVE  WalkInv'
  <2>1. CASE talk.stop BY <1>4, <1>20, <2>1 DEF After, Down
  <2>2. CASE ~talk.stop
    <3>1. report' = r /\ pc' = "boundary" /\ cell' = cell + 1 /\ disk' = r
      BY <1>20, <2>2 DEF After
    <3>2. /\ r \in Report /\ r # None /\ Sound(r) /\ ~r.complete
          /\ Recorded(r) = Recorded(report) \cup {Plan[cell]}
          /\ r.active = (IF r = Recording THEN report.active ELSE None)
      <4>1. r = Recording \/ r = [Recording EXCEPT !.active = None] BY <1>20
      <4> QED BY <1>20, <4>1, SavedReport
    <3>3. r.active = None
      <4>1. version # "v3p2" => report.active = None BY <1>2, <1>20 DEF WalkInv
      <4>2. report \in Report BY <1>2, <1>20 DEF TypeOK
      <4>3. version = "v3p2" => r.active = None
        BY <1>20, <4>2 DEF Recording, Report
      <4> QED BY <1>20, <3>2, <4>1, <4>3
    <3>4. \A n \in 1..cell' - 1 : Plan[n] \in Recorded(r)
      <4>1. ASSUME NEW n \in 1..cell' - 1 PROVE n = cell \/ n \in 1..cell - 1
        BY <1>3, <3>1
      <4> QED BY <1>2, <1>20, <3>2, <4>1 DEF WalkInv
    <3>5. cell' \in 1..Len(Plan) + 1 BY <1>2, <1>3, <1>20, <3>1 DEF WalkInv
    <3>6. Recorded(report)' = Recorded(r) /\ Sound(report)'
      BY <1>1, <3>1, <3>2 DEF Recorded, Sound
    <3> QED BY <1>1, <3>1, <3>2, <3>3, <3>4, <3>5, <3>6 DEF WalkInv
  <2> QED BY <2>1, <2>2
<1>21. CASE Save BY <1>20, <1>21 DEF Save
<1>22. CASE SaveCell BY <1>20, <1>22 DEF SaveCell
<1> QED
  BY <1>6, <1>7, <1>8, <1>9, <1>10, <1>11, <1>12, <1>13, <1>14, <1>15, <1>16, <1>18, <1>19, <1>21,
     <1>22
  DEF Next, Session, Conversation

\* An invariant step: DiskInv.
LEMMA DiskStep ==
    ASSUME IInv, [Next]_vars PROVE DiskInv'
<1>1. version' = version /\ Plan' = Plan /\ PlanCells' = PlanCells BY PlanStays
<1>2. TypeOK /\ WalkInv /\ DiskInv BY DEF IInv
<1>3. Len(Plan) \in Nat /\ DOMAIN Plan = 1..Len(Plan) /\ cell \in Nat
  BY <1>2, PlanIsFull DEF TypeOK
<1>4. ASSUME UNCHANGED disk PROVE DiskInv'
  BY <1>1, <1>2, <1>4 DEF DiskInv, Sound, Recorded
<1>5. CASE Begin
  <2>1. CASE version = "v3p2"
    <3>1. /\ report \in Report /\ Sound(report) /\ ~report.complete
          /\ disk' = [report EXCEPT !.active = Plan[cell]]
      BY <1>2, <1>5, <2>1 DEF Begin, Planned, TypeOK, WalkInv
    <3>2. disk'.records = report.records /\ ~disk'.complete BY <3>1 DEF Report
    <3> QED BY <1>1, <3>1, <3>2 DEF DiskInv, Sound, Recorded
  <2>2. CASE version # "v3p2" BY <1>4, <1>5, <2>2 DEF Begin
  <2> QED BY <2>1, <2>2
<1>6. CASE Complete
  <2>1. /\ report \in Report /\ Sound(report) /\ cell > Len(Plan)
        /\ cell \in 1..Len(Plan) + 1
        /\ \A n \in 1..cell - 1 : Plan[n] \in Recorded(report)
        /\ disk' = [report EXCEPT !.complete = TRUE]
    BY <1>2, <1>6 DEF Complete, TypeOK, WalkInv
  <2>2. disk'.records = report.records BY <2>1 DEF Report
  <2>3. cell - 1 = Len(Plan) BY <1>3, <2>1
  <2>4. PlanCells \subseteq Recorded(report) BY <1>3, <2>1, <2>3 DEF PlanCells
  <2> QED BY <1>1, <2>1, <2>2, <2>4 DEF DiskInv, Sound, Recorded
<1>7. ASSUME pc = "save", disk' = Recording \/ disk' = [Recording EXCEPT !.active = None]
      PROVE  DiskInv'
  <2>1. Sound(disk') /\ ~disk'.complete BY <1>7, SavedReport
  <2> QED BY <1>1, <2>1 DEF DiskInv, Sound, Recorded
<1>8. CASE Save BY <1>7, <1>8 DEF Save
<1>9. CASE SaveCell BY <1>7, <1>9 DEF SaveCell
<1>10. CASE \/ Fresh \/ Resume \/ Skip \/ Halt \/ Reset \/ Connect \/ Break \/ Crash
            \/ Conversation \/ Collect \/ CollectFile \/ UNCHANGED vars
  <2>1. UNCHANGED disk
    BY <1>10, Zenon DEF Conversation, vars, Fresh, Resume, Skip, Halt, Reset, Connect, Break,
         Crash, Ask, ModelCalls, FinalAnswer, ModelFails, Call, Unparsable, EndTurn, HandlerEnds,
         LoseCall, Expire, Collect, CollectFile
  <2> QED BY <1>4, <2>1
<1> QED BY <1>5, <1>6, <1>8, <1>9, <1>10 DEF Next, Session

\* An invariant step: OnceInv.
LEMMA OnceStep ==
    ASSUME IInv, [Next]_vars PROVE OnceInv'
<1>1. version' = version /\ Plan' = Plan /\ PlanCells' = PlanCells BY PlanStays
<1>2. SUFFICES ASSUME version = "v3p2" PROVE OnceInv'
  BY <1>1 DEF OnceInv
<1>3. TypeOK /\ WalkInv /\ DiskInv BY DEF IInv
<1>4. /\ disk # None => Recorded(disk) \subseteq files
      /\ pc = "save" => Plan[cell] \in files
      /\ pc = "reset" => past.begun[cell] = 0
      /\ \A n \in DOMAIN Plan : past.begun[n] > 0 =>
            past.begun[n] = 1 /\ disk # None
            /\ (Plan[n] \in Recorded(disk) \/ disk.active = Plan[n])
  BY <1>2 DEF IInv, OnceInv
<1>5. /\ DOMAIN Plan = 1..Len(Plan) /\ Len(Plan) \in Nat
      /\ \A n \in DOMAIN Plan : Plan[n] \in Cell /\ Plan[n] # None
  BY <1>3, PlanIsFull, RunnerAssumption DEF TypeOK
<1>6. past.begun \in [DOMAIN Plan -> Nat] BY <1>3 DEF TypeOK
<1>7. ASSUME UNCHANGED disk, past'.begun = past.begun, files \subseteq files',
             pc' \in {"save", "reset"} => pc' = pc /\ cell' = cell
      PROVE  OnceInv'
  BY <1>1, <1>4, <1>7 DEF OnceInv, Recorded
<1>8. ASSUME Down(TRUE) \/ Down(FALSE) PROVE past'.begun = past.begun /\ pc' = "down"
  BY <1>3, <1>8 DEF Down, TypeOK
<1>9. CASE Fresh
  <2>1. past'.begun = past.begun BY <1>3, <1>9 DEF Fresh, TypeOK
  <2> QED BY <1>7, <1>9, <2>1 DEF Fresh
<1>10. CASE Resume
  <2>1. past'.begun = past.begun BY <1>3, <1>10 DEF Resume, TypeOK
  <2> QED BY <1>7, <1>10, <2>1 DEF Resume
<1>11. CASE Begin
  <2>1. /\ pc = "boundary" /\ pc' = "reset" /\ cell' = cell /\ cell <= Len(Plan)
        /\ Plan[cell] \notin Recorded(report)
        /\ disk' = [report EXCEPT !.active = Plan[cell]]
        /\ past' = past /\ files' = files
    BY <1>2, <1>11 DEF Begin, Planned
  <2>2. /\ report \in Report /\ report.active = None /\ cell \in DOMAIN Plan
        /\ disk = None => report.records = <<>>
        /\ disk # None => disk = report
    BY <1>3, <1>5, <2>1 DEF TypeOK, WalkInv
  <2>3. disk'.records = report.records /\ disk' \in Report /\ disk'.active = Plan[cell]
    BY <1>5, <2>1, <2>2 DEF Report
  <2>4. disk' # None BY <2>3, RunnerAssumption
  <2>5. Recorded(disk)' = Recorded(report) BY <2>3 DEF Recorded
  <2>6. \A n \in DOMAIN Plan : past.begun[n] > 0 => Plan[n] \in Recorded(report)
    BY <1>4, <1>5, <2>2
  <2>7. past.begun[cell] = 0 BY <1>6, <2>1, <2>2, <2>6
  <2>8. Recorded(report) \subseteq files
    <3>1. CASE disk = None
      <4>1. DOMAIN report.records = {} BY <2>2, <3>1
      <4> QED BY <4>1 DEF Recorded
    <3>2. CASE disk # None BY <1>4, <2>2, <3>2
    <3> QED BY <3>1, <3>2
  <2> QED BY <1>1, <1>4, <2>1, <2>4, <2>5, <2>6, <2>7, <2>8 DEF OnceInv
<1>12. CASE Complete
  <2>1. /\ pc = "boundary" /\ pc' = "down" /\ past'.begun = past.begun /\ files' = files
        /\ disk' = [report EXCEPT !.complete = TRUE]
    BY <1>8, <1>12 DEF Complete
  <2>2. /\ report \in Report
        /\ disk = None => report.records = <<>>
        /\ disk # None => disk = report
    BY <1>3, <2>1 DEF TypeOK, WalkInv
  <2>3. /\ disk'.records = report.records /\ disk' \in Report /\ disk'.active = report.active
    BY <2>1, <2>2 DEF Report
  <2>4. disk' # None BY <2>3, RunnerAssumption
  <2>5. Recorded(disk)' = Recorded(report) BY <2>3 DEF Recorded
  <2>6. Recorded(report) \subseteq files
    <3>1. CASE disk = None
      <4>1. DOMAIN report.records = {} BY <2>2, <3>1
      <4> QED BY <4>1 DEF Recorded
    <3>2. CASE disk # None BY <1>4, <2>2, <3>2
    <3> QED BY <3>1, <3>2
  <2> QED BY <1>1, <1>4, <2>1, <2>2, <2>3, <2>4, <2>5, <2>6 DEF OnceInv
<1>13. CASE Reset
  <2>1. /\ pc = "reset" /\ pc' = "connect" /\ disk' = disk /\ files' = files
        /\ past'.begun = [past.begun EXCEPT ![cell] = @ + 1]
    BY <1>3, <1>13 DEF Reset, TypeOK
  <2>2. cell \in DOMAIN Plan /\ disk # None /\ disk.active = Plan[cell]
    BY <1>2, <1>3, <1>5, <2>1 DEF TypeOK, WalkInv
  <2>3. ASSUME NEW n \in DOMAIN Plan, past'.begun[n] > 0
        PROVE  past'.begun[n] = 1 /\ (Plan[n] \in Recorded(disk) \/ disk.active = Plan[n])
    <3>1. CASE n = cell BY <1>4, <1>6, <2>1, <2>2, <3>1
    <3>2. CASE n # cell BY <1>4, <1>6, <2>1, <2>2, <2>3, <3>2
    <3> QED BY <3>1, <3>2
  <2> QED BY <1>1, <1>4, <2>1, <2>2, <2>3 DEF OnceInv, Recorded
<1>14. CASE CollectFile
  <2>1. CASE Plan[cell] \in files BY <1>7, <1>8, <1>14, <2>1 DEF CollectFile
  <2>2. CASE Plan[cell] \notin files
    <3>1. /\ files' = files \cup {Plan[cell]} /\ pc' = "save"
          /\ UNCHANGED <<disk, cell, past>>
      BY <1>14, <2>2 DEF CollectFile
    <3> QED BY <1>1, <1>4, <3>1 DEF OnceInv, Recorded
  <2> QED BY <2>1, <2>2
<1>15. CASE SaveCell
  <2>1. /\ pc = "save" /\ files' = files /\ pc' \notin {"save", "reset"}
        /\ disk' = [Recording EXCEPT !.active = None]
        /\ past'.begun = past.begun
    <3>1. pc' \notin {"save", "reset"} /\ past'.begun = past.begun
      BY <1>8, <1>15 DEF SaveCell, After
    <3> QED BY <1>15, <3>1 DEF SaveCell
  <2>2. disk' # None /\ Recorded(disk') = Recorded(report) \cup {Plan[cell]}
    BY <2>1, SavedReport
  <2>3. disk # None /\ disk = report /\ disk.active = Plan[cell]
    BY <1>2, <1>3, <2>1 DEF WalkInv
  <2>4. Recorded(disk)' = Recorded(disk) \cup {Plan[cell]} BY <2>2, <2>3 DEF Recorded
  <2> QED BY <1>1, <1>4, <2>1, <2>2, <2>3, <2>4 DEF OnceInv
<1>16. CASE Halt \/ Break \/ Crash
  <2>1. /\ Down(TRUE) \/ Down(FALSE)
        /\ UNCHANGED <<disk, files>>
    BY <1>16 DEF Halt, Break, Crash
  <2> QED BY <1>7, <1>8, <2>1
<1>17. CASE Save BY <1>2, <1>17 DEF Save
<1>18. CASE Collect BY <1>2, <1>18 DEF Collect
<1>19. CASE Skip \/ Connect \/ Conversation \/ UNCHANGED vars
  <2>1. past'.begun = past.begun
    BY <1>3, <1>19 DEF Skip, Connect, Conversation, vars, Ask, ModelCalls, FinalAnswer, ModelFails,
         Call, Unparsable, EndTurn, HandlerEnds, LoseCall, Expire, TypeOK
  <2>2. UNCHANGED <<disk, files>>
    BY <1>19, Zenon DEF Skip, Connect, Conversation, vars, Ask, ModelCalls, FinalAnswer, ModelFails,
         Call, Unparsable, EndTurn, HandlerEnds, LoseCall, Expire
  <2>3. pc' \in {"save", "reset"} => pc' = pc /\ cell' = cell
    BY <1>19 DEF Skip, Planned, Connect, Conversation, vars, Ask, ModelCalls, FinalAnswer,
         ModelFails, Call, Unparsable, EndTurn, HandlerEnds, LoseCall, Expire
  <2> QED BY <1>7, <2>1, <2>2, <2>3
<1> QED
  BY <1>9, <1>10, <1>11, <1>12, <1>13, <1>14, <1>15, <1>16, <1>17, <1>18, <1>19
  DEF Next, Session

\* A session that ends within its cell: part 2 has the mark on disk, the others count the cell.
LEMMA DownSpends ==
    ASSUME IInv, UNCHANGED <<version, disk>>, pc # "down",
           \/ Down(TRUE)
           \/ Down(FALSE) /\ pc = "boundary"
    PROVE  SpendInv'
<1>1. /\ pc' = "down" /\ talk' = NoTalk /\ Saved' = Saved /\ Marked' = Marked
  BY DEF Down, Saved, Marked, Spent
<1>2. /\ Turns \in Nat /\ MaxModelCalls \in Nat BY RunnerAssumption
<1>3. TypeOK /\ CallsInv /\ WalkInv /\ SpendInv BY DEF IInv
<1>4. /\ past.given \in Nat /\ past.spent \in Nat /\ talk.made \in Nat
      /\ version \in Versions
      /\ Saved \in Nat
  <2>1. disk # None => disk.records \in Entries BY <1>3 DEF TypeOK, Report, Entries
  <2>2. Saved \in Nat BY <2>1, SpentOf DEF Saved
  <2> QED BY <1>3, <2>2 DEF TypeOK, Talk
<1>5. /\ past'.spent = past.spent
      /\ past'.given = past.given \/ past'.given = past.given + 1
      /\ pc # "boundary" => past'.given = past.given + 1
  <2>1. CASE Down(TRUE)
    <3>1. past' = [past EXCEPT !.given = @ + 1, !.stray = @ \cup host.running]
      BY <2>1 DEF Down
    <3> QED BY <1>3, <3>1 DEF TypeOK
  <2>2. CASE Down(FALSE) /\ pc = "boundary"
    <3>1. past' = [past EXCEPT !.given = @ + 0, !.stray = @ \cup host.running]
      BY <2>2 DEF Down
    <3> QED BY <1>3, <1>4, <2>2, <3>1 DEF TypeOK
  <2> QED BY <2>1, <2>2
<1>6. /\ Turns * past.given \in Nat
      /\ Turns * (past.given + 1) = Turns * past.given + Turns
  BY <1>2, <1>4
<1>7. NoTalk.turn = 0 /\ NoTalk.made = 0 BY DEF NoTalk
<1>8. past.spent <= Saved + talk.made + (IF version # "v3p2" THEN Turns * past.given ELSE 0)
  BY <1>3 DEF SpendInv, Lost
<1>9. talk.made <= Turns /\ (pc = "boundary" => talk.made = 0)
  BY <1>3, <1>7 DEF SpendInv, CallsInv
<1>10. past'.spent <= Saved' + talk'.made + Lost'
  <2>1. CASE version # "v3p2"
    <3>1. Lost' = Turns * past'.given BY <2>1 DEF Lost
    <3>2. CASE pc = "boundary" BY <1>1, <1>2, <1>4, <1>5, <1>6, <1>7, <1>8, <1>9, <2>1, <3>1, <3>2
    <3>3. CASE pc # "boundary" BY <1>1, <1>2, <1>4, <1>5, <1>6, <1>7, <1>8, <1>9, <2>1, <3>1, <3>3
    <3> QED BY <3>2, <3>3
  <2>2. CASE version = "v3p2"
    <3>1. Lost' = IF Marked THEN Turns ELSE 0 BY <1>1, <2>2 DEF Lost
    <3>2. CASE pc = "boundary" BY <1>1, <1>2, <1>4, <1>5, <1>7, <1>8, <1>9, <2>2, <3>1, <3>2
    <3>3. CASE pc # "boundary"
      <4>1. Marked
        <5>1. /\ cell \in 1..Len(Plan) /\ disk # None /\ disk = report
              /\ report.active = Plan[cell]
          BY <1>3, <1>4, <2>2, <3>3, PlanIsFull DEF WalkInv
        <5>2. Plan[cell] \in Cell BY <1>4, <5>1, PlanIsFull
        <5> QED BY <5>1, <5>2, RunnerAssumption DEF Marked
      <4> QED BY <1>1, <1>2, <1>4, <1>5, <1>7, <1>8, <1>9, <2>2, <3>1, <4>1
    <3> QED BY <3>2, <3>3
  <2> QED BY <2>1, <2>2
<1> QED BY <1>1, <1>2, <1>3, <1>7, <1>10 DEF SpendInv

\* An invariant step: SpendInv.
LEMMA SpendStep ==
    ASSUME IInv, [Next]_vars PROVE SpendInv'
<1>1. version' = version BY PlanStays
<1>2. Turns \in Nat \ {0} /\ MaxModelCalls \in Nat BY RunnerAssumption
<1>3. TypeOK /\ CallsInv /\ WalkInv /\ SpendInv BY DEF IInv
<1>4. /\ past.given \in Nat /\ past.spent \in Nat /\ talk.made \in Nat /\ talk.turn \in Nat
      /\ version \in Versions
  BY <1>3 DEF TypeOK, Talk
<1>5. /\ disk # None => disk.records \in Entries
      /\ Saved \in Nat
      /\ pc # "down" => report.records \in Entries /\ Saved = Spent(report)
  <2>1. /\ disk # None => disk.records \in Entries
        /\ pc # "down" => report.records \in Entries
    BY <1>3 DEF TypeOK, Report, Entries
  <2>2. Saved \in Nat BY <2>1, SpentOf DEF Saved
  <2>3. pc # "down" => Saved = Spent(report)
    BY <1>3, SpentNothing DEF WalkInv, Saved
  <2> QED BY <2>1, <2>2, <2>3
<1>6. Turns * past.given \in Nat BY <1>2, <1>4
<1>7. NoTalk.turn = 0 /\ NoTalk.made = 0 BY DEF NoTalk
<1>8. Lost \in Nat BY <1>2, <1>6 DEF Lost
<1>9. pc \notin {"calls", "model", "asked", "report", "save"} => talk = NoTalk
  BY <1>3 DEF CallsInv, TypeOK, Stages
<1>10. pc # "down" => (version = "v3p2" => Lost = 0) BY DEF Lost
<1>11. ASSUME UNCHANGED disk PROVE Saved' = Saved /\ Marked' = Marked
  BY <1>11 DEF Saved, Marked, Spent
<1>12. ASSUME UNCHANGED <<disk>>, past'.spent = past.spent, past'.given = past.given,
              talk'.turn = talk.turn, talk'.made = talk.made,
              pc' # "down", pc # "down" \/ ~Marked,
              pc' \notin {"boundary"} => pc \notin {"down", "boundary"},
              pc' \in {"calls", "model"} => talk.made = talk.turn,
              pc' = "model" => talk.turn < Turns,
              pc' = "asked" => talk.made = talk.turn + 1
       PROVE  SpendInv'
  <2>1. Saved' = Saved /\ Marked' = Marked BY <1>11, <1>12
  <2>2. Lost' = Lost BY <1>1, <1>12, <2>1 DEF Lost
  <2> QED BY <1>3, <1>12, <2>1, <2>2 DEF SpendInv
<1>13. CASE Fresh
  <2>1. past'.spent = past.spent /\ past'.given = past.given /\ ~Marked
    BY <1>3, <1>13 DEF Fresh, TypeOK, Marked
  <2> QED BY <1>12, <1>13, <2>1 DEF Fresh
<1>14. CASE Resume
  <2>1. past'.spent = past.spent /\ past'.given = past.given /\ ~Marked
    BY <1>3, <1>14 DEF Resume, TypeOK, Marked
  <2> QED BY <1>12, <1>14, <2>1 DEF Resume
<1>15. CASE Skip BY <1>12, <1>15 DEF Skip, Planned
<1>16. CASE Halt
  <2>1. Down(FALSE) /\ pc = "boundary" /\ UNCHANGED <<version, disk>>
    BY <1>16 DEF Halt, Planned
  <2> QED BY <2>1, DownSpends
<1>17. CASE Begin
  <2>1. /\ pc = "boundary" /\ pc' = "reset" /\ talk' = talk /\ past' = past
        /\ Spent(report) < MaxModelCalls
        /\ report' = IF version = "v3p2" THEN [report EXCEPT !.active = Plan[cell]] ELSE report
        /\ disk' = IF version = "v3p2" THEN report' ELSE disk
    BY <1>17 DEF Begin, Planned, WithinLimit
  <2>2. Saved' = Saved
    <3>1. CASE version = "v3p2"
      <4>1. report \in Report /\ disk' = [report EXCEPT !.active = Plan[cell]]
        BY <1>3, <2>1, <3>1 DEF TypeOK
      <4>2. disk'.records = report.records BY <4>1 DEF Report
      <4>3. disk' # None
        <5>1. disk' \in Report
          BY <2>1, <3>1, TypeStep DEF TypeOK
        <5> QED BY <5>1, RunnerAssumption
      <4>4. Spent(disk') = Spent(report) BY <1>5, <2>1, <4>2, SpentOf
      <4>5. Saved' = Spent(disk') BY <4>3 DEF Saved, Spent
      <4> QED BY <1>5, <2>1, <4>4, <4>5
    <3>2. CASE version # "v3p2" BY <1>11, <2>1, <3>2
    <3> QED BY <3>1, <3>2
  <2>3. Lost' = Lost BY <1>1, <2>1 DEF Lost
  <2> QED BY <1>3, <1>5, <2>1, <2>2, <2>3 DEF SpendInv
<1>18. CASE Complete
  <2>1. /\ pc = "boundary" /\ pc' = "down" /\ talk' = NoTalk
        /\ past'.spent = past.spent /\ past'.given = past.given
        /\ disk' = [report EXCEPT !.complete = TRUE] /\ report \in Report
    BY <1>3, <1>18 DEF Complete, Down, TypeOK
  <2>2. disk'.records = report.records /\ disk'.active = report.active /\ disk' \in Report
    BY <2>1 DEF Report
  <2>3. disk' # None BY <2>2, RunnerAssumption
  <2>4. Spent(disk') = Spent(report) BY <1>5, <2>1, <2>2, SpentOf
  <2>5. Saved' = Saved BY <1>5, <2>1, <2>3, <2>4 DEF Saved, Spent
  <2>6. ~Marked' BY <1>3, <2>1, <2>2 DEF WalkInv, Marked
  <2>7. Lost' = Lost BY <1>1, <2>1, <2>6 DEF Lost
  <2>8. talk = NoTalk BY <1>9, <2>1
  <2> QED BY <1>2, <1>3, <1>7, <2>1, <2>5, <2>6, <2>7, <2>8 DEF SpendInv
<1>19. CASE Reset
  <2>1. past'.spent = past.spent /\ past'.given = past.given
    BY <1>3, <1>19 DEF Reset, TypeOK
  <2> QED BY <1>12, <1>19, <2>1 DEF Reset
<1>20. CASE Connect
  <2>1. talk = NoTalk /\ talk'.turn = 0 /\ talk'.made = 0
    BY <1>9, <1>20 DEF Connect, NoTalk
  <2> QED BY <1>7, <1>12, <1>20, <2>1 DEF Connect
<1>21. CASE Break
  <2>1. Down(TRUE) /\ pc # "down" /\ UNCHANGED <<version, disk>> BY <1>21 DEF Break
  <2> QED BY <2>1, DownSpends
<1>22. CASE Crash
  <2>1. /\ pc # "down" /\ UNCHANGED <<version, disk>>
        /\ Down(TRUE) \/ (Down(FALSE) /\ pc = "boundary")
    BY <1>22 DEF Crash
  <2> QED BY <2>1, DownSpends
<1>23. CASE Ask
  <2>1. /\ pc = "model" /\ pc' = "asked" /\ UNCHANGED disk
        /\ talk'.made = talk.made + 1 /\ talk'.turn = talk.turn
        /\ past'.spent = past.spent + 1 /\ past'.given = past.given
    BY <1>3, <1>23 DEF Ask, TypeOK, Talk
  <2>2. talk.made = talk.turn /\ talk.turn < Turns BY <1>3, <2>1 DEF SpendInv
  <2>3. Saved' = Saved /\ Marked' = Marked BY <1>11, <2>1
  <2>4. Lost' = Lost BY <1>1, <2>1 DEF Lost
  <2>5. past'.spent <= Saved' + talk'.made + Lost'
    BY <1>3, <1>4, <1>5, <1>8, <2>1, <2>3, <2>4 DEF SpendInv
  <2>6. talk'.made <= Turns BY <1>2, <1>4, <2>1, <2>2
  <2> QED BY <1>3, <2>1, <2>2, <2>3, <2>5, <2>6 DEF SpendInv
<1>24. CASE ModelCalls
  <2>1. /\ pc = "asked" /\ pc' = "calls" /\ UNCHANGED <<disk, past>>
        /\ talk'.made = talk.made /\ talk'.turn = talk.turn + 1
    BY <1>3, <1>24 DEF ModelCalls, TypeOK, Talk
  <2>2. talk.made = talk.turn + 1 /\ talk.made <= Turns BY <1>3, <2>1 DEF SpendInv
  <2>3. Saved' = Saved /\ Marked' = Marked BY <1>11, <2>1
  <2>4. Lost' = Lost BY <1>1, <2>1 DEF Lost
  <2> QED BY <1>3, <2>1, <2>2, <2>3, <2>4 DEF SpendInv
<1>25. CASE FinalAnswer BY <1>12, <1>25 DEF FinalAnswer
<1>26. CASE ModelFails
  <2>1. talk'.turn = talk.turn /\ talk'.made = talk.made
    BY <1>3, <1>26 DEF ModelFails, TypeOK, Talk
  <2> QED BY <1>12, <1>26, <2>1 DEF ModelFails
<1>27. CASE Call
  <2>1. talk'.turn = talk.turn /\ talk'.made = talk.made
    BY <1>3, <1>27 DEF Call, TypeOK, Talk
  <2>2. UNCHANGED <<disk, past, pc>> /\ pc = "calls" BY <1>27 DEF Call
  <2>3. talk.made = talk.turn BY <1>3, <2>2 DEF SpendInv
  <2> QED BY <1>12, <2>1, <2>2, <2>3
<1>28. CASE Unparsable BY <1>12, <1>28 DEF Unparsable
<1>29. CASE EndTurn
  <2>1. /\ pc = "calls" /\ UNCHANGED <<disk, past, talk>>
        /\ pc' = IF talk.turn < Turns THEN "model" ELSE "report"
    BY <1>29 DEF EndTurn
  <2>2. talk.made = talk.turn BY <1>3, <2>1 DEF SpendInv
  <2> QED BY <1>12, <2>1, <2>2
<1>30. ASSUME UNCHANGED <<disk, pc>>, past'.spent = past.spent, past'.given = past.given,
              talk'.turn = talk.turn, talk'.made = talk.made
       PROVE  SpendInv'
  <2>1. Saved' = Saved /\ Marked' = Marked BY <1>11, <1>30
  <2>2. Lost' = Lost BY <1>1, <1>30, <2>1 DEF Lost
  <2> QED BY <1>3, <1>30, <2>1, <2>2 DEF SpendInv
<1>31. CASE HandlerEnds \/ LoseCall \/ Expire \/ UNCHANGED vars
  <2>1. UNCHANGED <<disk, pc>>
    BY <1>31, Zenon DEF HandlerEnds, LoseCall, Expire, vars
  <2>2. past'.spent = past.spent /\ past'.given = past.given
    BY <1>3, <1>31 DEF HandlerEnds, LoseCall, Expire, vars, TypeOK
  <2>3. talk'.turn = talk.turn /\ talk'.made = talk.made
    BY <1>3, <1>31 DEF HandlerEnds, LoseCall, Expire, vars, TypeOK, Talk
  <2> QED BY <1>30, <2>1, <2>2, <2>3
<1>32. CASE Collect
  <2>1. talk'.turn = talk.turn /\ talk'.made = talk.made
    BY <1>3, <1>32 DEF Collect, TypeOK, Talk
  <2> QED BY <1>12, <1>32, <2>1 DEF Collect
<1>33. CASE CollectFile
  <2>1. CASE Plan[cell] \in files
    <3>1. Down(TRUE) /\ pc # "down" /\ UNCHANGED <<version, disk>>
      BY <1>33, <2>1 DEF CollectFile
    <3> QED BY <3>1, DownSpends
  <2>2. CASE Plan[cell] \notin files
    <3>1. talk'.turn = talk.turn /\ talk'.made = talk.made
      BY <1>3, <1>33, <2>2 DEF CollectFile, TypeOK, Talk
    <3> QED BY <1>12, <1>33, <2>2, <3>1 DEF CollectFile
  <2> QED BY <2>1, <2>2
<1>34. ASSUME pc = "save", NEW r, disk' = r, After(r),
              r = IF version = "v3p2" THEN [Recording EXCEPT !.active = None] ELSE Recording
       PROVE  SpendInv'
  <2> DEFINE entry == [cell |-> Plan[cell], made |-> talk.made]
  <2>1. report \in Report /\ cell \in 1..Len(Plan)
    BY <1>3, <1>4, <1>34, PlanIsFull DEF TypeOK, WalkInv
  <2>2. entry \in [cell : Cell, made : Nat] /\ entry.made = talk.made
    BY <1>4, <2>1, PlanIsFull
  <2>3. r = Recording \/ r = [Recording EXCEPT !.active = None] BY <1>34
  <2>4. r.records = Append(report.records, entry)
    BY <2>1, <2>3 DEF Recording, Report
  <2>5. r # None
        /\ r.active = (IF r = Recording THEN report.active ELSE None)
    BY <1>34, <2>3, SavedReport
  <2>6. r.active = None
    <3>1. version # "v3p2" => report.active = None BY <1>3, <1>34 DEF WalkInv
    <3>2. version = "v3p2" => r.active = None BY <1>34, <2>1 DEF Recording, Report
    <3> QED BY <1>34, <2>5, <3>1, <3>2
  <2> HIDE DEF entry
  <2>7. Spent(r) = Spent(report) + talk.made
    <3>1. report.records \in Entries BY <1>5, <1>34
    <3>2. Spent(r) = Spent(report) + entry.made BY <2>2, <2>4, <3>1, SpentGrows
    <3> QED BY <2>2, <3>2
  <2>8. Saved' = Saved + talk.made
    <3>1. Saved' = Spent(r) BY <1>34, <2>5 DEF Saved, Spent
    <3> QED BY <1>5, <1>34, <2>7, <3>1
  <2>9. ~Marked' BY <1>34, <2>5, <2>6 DEF Marked
  <2>10. /\ talk' = NoTalk /\ past'.spent = past.spent /\ past'.given = past.given
         /\ pc' \in {"down", "boundary"}
    <3>1. CASE talk.stop
      <4>1. Down(FALSE) BY <1>34, <3>1 DEF After
      <4>2. past' = [past EXCEPT !.given = @ + 0, !.stray = @ \cup host.running]
        BY <4>1 DEF Down
      <4>3. past'.spent = past.spent /\ past'.given = past.given
        BY <1>3, <1>4, <4>2 DEF TypeOK
      <4> QED BY <4>1, <4>3 DEF Down
    <3>2. CASE ~talk.stop BY <1>34, <3>2 DEF After
    <3> QED BY <3>1, <3>2
  <2>11. Lost' = Lost BY <1>1, <1>34, <2>9, <2>10 DEF Lost
  <2>12. Saved < MaxModelCalls /\ talk.made <= Turns
         /\ past.spent <= Saved + talk.made + Lost
    BY <1>3, <1>34 DEF SpendInv
  <2>13. Saved' < MaxModelCalls + Turns BY <1>2, <1>4, <1>5, <2>8, <2>12
  <2>14. past'.spent <= Saved' + talk'.made + Lost'
    BY <1>4, <1>5, <1>7, <1>8, <2>8, <2>10, <2>11, <2>12
  <2> QED BY <1>2, <1>7, <2>9, <2>10, <2>13, <2>14 DEF SpendInv
<1>35. CASE Save BY <1>34, <1>35 DEF Save
<1>36. CASE SaveCell BY <1>34, <1>36 DEF SaveCell
<1> QED
  BY <1>13, <1>14, <1>15, <1>16, <1>17, <1>18, <1>19, <1>20, <1>21, <1>22, <1>23, <1>24, <1>25,
     <1>26, <1>27, <1>28, <1>29, <1>31, <1>32, <1>33, <1>35, <1>36
  DEF Next, Session, Conversation

-----------------------------------------------------------------------------
(* The theorems *)

\* The first state: nothing is on disk and nothing runs.
LEMMA Initially == Init => IInv
<1> SUFFICES ASSUME Init PROVE IInv OBVIOUS
<1>1. version \in Versions /\ disk = None /\ pc = "down" /\ cell = 0 /\ talk = NoTalk
  BY DEF Init
<1>2. host = [uncertain |-> FALSE, running |-> {}]
      /\ past = [spent |-> 0, sessions |-> 0, given |-> 0, stray |-> {},
                 begun |-> [n \in DOMAIN Plan |-> 0]]
  BY DEF Init
<1>3. TypeOK BY <1>1, <1>2, NoTalkType DEF TypeOK, Stages
<1>4. CallsInv BY <1>1, <1>2 DEF CallsInv, NoTalk
<1>5. WalkInv /\ DiskInv BY <1>1 DEF WalkInv, DiskInv
<1>6. OnceInv BY <1>1, <1>2 DEF OnceInv
<1>7. SpendInv
  <2>1. Turns \in Nat \ {0} /\ MaxModelCalls \in Nat \ {0} BY RunnerAssumption
  <2>2. /\ Saved = 0 /\ ~Marked /\ talk.turn = 0 /\ talk.made = 0
        /\ past.spent = 0 /\ past.given = 0
    BY <1>1, <1>2 DEF Saved, Marked, NoTalk
  <2>3. Lost = 0 BY <2>1, <2>2 DEF Lost
  <2> QED BY <1>1, <2>1, <2>2, <2>3 DEF SpendInv
<1> QED BY <1>3, <1>4, <1>5, <1>6, <1>7 DEF IInv

\* The invariant is inductive: every state of every run satisfies it, whatever the cases,
\* the modes, the limits and the order in which sessions end.
THEOREM Invariance == Spec => []IInv
<1>1. IInv /\ [Next]_vars => IInv'
  BY TypeStep, CallsStep, WalkStep, DiskStep, OnceStep, SpendStep DEF IInv
<1> QED BY Initially, <1>1, PTL DEF Spec

\* Types, in every state of every run.
THEOREM Types == Spec => []TypeOK
<1>1. IInv => TypeOK BY DEF IInv
<1> QED BY Invariance, <1>1, PTL

\* A recorded cell is never run again and is recorded once, a complete report covers
\* every case, mode and repetition, and part 2 runs no cell twice, however often run.mjs is
\* interrupted and resumed.
THEOREM CellsOnce == Spec => []EveryCellOnce
<1>1. IInv => EveryCellOnce
  <2> SUFFICES ASSUME IInv PROVE EveryCellOnce OBVIOUS
  <2>1. TypeOK /\ WalkInv /\ DiskInv /\ OnceInv /\ version \in Versions BY DEF IInv, TypeOK
  <2>2. PlanCells = Everything BY <2>1, PlanIsFull
  <2>3. pc \notin {"down", "boundary"} /\ disk # None => Plan[cell] \notin Recorded(disk)
    BY <2>1 DEF WalkInv
  <2>4. disk # None => Cardinality(Recorded(disk)) = Len(disk.records)
    BY <2>1 DEF DiskInv, Sound
  <2>5. disk # None /\ disk.complete => Recorded(disk) = Everything
    BY <2>1, <2>2 DEF DiskInv, Sound
  <2>6. version = "v3p2" =>
          /\ \A n \in DOMAIN past.begun : past.begun[n] <= 1
          /\ disk # None => Recorded(disk) \subseteq files
    <3>1. past.begun \in [DOMAIN Plan -> Nat] BY <2>1 DEF TypeOK
    <3>2. ASSUME version = "v3p2", NEW n \in DOMAIN past.begun PROVE past.begun[n] <= 1
      <4>1. n \in DOMAIN Plan /\ past.begun[n] \in Nat BY <3>1
      <4>2. past.begun[n] > 0 => past.begun[n] = 1 BY <2>1, <3>2, <4>1 DEF OnceInv
      <4> QED BY <4>1, <4>2
    <3> QED BY <2>1, <3>2 DEF OnceInv
  <2> QED BY <2>3, <2>4, <2>5, <2>6, Zenon DEF EveryCellOnce, Everything
<1> QED BY Invariance, <1>1, PTL

\* All model calls ever made, those of lost records too, exceed the limit of a run by less
\* than the turns of one cell; before part 2, by those of one more for each that was given up.
THEOREM SpendingBounded == Spec => []SpendingIsBounded
<1>1. IInv => SpendingIsBounded
  <2> SUFFICES ASSUME IInv PROVE SpendingIsBounded OBVIOUS
  <2>1. TypeOK /\ CallsInv /\ SpendInv BY DEF IInv
  <2>2. Turns \in Nat /\ MaxModelCalls \in Nat BY RunnerAssumption
  <2>3. past.given \in Nat /\ past.spent \in Nat /\ talk.made \in Nat BY <2>1 DEF TypeOK, Talk
  <2>4. Saved \in Nat
    <3>1. disk # None => disk.records \in Entries BY <2>1 DEF TypeOK, Report, Entries
    <3> QED BY <3>1, SpentOf DEF Saved
  <2>5. /\ Saved < MaxModelCalls + Turns
        /\ pc \notin {"down", "boundary"} \/ Marked => Saved < MaxModelCalls
        /\ past.spent <= Saved + talk.made + Lost
        /\ talk.made <= Turns
    BY <2>1 DEF SpendInv
  <2>6. pc \in {"down", "boundary"} => talk.made = 0 BY <2>1 DEF CallsInv, NoTalk
  <2>7. past.spent < MaxModelCalls + Turns + (IF version = "v3p2" THEN 0 ELSE Turns * past.given)
    <3>1. Turns * past.given \in Nat BY <2>2, <2>3
    <3>2. CASE version = "v3p2" BY <2>2, <2>3, <2>4, <2>5, <2>6, <3>2 DEF Lost
    <3>3. CASE version # "v3p2" BY <2>2, <2>3, <2>4, <2>5, <2>6, <3>1, <3>3 DEF Lost
    <3> QED BY <3>2, <3>3
  <2>8. Turns * (1 + past.given) = Turns + Turns * past.given /\ Turns * (1 + 0) = Turns
    BY <2>2, <2>3
  <2> QED BY <2>2, <2>3, <2>7, <2>8 DEF SpendingIsBounded
<1> QED BY Invariance, <1>1, PTL

\* Calls overlap only as executeCalls and the batches of the runners mean them to: neighbouring
\* reads of one turn, fewer than MaxConcurrent apart, and none runs outside the calls of its turn
\* unless the client gave it up.
THEOREM CallsInOrder == Spec => []CallsKeepTheirOrder
<1>1. IInv => CallsKeepTheirOrder
  <2> SUFFICES ASSUME IInv PROVE CallsKeepTheirOrder OBVIOUS
  <2>1. CallsInv BY DEF IInv
  <2>2. talk.awaited = host.running \ past.stray BY <2>1 DEF CallsInv
  <2>3. talk.awaited # {} => pc = "calls" BY <2>1 DEF CallsInv
  <2>4. ASSUME NEW g \in talk.awaited, NEW h \in talk.awaited
        PROVE  /\ g.cell = cell /\ g.turn = h.turn
               /\ g # h => Neighbours(g, h)
    BY <2>1, <2>4 DEF CallsInv
  <2> QED BY <2>2, <2>3, <2>4 DEF CallsKeepTheirOrder, Neighbours
<1> QED BY Invariance, <1>1, PTL
=============================================================================

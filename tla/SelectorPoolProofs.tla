-------------------------- MODULE SelectorPoolProofs --------------------------
(***************************************************************************)
(* Proofs about SelectorPool for any batches, sizes, workers and capacity  *)
(* of the semaphore, in both cores.  The batches touch each other only     *)
(* through the semaphore, so the invariant is one of each batch (BatchInv) *)
(* and one of the semaphore (SlotsInv).                                    *)
(***************************************************************************)
EXTENDS SelectorPool, FiniteSetTheorems, WellFoundedInduction, TLAPS

\* The candidates whose call is under way, and those whose call was made but not
\* yet added to the metrics.
Calling(b) == {i \in Candidates(b) : at[b][i] \in {"load", "swap", "call"}}
Uncounted(b) == {i \in Candidates(b) : at[b][i] \in {"call", "posted"} /\ local[b][i] # <<0, 0>>}

\* Where each candidate is, what it has on its stack and in its result.
PlacesInv(b) ==
    \A i \in Candidates(b) :
        /\ at[b][i] \in {"load", "swap"} => ~Rust /\ local[b][i][1] \in 1..highest[b]
        /\ at[b][i] = "swap" => local[b][i][2] < local[b][i][1]
        /\ at[b][i] \in {"queued", "acquire", "enter"} \/ Rust => local[b][i] = <<0, 0>>
        /\ at[b][i] \in {"posted", "gathered"} /\ outcome[b] = None =>
              answer[b][i] \in Verdicts \cup Errors
        /\ outcome[b] # None => at[b][i] = "gathered"

\* The activity counts the calls; the calls made are the counted and the uncounted;
\* and until it is the reported peak, the highest activity is on the stack of the
\* worker that reached it.
CountsInv(b) ==
    /\ active[b] = Cardinality(Calling(b))
    /\ started[b] = calls[b] + Cardinality(Uncounted(b))
    /\ peak[b] <= highest[b]
    /\ peak[b] < highest[b] => \E i \in Candidates(b) : /\ at[b][i] \in {"load", "swap"}
                                                        /\ local[b][i][1] = highest[b]

\* What a batch that has returned decided; NothingFromPartialAnswers of one batch.
DecidedInv(b) ==
    outcome[b] # None =>
        \/ /\ outcome[b].kind = "answers"
           /\ outcome[b].of \in [Candidates(b) -> Verdicts]
        \/ /\ outcome[b].kind = "set"
           /\ answer[b] \in [Candidates(b) -> Verdicts]
           /\ outcome[b].tools = {i \in Candidates(b) : answer[b][i] = "yes"}
        \/ /\ outcome[b].kind = "error"
           /\ \/ Rust /\ outcome[b].code = "deadline"
              \/ \E i \in Failed(b) : /\ outcome[b].code = answer[b][i]
                                      /\ \A j \in 1..i - 1 : answer[b][j] \in Verdicts

BatchInv(b) == PlacesInv(b) /\ CountsInv(b) /\ DecidedInv(b)

\* The semaphore is held by the candidates between acquiring and releasing it.
SlotsInv ==
    /\ \A b \in Batches : \A i \in Candidates(b) :
          <<b, i>> \in slots <=> at[b][i] \in {"enter", "load", "swap", "call"}
    /\ Cardinality(slots) <= Inflight

IInv == TypeOK /\ SlotsInv /\ \A b \in Batches : BatchInv(b)
-----------------------------------------------------------------------------
(* Data *)

\* An update of one candidate of one batch.
LEMMA Put2 ==
    ASSUME NEW V, NEW f, DOMAIN f = Batches, \A b \in Batches : f[b] \in [Candidates(b) -> V],
           NEW b \in Batches, NEW i \in Candidates(b), NEW v \in V, NEW g,
           g = [f EXCEPT ![b][i] = v]
    PROVE  /\ DOMAIN g = Batches
           /\ \A c \in Batches : g[c] \in [Candidates(c) -> V]
           /\ \A c \in Batches \ {b} : g[c] = f[c]
           /\ \A j \in Candidates(b) : g[b][j] = IF j = i THEN v ELSE f[b][j]
<1>1. f[b] \in [Candidates(b) -> V]
  OBVIOUS
<1>2. [f[b] EXCEPT ![i] = v] \in [Candidates(b) -> V]
  BY <1>1
<1>3. g = [f EXCEPT ![b] = [f[b] EXCEPT ![i] = v]]
  OBVIOUS
<1>4. DOMAIN g = Batches /\ g[b] = [f[b] EXCEPT ![i] = v] /\ \A c \in Batches \ {b} : g[c] = f[c]
  BY <1>3
<1>5. \A j \in Candidates(b) : g[b][j] = IF j = i THEN v ELSE f[b][j]
  BY <1>1, <1>4
<1> QED
  BY <1>2, <1>4, <1>5

LEMMA CandidatesFinite ==
    ASSUME NEW b \in Batches, NEW S \in SUBSET Candidates(b)
    PROVE  IsFiniteSet(S) /\ Cardinality(S) \in Nat /\ IsFiniteSet(Candidates(b))
<1>1. Size[b] \in Nat
  BY PoolAssumption
<1>2. IsFiniteSet(Candidates(b))
  BY <1>1, FS_Interval DEF Candidates
<1> QED
  BY <1>2, FS_Subset, FS_CardinalityType

LEMMA OneMore ==
    ASSUME NEW b \in Batches, NEW S \in SUBSET Candidates(b), NEW i \in Candidates(b) \ S
    PROVE  Cardinality(S \cup {i}) = Cardinality(S) + 1
  BY CandidatesFinite, FS_AddElement

LEMMA OneLess ==
    ASSUME NEW b \in Batches, NEW S \in SUBSET Candidates(b), NEW i \in S
    PROVE  Cardinality(S \ {i}) = Cardinality(S) - 1 /\ Cardinality(S) > 0
<1>1. Cardinality(S \ {i}) = Cardinality(S) - 1
  BY CandidatesFinite, FS_RemoveElement
<1>2. S \ {i} \in SUBSET Candidates(b)
  OBVIOUS
<1>3. Cardinality(S \ {i}) \in Nat /\ Cardinality(S) \in Nat
  BY <1>2, CandidatesFinite
<1> QED
  BY <1>1, <1>3

\* A set of natural numbers has a least element, which Min is.
LEMMA LeastOf ==
    ASSUME NEW S \in SUBSET Nat, S # {}
    PROVE  Min(S) \in S /\ \A y \in S : Min(S) <= y
<1>1. \E x \in S : \A y \in S : x <= y
  <2>1. PICK x \in S : \A y \in S : ~(<<y, x>> \in OpToRel(<, Nat))
    BY NatLessThanWellFounded, WFMin, Zenon
  <2>2. \A y \in S : ~(y < x)
    BY <2>1 DEF OpToRel
  <2> QED
    BY <2>2
<1> QED
  BY <1>1 DEF Min
-----------------------------------------------------------------------------
(* What a step leaves alone *)

\* The parts of batch c are what they were.
Same(c) ==
    /\ at'[c] = at[c] /\ local'[c] = local[c] /\ answer'[c] = answer[c]
    /\ outcome'[c] = outcome[c] /\ active'[c] = active[c] /\ peak'[c] = peak[c]
    /\ calls'[c] = calls[c] /\ started'[c] = started[c] /\ highest'[c] = highest[c]

LEMMA SameBatch ==
    ASSUME core' = core, NEW c \in Batches, Same(c), BatchInv(c)
    PROVE  BatchInv(c)'
<1>1. Calling(c)' = Calling(c) /\ Uncounted(c)' = Uncounted(c) /\ Failed(c)' = Failed(c)
  BY DEF Same, Calling, Uncounted, Failed, Candidates
<1>2. PlacesInv(c)'
  BY DEF Same, BatchInv, PlacesInv, Candidates, Rust
<1>3. CountsInv(c)'
  BY <1>1 DEF Same, BatchInv, CountsInv, Candidates
<1>4. DecidedInv(c)'
  BY <1>1 DEF Same, BatchInv, DecidedInv, Candidates, Rust
<1> QED
  BY <1>2, <1>3, <1>4 DEF BatchInv

\* A step of one batch.
LEMMA Assemble ==
    ASSUME IInv, core' = core, NEW b \in Batches, TypeOK', SlotsInv', BatchInv(b)',
           \A c \in Batches \ {b} : Same(c)
    PROVE  IInv'
<1>1. ASSUME NEW c \in Batches \ {b} PROVE BatchInv(c)'
  BY SameBatch DEF IInv
<1> QED
  BY <1>1 DEF IInv
-----------------------------------------------------------------------------
(* What a step of one candidate changes *)

\* Candidate i of b is moved to `place`.
LEMMA MoveFacts ==
    ASSUME TypeOK, NEW b \in Batches, NEW i \in Candidates(b), NEW place \in Places,
           Move(b, i, place)
    PROVE  /\ DOMAIN at' = Batches /\ \A c \in Batches : at'[c] \in [Candidates(c) -> Places]
           /\ \A c \in Batches \ {b} : at'[c] = at[c]
           /\ \A j \in Candidates(b) : at'[b][j] = IF j = i THEN place ELSE at[b][j]
<1>1. DOMAIN at = Batches /\ \A c \in Batches : at[c] \in [Candidates(c) -> Places]
  BY DEF TypeOK
<1>2. at' = [at EXCEPT ![b][i] = place]
  BY DEF Move
<1> QED
  BY <1>1, <1>2, Put2

LEMMA PostFacts ==
    ASSUME TypeOK, NEW b \in Batches, NEW i \in Candidates(b), NEW result \in Verdicts \cup Errors,
           Post(b, i, result)
    PROVE  /\ Move(b, i, "posted") /\ DOMAIN answer' = Batches
           /\ \A c \in Batches : answer'[c] \in [Candidates(c) -> Verdicts \cup Errors \cup {None}]
           /\ \A c \in Batches \ {b} : answer'[c] = answer[c]
           /\ \A j \in Candidates(b) : answer'[b][j] = IF j = i THEN result ELSE answer[b][j]
<1>1. DOMAIN answer = Batches
      /\ \A c \in Batches : answer[c] \in [Candidates(c) -> Verdicts \cup Errors \cup {None}]
  BY DEF TypeOK
<1>2. answer' = [answer EXCEPT ![b][i] = result] /\ Move(b, i, "posted")
  BY DEF Post
<1>3. result \in Verdicts \cup Errors \cup {None}
  OBVIOUS
<1> QED
  BY <1>1, <1>2, <1>3, Put2

\* The stack of candidate i of b becomes `pair`.
LEMMA LocalFacts ==
    ASSUME TypeOK, NEW b \in Batches, NEW i \in Candidates(b), NEW pair \in Nat \X Nat,
           local' = [local EXCEPT ![b][i] = pair]
    PROVE  /\ DOMAIN local' = Batches /\ \A c \in Batches : local'[c] \in [Candidates(c) -> Nat \X Nat]
           /\ \A c \in Batches \ {b} : local'[c] = local[c]
           /\ \A j \in Candidates(b) : local'[b][j] = IF j = i THEN pair ELSE local[b][j]
<1>1. DOMAIN local = Batches /\ \A c \in Batches : local[c] \in [Candidates(c) -> Nat \X Nat]
  BY DEF TypeOK
<1> QED
  BY <1>1, Put2

\* A candidate that neither takes nor gives back a slot.
LEMMA KeepSlots ==
    ASSUME TypeOK, SlotsInv, NEW b \in Batches, NEW i \in Candidates(b), NEW place \in Places,
           Move(b, i, place), UNCHANGED slots,
           at[b][i] \in {"enter", "load", "swap", "call"} <=> place \in {"enter", "load", "swap", "call"}
    PROVE  SlotsInv'
<1>1. ASSUME NEW c \in Batches, NEW j \in Candidates(c)
      PROVE  <<c, j>> \in slots' <=> at'[c][j] \in {"enter", "load", "swap", "call"}
  <2>1. CASE c = b
    BY <2>1, MoveFacts DEF SlotsInv
  <2>2. CASE c # b
    BY <2>2, MoveFacts DEF SlotsInv
  <2> QED
    BY <2>1, <2>2
<1>2. Cardinality(slots') <= Inflight
  BY DEF SlotsInv
<1> QED
  BY <1>1, <1>2 DEF SlotsInv, Candidates

\* Candidate i of b, whose batch goes on, is moved to `place`; nothing of the other
\* candidates and batches changes but the semaphore.
OnlyOne(b, i, place) ==
    /\ Move(b, i, place) /\ UNCHANGED <<core, dead, outcome>> /\ outcome[b] = None
    /\ DOMAIN local' = Batches /\ \A c \in Batches : local'[c] \in [Candidates(c) -> Nat \X Nat]
    /\ DOMAIN answer' = Batches
    /\ \A c \in Batches : answer'[c] \in [Candidates(c) -> Verdicts \cup Errors \cup {None}]
    /\ {active', peak', calls', started', highest'} \subseteq [Batches -> Nat]
    /\ \A j \in Candidates(b) \ {i} : local'[b][j] = local[b][j] /\ answer'[b][j] = answer[b][j]
    /\ \A c \in Batches \ {b} :
          /\ local'[c] = local[c] /\ answer'[c] = answer[c] /\ active'[c] = active[c]
          /\ peak'[c] = peak[c] /\ calls'[c] = calls[c] /\ started'[c] = started[c]
          /\ highest'[c] = highest[c]
    /\ highest'[b] >= highest[b]

\* What is left to show of such a step.
LEMMA StepOfOne ==
    ASSUME IInv, NEW b \in Batches, NEW i \in Candidates(b), NEW place \in Places,
           OnlyOne(b, i, place), SlotsInv',
           slots' \subseteq UNION {{c} \X Candidates(c) : c \in Batches}, IsFiniteSet(slots'),
           place \in {"load", "swap"} => ~Rust /\ local'[b][i][1] \in 1..highest'[b],
           place = "swap" => local'[b][i][2] < local'[b][i][1],
           place \in {"queued", "acquire", "enter"} \/ Rust => local'[b][i] = <<0, 0>>,
           place \in {"posted", "gathered"} => answer'[b][i] \in Verdicts \cup Errors,
           CountsInv(b)'
    PROVE  IInv'
<1>1. TypeOK /\ SlotsInv /\ PlacesInv(b) /\ CountsInv(b)
  BY DEF IInv, BatchInv
<1>2. /\ DOMAIN at' = Batches /\ \A c \in Batches : at'[c] \in [Candidates(c) -> Places]
      /\ \A c \in Batches \ {b} : at'[c] = at[c]
      /\ \A j \in Candidates(b) : at'[b][j] = IF j = i THEN place ELSE at[b][j]
  BY <1>1, MoveFacts DEF OnlyOne
<1>3. TypeOK'
  BY <1>1, <1>2 DEF TypeOK, OnlyOne, Candidates
<1>4. PlacesInv(b)'
  <2>1. ASSUME NEW j \in Candidates(b)
        PROVE  /\ at'[b][j] \in {"load", "swap"} => ~Rust' /\ local'[b][j][1] \in 1..highest'[b]
               /\ at'[b][j] = "swap" => local'[b][j][2] < local'[b][j][1]
               /\ at'[b][j] \in {"queued", "acquire", "enter"} \/ Rust' => local'[b][j] = <<0, 0>>
               /\ at'[b][j] \in {"posted", "gathered"} => answer'[b][j] \in Verdicts \cup Errors
    <3>1. Rust' = Rust
      BY DEF OnlyOne, Rust
    <3>2. CASE j = i
      BY <3>1, <3>2, <1>2
    <3>3. CASE j # i
      <4>1. highest[b] \in Nat /\ highest'[b] \in Nat /\ highest'[b] >= highest[b]
        BY <1>1 DEF OnlyOne, TypeOK
      <4>2. at'[b][j] = at[b][j] /\ local'[b][j] = local[b][j] /\ answer'[b][j] = answer[b][j]
        BY <3>3, <1>2 DEF OnlyOne
      <4>3. at[b][j] \in {"load", "swap"} => local[b][j][1] \in 1..highest'[b]
        BY <1>1, <4>1 DEF PlacesInv
      <4> QED
        BY <3>1, <4>2, <4>3, <1>1 DEF PlacesInv, OnlyOne
    <3> QED
      BY <3>2, <3>3
  <2>2. outcome'[b] = None
    BY DEF OnlyOne
  <2> QED
    BY <2>1, <2>2 DEF PlacesInv, Candidates
<1>5. DecidedInv(b)'
  BY DEF DecidedInv, OnlyOne
<1>6. \A c \in Batches \ {b} : Same(c)
  BY <1>2 DEF OnlyOne, Same
<1> QED
  BY <1>3, <1>4, <1>5, <1>6, Assemble DEF OnlyOne, BatchInv

\* The counted candidates after such a step.
LEMMA Tallies ==
    ASSUME IInv, NEW b \in Batches, NEW i \in Candidates(b), NEW place \in Places,
           OnlyOne(b, i, place)
    PROVE  /\ Calling(b)' = IF place \in {"load", "swap", "call"}
                            THEN Calling(b) \cup {i} ELSE Calling(b) \ {i}
           /\ Uncounted(b)' = IF place \in {"call", "posted"} /\ local'[b][i] # <<0, 0>>
                              THEN Uncounted(b) \cup {i} ELSE Uncounted(b) \ {i}
           /\ Cardinality(Calling(b)) \in Nat /\ Cardinality(Uncounted(b)) \in Nat
<1>1. \A j \in Candidates(b) : at'[b][j] = IF j = i THEN place ELSE at[b][j]
  BY MoveFacts DEF OnlyOne, IInv
<1>2. \A j \in Candidates(b) \ {i} : local'[b][j] = local[b][j]
  BY DEF OnlyOne
<1>3. Calling(b)' = {j \in Candidates(b) : at'[b][j] \in {"load", "swap", "call"}}
      /\ Uncounted(b)' = {j \in Candidates(b) : at'[b][j] \in {"call", "posted"} /\ local'[b][j] # <<0, 0>>}
  BY DEF Calling, Uncounted, Candidates
<1>4. Calling(b)' = IF place \in {"load", "swap", "call"} THEN Calling(b) \cup {i} ELSE Calling(b) \ {i}
  BY <1>1, <1>3 DEF Calling
<1>5. Uncounted(b)' = IF place \in {"call", "posted"} /\ local'[b][i] # <<0, 0>>
                      THEN Uncounted(b) \cup {i} ELSE Uncounted(b) \ {i}
  BY <1>1, <1>2, <1>3 DEF Uncounted
<1>6. Calling(b) \in SUBSET Candidates(b) /\ Uncounted(b) \in SUBSET Candidates(b)
  BY DEF Calling, Uncounted
<1> QED
  BY <1>4, <1>5, <1>6, CandidatesFinite
-----------------------------------------------------------------------------
(* The steps of a worker *)

LEMMA TakeStep ==
    ASSUME IInv, NEW b \in Batches, NEW i \in Candidates(b), Take(b, i) \/ GiveUp(b, i)
    PROVE  IInv'
<1>1. TypeOK /\ SlotsInv /\ PlacesInv(b) /\ CountsInv(b)
  BY DEF IInv, BatchInv
<1>2. /\ at[b][i] \in {"queued", "acquire"} /\ outcome[b] = None
      /\ UNCHANGED <<core, slots, active, peak, local, dead, calls, outcome, started, highest>>
      /\ \/ Post(b, i, "deadline")
         \/ Move(b, i, "acquire") /\ UNCHANGED answer
  BY <1>1 DEF Take, GiveUp, PlacesInv
<1>3. PICK place \in {"posted", "acquire"} :
         \/ place = "posted" /\ Post(b, i, "deadline")
         \/ place = "acquire" /\ Move(b, i, place) /\ UNCHANGED answer
  BY <1>2
<1>4. OnlyOne(b, i, place) /\ (place = "posted" => answer'[b][i] \in Verdicts \cup Errors)
  <2>1. CASE Post(b, i, "deadline") /\ place = "posted"
    <3>1. "deadline" \in Verdicts \cup Errors
      BY DEF Errors
    <3>2. /\ Move(b, i, "posted") /\ DOMAIN answer' = Batches
          /\ \A c \in Batches : answer'[c] \in [Candidates(c) -> Verdicts \cup Errors \cup {None}]
          /\ \A c \in Batches \ {b} : answer'[c] = answer[c]
          /\ \A j \in Candidates(b) : answer'[b][j] = IF j = i THEN "deadline" ELSE answer[b][j]
      BY <3>1, <2>1, <1>1, PostFacts
    <3> QED
      BY <3>1, <3>2, <1>1, <1>2, <2>1 DEF OnlyOne, TypeOK
  <2>2. CASE Move(b, i, place) /\ UNCHANGED answer /\ place = "acquire"
    BY <2>2, <1>1, <1>2 DEF OnlyOne, TypeOK
  <2> QED
    BY <2>1, <2>2, <1>3
<1>5. local'[b][i] = <<0, 0>>
  BY <1>1, <1>2 DEF PlacesInv
<1>6. SlotsInv'
  BY <1>1, <1>2, <1>4, KeepSlots DEF OnlyOne, Places, Busy
<1>7. CountsInv(b)'
  <2>1. i \notin Calling(b) /\ i \notin Uncounted(b)
    BY <1>2 DEF Calling, Uncounted
  <2>2. place \in Places
    BY DEF Places, Busy
  <2>3. Calling(b)' = Calling(b) /\ Uncounted(b)' = Uncounted(b)
    <3>1. place \notin {"load", "swap", "call"}
      OBVIOUS
    <3>2. Calling(b)' = Calling(b) \ {i} /\ Uncounted(b)' = Uncounted(b) \ {i}
      BY <2>2, <3>1, <1>4, <1>5, Tallies
    <3> QED
      BY <2>1, <3>2
  <2>4. \A j \in Candidates(b) : at[b][j] \in {"load", "swap"} => at'[b][j] = at[b][j]
    BY <2>2, <1>1, <1>2, <1>4, MoveFacts DEF OnlyOne
  <2> QED
    BY <1>1, <1>2, <2>3, <2>4 DEF CountsInv, Candidates
<1> QED
  BY <1>1, <1>2, <1>4, <1>5, <1>6, <1>7, StepOfOne DEF TypeOK, Places, Busy

LEMMA AcquireStep ==
    ASSUME IInv, NEW b \in Batches, NEW i \in Candidates(b), Acquire(b, i)
    PROVE  IInv'
<1>1. TypeOK /\ SlotsInv /\ PlacesInv(b) /\ CountsInv(b)
  BY DEF IInv, BatchInv
<1>2. OnlyOne(b, i, "enter") /\ "enter" \in Places
  BY <1>1 DEF Acquire, OnlyOne, PlacesInv, TypeOK, Places, Busy
<1>3. at' = [at EXCEPT ![b][i] = "enter"] /\ slots' = slots \cup {<<b, i>>} /\ at[b][i] = "acquire"
  BY DEF Acquire, Move
<1>4. /\ \A c \in Batches \ {b} : at'[c] = at[c]
      /\ \A j \in Candidates(b) : at'[b][j] = IF j = i THEN "enter" ELSE at[b][j]
  BY <1>1, <1>2, MoveFacts DEF OnlyOne
<1>5. SlotsInv' /\ IsFiniteSet(slots')
  <2>1. ASSUME NEW c \in Batches, NEW j \in Candidates(c)
        PROVE  <<c, j>> \in slots' <=> at'[c][j] \in {"enter", "load", "swap", "call"}
    <3>1. CASE c = b
      BY <3>1, <1>1, <1>3, <1>4 DEF SlotsInv
    <3>2. CASE c # b
      BY <3>2, <1>1, <1>3, <1>4 DEF SlotsInv
    <3> QED
      BY <3>1, <3>2
  <2>2. <<b, i>> \notin slots /\ IsFiniteSet(slots)
    BY <1>1, <1>3 DEF SlotsInv, TypeOK
  <2>3. Cardinality(slots') = Cardinality(slots) + 1 /\ IsFiniteSet(slots')
        /\ Cardinality(slots) \in Nat
    BY <2>2, <1>3, FS_AddElement, FS_CardinalityType
  <2>4. Cardinality(slots) < Inflight /\ Inflight \in Nat
    BY PoolAssumption DEF Acquire
  <2>5. Cardinality(slots') <= Inflight
    BY <2>3, <2>4
  <2> QED
    BY <2>1, <2>3, <2>5 DEF SlotsInv, Candidates
<1>6. slots' \subseteq UNION {{c} \X Candidates(c) : c \in Batches}
  BY <1>1, <1>3 DEF TypeOK
<1>7. local'[b][i] = <<0, 0>>
  BY <1>1 DEF PlacesInv, Acquire
<1>8. CountsInv(b)'
  <2>1. i \notin Calling(b) /\ i \notin Uncounted(b)
    BY <1>3 DEF Calling, Uncounted
  <2>2. Calling(b)' = Calling(b) \ {i} /\ Uncounted(b)' = Uncounted(b) \ {i}
    BY <1>2, <1>7, Tallies
  <2>3. Calling(b)' = Calling(b) /\ Uncounted(b)' = Uncounted(b)
    BY <2>1, <2>2
  <2>4. \A j \in Candidates(b) : at[b][j] \in {"load", "swap"} => at'[b][j] = at[b][j]
    BY <1>3, <1>4
  <2> QED
    BY <1>1, <2>3, <2>4 DEF CountsInv, Candidates, Acquire
<1> QED
  BY <1>2, <1>5, <1>6, <1>7, <1>8, StepOfOne

\* A candidate whose call is counted keeps its slot.
LEMMA EnterStep ==
    ASSUME IInv, NEW b \in Batches, NEW i \in Candidates(b), Enter(b, i)
    PROVE  IInv'
<1>1. TypeOK /\ SlotsInv /\ PlacesInv(b) /\ CountsInv(b)
  BY DEF IInv, BatchInv
<1> DEFINE n == active[b] + 1
<1>2. /\ at[b][i] = "enter" /\ ~Rust /\ outcome[b] = None /\ Move(b, i, "load")
      /\ active' = [active EXCEPT ![b] = n]
      /\ local' = [local EXCEPT ![b][i] = <<n, 0>>]
      /\ highest' = [highest EXCEPT ![b] = IF n > @ THEN n ELSE @]
      /\ UNCHANGED <<core, slots, peak, answer, dead, calls, outcome, started>>
  BY <1>1 DEF Enter, PlacesInv
<1>3. {active, peak, calls, started, highest} \subseteq [Batches -> Nat] /\ n \in Nat \ {0}
  BY <1>1 DEF TypeOK
<1>4. /\ active' \in [Batches -> Nat] /\ active'[b] = n /\ \A c \in Batches \ {b} : active'[c] = active[c]
      /\ highest' \in [Batches -> Nat] /\ \A c \in Batches \ {b} : highest'[c] = highest[c]
      /\ highest'[b] = IF n > highest[b] THEN n ELSE highest[b]
  BY <1>2, <1>3
<1>5. /\ DOMAIN local' = Batches /\ \A c \in Batches : local'[c] \in [Candidates(c) -> Nat \X Nat]
      /\ \A c \in Batches \ {b} : local'[c] = local[c]
      /\ \A j \in Candidates(b) : local'[b][j] = IF j = i THEN <<n, 0>> ELSE local[b][j]
  <2>1. <<n, 0>> \in Nat \X Nat
    BY <1>3
  <2> QED
    BY <2>1, <1>1, <1>2, LocalFacts
<1>6. OnlyOne(b, i, "load") /\ "load" \in Places \ {"gathered"}
  BY <1>1, <1>2, <1>3, <1>4, <1>5 DEF OnlyOne, TypeOK, Places, Busy
<1>7. SlotsInv' /\ slots' \subseteq UNION {{c} \X Candidates(c) : c \in Batches} /\ IsFiniteSet(slots')
  BY <1>1, <1>2, <1>6, KeepSlots DEF TypeOK
<1>8. CountsInv(b)'
  <2>1. i \notin Calling(b) /\ i \notin Uncounted(b)
    BY <1>2 DEF Calling, Uncounted
  <2>2. Calling(b)' = Calling(b) \cup {i} /\ Uncounted(b)' = Uncounted(b) \ {i}
    BY <1>6, Tallies
  <2>3. Cardinality(Calling(b)') = n /\ Uncounted(b)' = Uncounted(b)
    <3>1. Calling(b) \in SUBSET Candidates(b) /\ Uncounted(b) \ {i} = Uncounted(b)
      BY <2>1 DEF Calling
    <3>2. Cardinality(Calling(b) \cup {i}) = Cardinality(Calling(b)) + 1
      BY <2>1, <3>1, OneMore
    <3> QED
      BY <2>2, <3>1, <3>2, <1>1 DEF CountsInv
  <2>4. /\ at'[b][i] = "load" /\ local'[b][i][1] = n
        /\ \A j \in Candidates(b) : at[b][j] \in {"load", "swap"} =>
              at'[b][j] = at[b][j] /\ local'[b][j] = local[b][j]
    BY <1>1, <1>2, <1>5, <1>6, MoveFacts
  <2>5. peak'[b] <= highest'[b]
    BY <1>1, <1>2, <1>3, <1>4 DEF CountsInv
  <2>6. peak'[b] < highest'[b] => \E j \in Candidates(b) : /\ at'[b][j] \in {"load", "swap"}
                                                           /\ local'[b][j][1] = highest'[b]
    <3>1. CASE n > highest[b]
      BY <3>1, <1>4, <2>4
    <3>2. CASE ~(n > highest[b])
      BY <3>2, <1>1, <1>2, <1>4, <2>4 DEF CountsInv
    <3> QED
      BY <3>1, <3>2
  <2>7. started'[b] = calls'[b] + Cardinality(Uncounted(b)')
    BY <1>1, <1>2, <2>3 DEF CountsInv
  <2> QED
    BY <1>4, <2>3, <2>5, <2>6, <2>7 DEF CountsInv, Candidates
<1>9. local'[b][i][1] \in 1..highest'[b]
  <2>1. n <= highest'[b] /\ highest'[b] \in Nat
    BY <1>3, <1>4
  <2> QED
    BY <2>1, <1>3, <1>5
<1> QED
  BY <1>2, <1>6, <1>7, <1>8, <1>9, StepOfOne

\* A worker between enter() and its call: what the counts are when the call of i is
\* made, and when it goes round or on to the swap.
LEMMA SentCounts ==
    ASSUME IInv, NEW b \in Batches, NEW i \in Candidates(b), at[b][i] \in {"load", "swap"},
           OnlyOne(b, i, "call"), local'[b][i][1] = local[b][i][1],
           UNCHANGED <<active, calls, highest>>, started'[b] = started[b] + 1
    PROVE  /\ Cardinality(Calling(b)') = active'[b]
           /\ started'[b] = calls'[b] + Cardinality(Uncounted(b)')
           /\ \A j \in Candidates(b) \ {i} : at'[b][j] = at[b][j] /\ local'[b][j] = local[b][j]
<1>1. TypeOK /\ PlacesInv(b) /\ CountsInv(b)
  BY DEF IInv, BatchInv
<1>2. i \in Calling(b) /\ i \notin Uncounted(b) /\ local'[b][i] # <<0, 0>>
  BY <1>1 DEF Calling, Uncounted, PlacesInv
<1>3. "call" \in Places
  BY DEF Places, Busy
<1>4. Calling(b)' = Calling(b) \cup {i} /\ Uncounted(b)' = Uncounted(b) \cup {i}
      /\ Cardinality(Uncounted(b)) \in Nat
  BY <1>2, <1>3, Tallies
<1>5. Calling(b)' = Calling(b)
  BY <1>2, <1>4
<1>6. Cardinality(Uncounted(b)') = Cardinality(Uncounted(b)) + 1
  <2>1. Uncounted(b) \in SUBSET Candidates(b)
    BY DEF Uncounted
  <2>2. Cardinality(Uncounted(b) \cup {i}) = Cardinality(Uncounted(b)) + 1
    BY <1>2, <2>1, OneMore
  <2> QED
    BY <1>4, <2>2
<1>7. started[b] = calls[b] + Cardinality(Uncounted(b)) /\ calls[b] \in Nat
  BY <1>1 DEF CountsInv, TypeOK
<1>8. started'[b] = calls'[b] + Cardinality(Uncounted(b)')
  BY <1>4, <1>6, <1>7
<1>9. \A j \in Candidates(b) \ {i} : at'[b][j] = at[b][j] /\ local'[b][j] = local[b][j]
  BY <1>1, <1>3, MoveFacts DEF OnlyOne
<1> QED
  BY <1>1, <1>5, <1>8, <1>9 DEF CountsInv

LEMMA RoundCounts ==
    ASSUME IInv, NEW b \in Batches, NEW i \in Candidates(b), at[b][i] \in {"load", "swap"},
           NEW place \in {"load", "swap"}, OnlyOne(b, i, place), local'[b][i][1] = local[b][i][1],
           UNCHANGED <<active, peak, calls, highest, started>>
    PROVE  CountsInv(b)'
<1>1. TypeOK /\ PlacesInv(b) /\ CountsInv(b)
  BY DEF IInv, BatchInv
<1>2. i \in Calling(b) /\ i \notin Uncounted(b)
  BY DEF Calling, Uncounted
<1>3. place \in Places
  BY DEF Places, Busy
<1>4. Calling(b)' = Calling(b) \cup {i} /\ Uncounted(b)' = Uncounted(b) \ {i}
  <2>1. place \notin {"call", "posted"}
    OBVIOUS
  <2> QED
    BY <2>1, <1>3, Tallies
<1>5. Calling(b)' = Calling(b) /\ Uncounted(b)' = Uncounted(b)
  BY <1>2, <1>4
<1>6. \A j \in Candidates(b) : at[b][j] \in {"load", "swap"} =>
         at'[b][j] \in {"load", "swap"} /\ local'[b][j][1] = local[b][j][1]
  BY <1>1, <1>3, MoveFacts DEF OnlyOne
<1> QED
  BY <1>1, <1>5, <1>6 DEF CountsInv, Candidates

LEMMA LoadPeakStep ==
    ASSUME IInv, NEW b \in Batches, NEW i \in Candidates(b), LoadPeak(b, i)
    PROVE  IInv'
<1> DEFINE n == local[b][i][1]
           place == IF peak[b] >= n THEN "call" ELSE "swap"
<1>1. TypeOK /\ SlotsInv /\ PlacesInv(b) /\ CountsInv(b)
  BY DEF IInv, BatchInv
<1>2. /\ at[b][i] = "load" /\ outcome[b] = None /\ Move(b, i, place)
      /\ local' = [local EXCEPT ![b][i] = <<n, peak[b]>>]
      /\ started' = IF place = "call" THEN [started EXCEPT ![b] = @ + 1] ELSE started
      /\ UNCHANGED <<core, slots, active, peak, answer, dead, calls, outcome, highest>>
  BY <1>1 DEF LoadPeak, Send, PlacesInv
<1>3. /\ {active, peak, calls, started, highest} \subseteq [Batches -> Nat]
      /\ ~Rust /\ n \in 1..highest[b] /\ peak[b] \in Nat /\ highest[b] \in Nat
  BY <1>1, <1>2 DEF TypeOK, PlacesInv
<1>4. /\ DOMAIN local' = Batches /\ \A c \in Batches : local'[c] \in [Candidates(c) -> Nat \X Nat]
      /\ \A c \in Batches \ {b} : local'[c] = local[c]
      /\ \A j \in Candidates(b) : local'[b][j] = IF j = i THEN <<n, peak[b]>> ELSE local[b][j]
  <2>1. <<n, peak[b]>> \in Nat \X Nat
    BY <1>3
  <2> QED
    BY <2>1, <1>1, <1>2, LocalFacts
<1>5. started' \in [Batches -> Nat] /\ \A c \in Batches \ {b} : started'[c] = started[c]
  BY <1>2, <1>3
<1>6. OnlyOne(b, i, place) /\ place \in Places \ {"gathered"}
  <2>1. place \in Places \ {"gathered"}
    BY DEF Places, Busy
  <2>2. {active', peak', calls', started', highest'} \subseteq [Batches -> Nat]
        /\ highest'[b] >= highest[b]
    BY <1>2, <1>3, <1>5
  <2> HIDE DEF place
  <2> QED
    BY <2>1, <2>2, <1>1, <1>2, <1>4, <1>5 DEF OnlyOne, TypeOK
<1>7. SlotsInv' /\ slots' \subseteq UNION {{c} \X Candidates(c) : c \in Batches} /\ IsFiniteSet(slots')
  BY <1>1, <1>2, <1>6, KeepSlots DEF TypeOK
<1>8. CountsInv(b)'
  <2>1. local'[b][i][1] = local[b][i][1]
    BY <1>4
  <2>2. CASE place = "swap"
    BY <2>1, <2>2, <1>2, <1>6, RoundCounts
  <2>3. CASE place = "call"
    <3>1. peak[b] >= n /\ started'[b] = started[b] + 1
      BY <2>3, <1>2, <1>3
    <3>2. /\ Cardinality(Calling(b)') = active'[b]
          /\ started'[b] = calls'[b] + Cardinality(Uncounted(b)')
          /\ \A j \in Candidates(b) \ {i} : at'[b][j] = at[b][j] /\ local'[b][j] = local[b][j]
      BY <2>1, <2>3, <3>1, <1>2, <1>6, SentCounts
    <3>3. peak[b] < highest[b] => \E j \in Candidates(b) \ {i} : /\ at[b][j] \in {"load", "swap"}
                                                                /\ local[b][j][1] = highest[b]
      BY <3>1, <1>1, <1>3 DEF CountsInv
    <3> QED
      BY <3>2, <3>3, <1>1, <1>2 DEF CountsInv, Candidates
  <2> QED
    BY <2>2, <2>3
<1>9. /\ place \in {"load", "swap"} => local'[b][i][1] \in 1..highest'[b]
      /\ place = "swap" => local'[b][i][2] < local'[b][i][1]
  BY <1>2, <1>3, <1>4
<1>10. place \notin {"queued", "acquire", "enter", "posted", "gathered"}
  OBVIOUS
<1> HIDE DEF place
<1> QED
  BY <1>3, <1>6, <1>7, <1>8, <1>9, <1>10, StepOfOne

LEMMA SwapPeakStep ==
    ASSUME IInv, NEW b \in Batches, NEW i \in Candidates(b), SwapPeak(b, i)
    PROVE  IInv'
<1> DEFINE n == local[b][i][1]
           won == peak[b] = local[b][i][2]
           place == IF won THEN "call" ELSE "load"
<1>1. TypeOK /\ SlotsInv /\ PlacesInv(b) /\ CountsInv(b)
  BY DEF IInv, BatchInv
<1>2. /\ at[b][i] = "swap" /\ outcome[b] = None /\ Move(b, i, place)
      /\ peak' = IF won THEN [peak EXCEPT ![b] = n] ELSE peak
      /\ started' = IF won THEN [started EXCEPT ![b] = @ + 1] ELSE started
      /\ UNCHANGED <<core, slots, active, local, answer, dead, calls, outcome, highest>>
  BY <1>1 DEF SwapPeak, Send, PlacesInv
<1>3. /\ {active, peak, calls, started, highest} \subseteq [Batches -> Nat]
      /\ ~Rust /\ n \in 1..highest[b] /\ peak[b] \in Nat /\ highest[b] \in Nat
      /\ won => peak[b] < n
  BY <1>1, <1>2 DEF TypeOK, PlacesInv
<1>4. /\ started' \in [Batches -> Nat] /\ \A c \in Batches \ {b} : started'[c] = started[c]
      /\ peak' \in [Batches -> Nat] /\ \A c \in Batches \ {b} : peak'[c] = peak[c]
      /\ peak'[b] = IF won THEN n ELSE peak[b]
      /\ won => started'[b] = started[b] + 1
  BY <1>2, <1>3
<1>6. OnlyOne(b, i, place) /\ place \in Places \ {"gathered"}
  <2>1. place \in Places \ {"gathered"}
    BY DEF Places, Busy
  <2>2. {active', peak', calls', started', highest'} \subseteq [Batches -> Nat]
        /\ highest'[b] >= highest[b]
    BY <1>2, <1>3, <1>4
  <2> HIDE DEF place, won
  <2> QED
    BY <2>1, <2>2, <1>1, <1>2, <1>4 DEF OnlyOne, TypeOK
<1>7. SlotsInv' /\ slots' \subseteq UNION {{c} \X Candidates(c) : c \in Batches} /\ IsFiniteSet(slots')
  BY <1>1, <1>2, <1>6, KeepSlots DEF TypeOK
<1>8. CountsInv(b)'
  <2>2. CASE ~won
    <3>1. place = "load" /\ UNCHANGED <<active, peak, calls, highest, started>>
      BY <2>2, <1>2
    <3> QED
      BY <3>1, <1>2, <1>6, RoundCounts
  <2>3. CASE won
    <3>2. /\ Cardinality(Calling(b)') = active'[b]
          /\ started'[b] = calls'[b] + Cardinality(Uncounted(b)')
          /\ \A j \in Candidates(b) \ {i} : at'[b][j] = at[b][j] /\ local'[b][j] = local[b][j]
      BY <2>3, <1>2, <1>4, <1>6, SentCounts
    <3>3. n < highest[b] => \E j \in Candidates(b) \ {i} : /\ at[b][j] \in {"load", "swap"}
                                                          /\ local[b][j][1] = highest[b]
      BY <2>3, <1>1, <1>3 DEF CountsInv
    <3>4. peak'[b] = n /\ n <= highest[b] /\ highest'[b] = highest[b]
      BY <2>3, <1>2, <1>3, <1>4
    <3> QED
      BY <3>2, <3>3, <3>4 DEF CountsInv, Candidates
  <2> QED
    BY <2>2, <2>3
<1>9. local'[b][i][1] \in 1..highest'[b]
  BY <1>2, <1>3
<1>10. place \notin {"queued", "acquire", "enter", "posted", "gathered", "swap"}
  OBVIOUS
<1> HIDE DEF place
<1> QED
  BY <1>3, <1>6, <1>7, <1>8, <1>9, <1>10, StepOfOne

\* In the Rust core no call is ever between its count and its peak.
LEMMA EnterRustStep ==
    ASSUME IInv, NEW b \in Batches, NEW i \in Candidates(b), EnterRust(b, i)
    PROVE  IInv'
<1> DEFINE n == active[b] + 1
<1>1. TypeOK /\ SlotsInv /\ PlacesInv(b) /\ CountsInv(b)
  BY DEF IInv, BatchInv
<1>2. /\ at[b][i] = "enter" /\ Rust /\ outcome[b] = None /\ Move(b, i, "call")
      /\ calls' = [calls EXCEPT ![b] = @ + 1] /\ started' = [started EXCEPT ![b] = @ + 1]
      /\ active' = [active EXCEPT ![b] = n]
      /\ peak' = [peak EXCEPT ![b] = IF n > @ THEN n ELSE @]
      /\ highest' = [highest EXCEPT ![b] = IF n > @ THEN n ELSE @]
      /\ UNCHANGED <<core, slots, local, answer, dead, outcome>>
  BY <1>1 DEF EnterRust, Send, PlacesInv
<1>3. {active, peak, calls, started, highest} \subseteq [Batches -> Nat] /\ n \in Nat
  BY <1>1 DEF TypeOK
<1>4. peak[b] = highest[b]
  BY <1>1, <1>2, <1>3 DEF PlacesInv, CountsInv
<1>5. /\ {active', peak', calls', started', highest'} \subseteq [Batches -> Nat]
      /\ \A c \in Batches \ {b} : /\ active'[c] = active[c] /\ peak'[c] = peak[c] /\ calls'[c] = calls[c]
                                  /\ started'[c] = started[c] /\ highest'[c] = highest[c]
  BY <1>2, <1>3
<1>6. /\ active'[b] = n /\ calls'[b] = calls[b] + 1 /\ started'[b] = started[b] + 1
      /\ peak'[b] = highest'[b] /\ highest'[b] >= highest[b] /\ highest'[b] \in Nat
  BY <1>2, <1>3, <1>4
<1>7. OnlyOne(b, i, "call") /\ "call" \in Places
  BY <1>1, <1>2, <1>5, <1>6 DEF OnlyOne, TypeOK, Places, Busy
<1>8. SlotsInv' /\ slots' \subseteq UNION {{c} \X Candidates(c) : c \in Batches} /\ IsFiniteSet(slots')
  BY <1>1, <1>2, <1>7, KeepSlots DEF TypeOK
<1>9. local'[b][i] = <<0, 0>>
  BY <1>1, <1>2 DEF PlacesInv
<1>10. CountsInv(b)'
  <2>1. i \notin Calling(b) /\ i \notin Uncounted(b)
    BY <1>2 DEF Calling, Uncounted
  <2>2. Calling(b)' = Calling(b) \cup {i} /\ Uncounted(b)' = Uncounted(b) \ {i}
        /\ Cardinality(Uncounted(b)) \in Nat
    BY <1>7, <1>9, Tallies
  <2>3. Cardinality(Calling(b)') = n /\ Uncounted(b)' = Uncounted(b)
    <3>1. Calling(b) \in SUBSET Candidates(b) /\ Uncounted(b) \ {i} = Uncounted(b)
      BY <2>1 DEF Calling
    <3>2. Cardinality(Calling(b) \cup {i}) = Cardinality(Calling(b)) + 1
      BY <2>1, <3>1, OneMore
    <3> QED
      BY <2>2, <3>1, <3>2, <1>1 DEF CountsInv
  <2>4. started'[b] = calls'[b] + Cardinality(Uncounted(b)')
    <3>1. Cardinality(Uncounted(b)') = Cardinality(Uncounted(b))
      BY <2>3
    <3>2. started[b] = calls[b] + Cardinality(Uncounted(b)) /\ calls[b] \in Nat
      BY <1>1, <1>3 DEF CountsInv
    <3> QED
      BY <2>2, <3>1, <3>2, <1>6
  <2> QED
    BY <2>3, <2>4, <1>6 DEF CountsInv, Candidates
<1> QED
  BY <1>2, <1>7, <1>8, <1>9, <1>10, StepOfOne

\* A call that ends gives its slot back.
LEMMA FinishStep ==
    ASSUME IInv, NEW b \in Batches, NEW i \in Candidates(b), NEW result \in Verdicts \cup Errors,
           Finish(b, i, result)
    PROVE  IInv'
<1>1. TypeOK /\ SlotsInv /\ PlacesInv(b) /\ CountsInv(b)
  BY DEF IInv, BatchInv
<1>2. /\ at[b][i] = "call" /\ outcome[b] = None /\ Post(b, i, result)
      /\ active' = [active EXCEPT ![b] = @ - 1] /\ slots' = slots \ {<<b, i>>}
      /\ UNCHANGED <<core, peak, local, dead, calls, outcome, started, highest>>
  BY <1>1 DEF Finish, PlacesInv
<1>3. /\ Move(b, i, "posted") /\ DOMAIN answer' = Batches
      /\ \A c \in Batches : answer'[c] \in [Candidates(c) -> Verdicts \cup Errors \cup {None}]
      /\ \A c \in Batches \ {b} : answer'[c] = answer[c]
      /\ \A j \in Candidates(b) : answer'[b][j] = IF j = i THEN result ELSE answer[b][j]
  BY <1>1, <1>2, PostFacts
<1>4. i \in Calling(b) /\ Calling(b) \in SUBSET Candidates(b)
  BY <1>2 DEF Calling
<1>5. Cardinality(Calling(b) \ {i}) = active[b] - 1 /\ active[b] > 0 /\ active[b] \in Nat
  BY <1>1, <1>4, OneLess DEF CountsInv, TypeOK
<1>6. /\ active' \in [Batches -> Nat] /\ active'[b] = active[b] - 1
      /\ \A c \in Batches \ {b} : active'[c] = active[c]
  BY <1>1, <1>2, <1>5 DEF TypeOK
<1>7. OnlyOne(b, i, "posted") /\ "posted" \in Places
  BY <1>1, <1>2, <1>3, <1>6 DEF OnlyOne, TypeOK, Places
<1>8. /\ \A c \in Batches \ {b} : at'[c] = at[c]
      /\ \A j \in Candidates(b) : at'[b][j] = IF j = i THEN "posted" ELSE at[b][j]
  BY <1>1, <1>7, MoveFacts DEF OnlyOne
<1>9. SlotsInv' /\ IsFiniteSet(slots')
  <2>1. ASSUME NEW c \in Batches, NEW j \in Candidates(c)
        PROVE  <<c, j>> \in slots' <=> at'[c][j] \in {"enter", "load", "swap", "call"}
    <3>1. CASE c = b
      BY <3>1, <1>1, <1>2, <1>8 DEF SlotsInv
    <3>2. CASE c # b
      BY <3>2, <1>1, <1>2, <1>8 DEF SlotsInv
    <3> QED
      BY <3>1, <3>2
  <2>2. IsFiniteSet(slots) /\ slots' \subseteq slots
    BY <1>1, <1>2 DEF TypeOK
  <2>3. /\ IsFiniteSet(slots') /\ Cardinality(slots') <= Cardinality(slots)
        /\ Cardinality(slots) \in Nat /\ Cardinality(slots') \in Nat
    BY <2>2, FS_Subset, FS_CardinalityType
  <2>4. Cardinality(slots) <= Inflight /\ Inflight \in Nat
    BY <1>1, PoolAssumption DEF SlotsInv
  <2>5. Cardinality(slots') <= Inflight
    BY <2>3, <2>4
  <2> QED
    BY <2>1, <2>3, <2>5 DEF SlotsInv, Candidates
<1>10. slots' \subseteq UNION {{c} \X Candidates(c) : c \in Batches}
  BY <1>1, <1>2 DEF TypeOK
<1>11. CountsInv(b)'
  <2>1. Calling(b)' = Calling(b) \ {i}
    BY <1>7, Tallies
  <2>2. Uncounted(b)' = Uncounted(b)
    <3>1. CASE local[b][i] = <<0, 0>>
      <4>1. i \notin Uncounted(b)
        BY <3>1 DEF Uncounted
      <4>2. Uncounted(b)' = Uncounted(b) \ {i}
        BY <3>1, <1>2, <1>7, Tallies
      <4> QED
        BY <4>1, <4>2
    <3>2. CASE local[b][i] # <<0, 0>>
      <4>1. i \in Uncounted(b)
        BY <3>2, <1>2 DEF Uncounted
      <4>2. Uncounted(b)' = Uncounted(b) \cup {i}
        BY <3>2, <1>2, <1>7, Tallies
      <4> QED
        BY <4>1, <4>2
    <3> QED
      BY <3>1, <3>2
  <2>3. \A j \in Candidates(b) : at[b][j] \in {"load", "swap"} => at'[b][j] = at[b][j]
    BY <1>2, <1>8
  <2> QED
    BY <2>1, <2>2, <2>3, <1>1, <1>2, <1>5, <1>6 DEF CountsInv, Candidates
<1>12. Rust => local'[b][i] = <<0, 0>>
  BY <1>1, <1>2 DEF PlacesInv
<1> QED
  BY <1>3, <1>7, <1>9, <1>10, <1>11, <1>12, StepOfOne
-----------------------------------------------------------------------------
(* The steps of the request *)

LEMMA GatherStep ==
    ASSUME IInv, NEW b \in Batches, Gather(b)
    PROVE  IInv'
<1>1. TypeOK /\ SlotsInv /\ PlacesInv(b) /\ CountsInv(b)
  BY DEF IInv, BatchInv
<1>2. PICK i \in Candidates(b) :
         /\ at[b][i] = "posted" /\ Move(b, i, "gathered")
         /\ calls' = [calls EXCEPT ![b] = @ + IF ~Rust /\ local[b][i] # <<0, 0>> THEN 1 ELSE 0]
  BY DEF Gather
<1>3. outcome[b] = None
      /\ UNCHANGED <<core, slots, active, peak, local, answer, dead, outcome, started, highest>>
  BY DEF Gather
<1>4. {active, peak, calls, started, highest} \subseteq [Batches -> Nat]
  BY <1>1 DEF TypeOK
<1>5. /\ calls' \in [Batches -> Nat] /\ \A c \in Batches \ {b} : calls'[c] = calls[c]
      /\ calls'[b] = calls[b] + IF ~Rust /\ local[b][i] # <<0, 0>> THEN 1 ELSE 0
  BY <1>2, <1>4
<1>6. OnlyOne(b, i, "gathered") /\ "gathered" \in Places
  BY <1>1, <1>2, <1>3, <1>4, <1>5 DEF OnlyOne, TypeOK, Places
<1>7. SlotsInv' /\ slots' \subseteq UNION {{c} \X Candidates(c) : c \in Batches} /\ IsFiniteSet(slots')
  BY <1>1, <1>2, <1>3, <1>6, KeepSlots DEF TypeOK
<1>8. Rust => local'[b][i] = <<0, 0>>
  BY <1>1, <1>3 DEF PlacesInv
<1>9. answer'[b][i] \in Verdicts \cup Errors
  BY <1>1, <1>2, <1>3 DEF PlacesInv
<1>10. CountsInv(b)'
  <2>1. i \notin Calling(b) /\ Uncounted(b) \in SUBSET Candidates(b)
    BY <1>2 DEF Calling, Uncounted
  <2>2. /\ Calling(b)' = Calling(b) \ {i} /\ Uncounted(b)' = Uncounted(b) \ {i}
        /\ Cardinality(Uncounted(b)) \in Nat
    BY <1>6, Tallies
  <2>3. Calling(b)' = Calling(b)
    BY <2>1, <2>2
  <2>4. \A j \in Candidates(b) : at[b][j] \in {"load", "swap"} => at'[b][j] = at[b][j]
    BY <1>1, <1>2, <1>6, MoveFacts
  <2>5. started[b] = calls[b] + Cardinality(Uncounted(b)) /\ calls[b] \in Nat /\ started'[b] = started[b]
    BY <1>1, <1>3, <1>4 DEF CountsInv
  <2>6. started'[b] = calls'[b] + Cardinality(Uncounted(b)')
    <3>1. CASE local[b][i] = <<0, 0>>
      <4>1. Uncounted(b) \ {i} = Uncounted(b)
        BY <3>1 DEF Uncounted
      <4>2. Cardinality(Uncounted(b)') = Cardinality(Uncounted(b))
        BY <4>1, <2>2
      <4>3. calls'[b] = calls[b]
        BY <3>1, <1>5, <2>5
      <4> QED
        BY <4>2, <4>3, <2>5
    <3>2. CASE local[b][i] # <<0, 0>>
      <4>1. i \in Uncounted(b) /\ ~Rust
        BY <3>2, <1>2, <1>3, <1>8 DEF Uncounted
      <4>2. Cardinality(Uncounted(b)') = Cardinality(Uncounted(b)) - 1
        BY <4>1, <2>1, <2>2, OneLess
      <4> QED
        BY <4>1, <4>2, <2>2, <2>5, <3>2, <1>5
    <3> QED
      BY <3>1, <3>2
  <2> QED
    BY <2>3, <2>4, <2>6, <1>1, <1>3 DEF CountsInv, Candidates
<1> QED
  BY <1>6, <1>7, <1>8, <1>9, <1>10, StepOfOne

\* What Conclude makes of the answers of all candidates.
LEMMA ConcludeDecides ==
    ASSUME NEW b \in Batches, DOMAIN answer[b] = Candidates(b),
           answer[b] \in [Candidates(b) -> Verdicts \cup Errors \cup {None}],
           \A i \in Candidates(b) : answer[b][i] \in Verdicts \cup Errors
    PROVE  LET out == Conclude(b) IN
           \/ /\ out.kind = "answers"
              /\ out.of = answer[b]
              /\ answer[b] \in [Candidates(b) -> Verdicts]
           \/ /\ out.kind = "set"
              /\ answer[b] \in [Candidates(b) -> Verdicts]
              /\ out.tools = {i \in Candidates(b) : answer[b][i] = "yes"}
           \/ /\ out.kind = "error"
              /\ \E i \in Failed(b) : /\ out.code = answer[b][i]
                                      /\ \A j \in 1..i - 1 : answer[b][j] \in Verdicts
<1>1. CASE Failed(b) = {}
  <2>1. answer[b] \in [Candidates(b) -> Verdicts]
    BY <1>1 DEF Failed
  <2> QED
    BY <1>1, <2>1 DEF Conclude
<1>2. CASE Failed(b) # {}
  <2> DEFINE first == Min(Failed(b))
  <2>1. Failed(b) \in SUBSET Nat /\ Size[b] \in Nat
    BY PoolAssumption DEF Failed, Candidates
  <2>2. first \in Failed(b) /\ \A y \in Failed(b) : first <= y
    BY <1>2, <2>1, LeastOf
  <2>3. first \in 1..Size[b]
    BY <2>2 DEF Failed, Candidates
  <2>4. ASSUME NEW j \in 1..first - 1
        PROVE  answer[b][j] \in Verdicts
    <3>1. j \in Candidates(b) /\ j < first /\ j \in Nat
      BY <2>1, <2>3 DEF Candidates
    <3>2. j \notin Failed(b)
      BY <3>1, <2>2, <2>3
    <3> QED
      BY <3>1, <3>2 DEF Failed
  <2>5. Conclude(b).kind = "error" /\ Conclude(b).code = answer[b][first]
    BY <1>2 DEF Conclude
  <2> QED
    BY <2>2, <2>4, <2>5
<1> QED
  BY <1>1, <1>2

LEMMA ReturnStep ==
    ASSUME IInv, NEW b \in Batches, Return(b)
    PROVE  IInv'
<1>1. TypeOK /\ SlotsInv /\ PlacesInv(b) /\ CountsInv(b)
  BY DEF IInv, BatchInv
<1>2. /\ outcome[b] = None /\ \A i \in Candidates(b) : at[b][i] = "gathered"
      /\ outcome' = [outcome EXCEPT ![b] = Conclude(b)]
      /\ UNCHANGED <<core, at, slots, active, peak, local, answer, dead, calls, started, highest>>
  BY DEF Return, Joined
<1>3. /\ DOMAIN outcome' = Batches /\ outcome'[b] = Conclude(b)
      /\ \A c \in Batches \ {b} : outcome'[c] = outcome[c]
  BY <1>1, <1>2 DEF TypeOK
<1>4. TypeOK' /\ SlotsInv'
  BY <1>1, <1>2, <1>3 DEF TypeOK, SlotsInv, Candidates
<1>5. \A i \in Candidates(b) : answer[b][i] \in Verdicts \cup Errors
  BY <1>1, <1>2 DEF PlacesInv
<1>6. PlacesInv(b)'
  BY <1>1, <1>2, <1>5 DEF PlacesInv, Candidates, Rust
<1>7. Calling(b)' = Calling(b) /\ Uncounted(b)' = Uncounted(b) /\ Failed(b)' = Failed(b)
  BY <1>2 DEF Calling, Uncounted, Failed, Candidates
<1>8. CountsInv(b)'
  BY <1>1, <1>2, <1>7 DEF CountsInv, Candidates
<1>9. DecidedInv(b)'
  <2>1. DOMAIN answer[b] = Candidates(b)
        /\ answer[b] \in [Candidates(b) -> Verdicts \cup Errors \cup {None}]
    BY <1>1 DEF TypeOK
  <2>2. \/ /\ outcome'[b].kind = "answers"
           /\ outcome'[b].of = answer[b]
           /\ answer[b] \in [Candidates(b) -> Verdicts]
        \/ /\ outcome'[b].kind = "set"
           /\ answer[b] \in [Candidates(b) -> Verdicts]
           /\ outcome'[b].tools = {i \in Candidates(b) : answer[b][i] = "yes"}
        \/ /\ outcome'[b].kind = "error"
           /\ \E i \in Failed(b) : /\ outcome'[b].code = answer[b][i]
                                   /\ \A j \in 1..i - 1 : answer[b][j] \in Verdicts
    BY <2>1, <1>3, <1>5, ConcludeDecides
  <2>3. CASE outcome'[b].kind = "answers" /\ outcome'[b].of = answer[b]
             /\ answer[b] \in [Candidates(b) -> Verdicts]
    BY <2>3 DEF DecidedInv, Candidates
  <2>4. CASE outcome'[b].kind = "set" /\ answer[b] \in [Candidates(b) -> Verdicts]
             /\ outcome'[b].tools = {i \in Candidates(b) : answer[b][i] = "yes"}
    BY <2>4, <1>2 DEF DecidedInv, Candidates
  <2>5. CASE outcome'[b].kind = "error"
             /\ \E i \in Failed(b) : /\ outcome'[b].code = answer[b][i]
                                     /\ \A j \in 1..i - 1 : answer[b][j] \in Verdicts
    BY <2>5, <1>2, <1>7 DEF DecidedInv, Candidates
  <2> QED
    BY <2>2, <2>3, <2>4, <2>5
<1>10. \A c \in Batches \ {b} : Same(c)
  BY <1>2, <1>3 DEF Same
<1> QED
  BY <1>2, <1>4, <1>6, <1>8, <1>9, <1>10, Assemble DEF BatchInv

LEMMA DeadlineStep ==
    ASSUME IInv, NEW b \in Batches, Deadline(b)
    PROVE  IInv'
<1>1. /\ dead' = dead \cup {b}
      /\ UNCHANGED <<core, at, slots, active, peak, local, answer, calls, outcome, started, highest>>
  BY DEF Deadline
<1>2. TypeOK' /\ SlotsInv'
  BY <1>1 DEF IInv, TypeOK, SlotsInv, Candidates
<1>3. \A c \in Batches : Same(c)
  BY <1>1 DEF Same
<1>4. \A c \in Batches : BatchInv(c)'
  BY <1>1, <1>3, SameBatch DEF IInv
<1> QED
  BY <1>2, <1>4 DEF IInv

\* The Rust core's timeout: no call of the batch is left to count.
LEMMA DropStep ==
    ASSUME IInv, NEW b \in Batches, Drop(b)
    PROVE  IInv'
<1>1. TypeOK /\ SlotsInv /\ PlacesInv(b) /\ CountsInv(b)
  BY DEF IInv, BatchInv
<1>2. /\ Rust /\ outcome[b] = None
      /\ outcome' = [outcome EXCEPT ![b] = [kind |-> "error", code |-> "deadline"]]
      /\ at' = [at EXCEPT ![b] = [i \in Candidates(b) |-> "gathered"]]
      /\ slots' = {s \in slots : s[1] # b} /\ active' = [active EXCEPT ![b] = 0]
      /\ UNCHANGED <<core, peak, local, answer, dead, calls, started, highest>>
  BY DEF Drop
<1>3. /\ {active, peak, calls, started, highest} \subseteq [Batches -> Nat]
      /\ DOMAIN at = Batches /\ DOMAIN outcome = Batches
      /\ \A c \in Batches : at[c] \in [Candidates(c) -> Places]
  BY <1>1 DEF TypeOK
<1>4. /\ DOMAIN at' = Batches /\ at'[b] = [i \in Candidates(b) |-> "gathered"]
      /\ \A c \in Batches \ {b} : at'[c] = at[c]
      /\ DOMAIN outcome' = Batches /\ outcome'[b] = [kind |-> "error", code |-> "deadline"]
      /\ \A c \in Batches \ {b} : outcome'[c] = outcome[c]
      /\ active' \in [Batches -> Nat] /\ active'[b] = 0
      /\ \A c \in Batches \ {b} : active'[c] = active[c]
  BY <1>2, <1>3
<1>5. /\ IsFiniteSet(slots') /\ Cardinality(slots') <= Inflight
      /\ slots' \subseteq UNION {{c} \X Candidates(c) : c \in Batches}
  <2>1. IsFiniteSet(slots) /\ slots' \subseteq slots
    BY <1>1, <1>2 DEF TypeOK
  <2>2. /\ IsFiniteSet(slots') /\ Cardinality(slots') <= Cardinality(slots)
        /\ Cardinality(slots) \in Nat /\ Cardinality(slots') \in Nat
    BY <2>1, FS_Subset, FS_CardinalityType
  <2>3. Cardinality(slots) <= Inflight /\ Inflight \in Nat
    BY <1>1, PoolAssumption DEF SlotsInv
  <2>4. Cardinality(slots') <= Inflight
    BY <2>2, <2>3
  <2> QED
    BY <2>1, <2>2, <2>4, <1>1 DEF TypeOK
<1>6. SlotsInv'
  <2>1. ASSUME NEW c \in Batches, NEW j \in Candidates(c)
        PROVE  <<c, j>> \in slots' <=> at'[c][j] \in {"enter", "load", "swap", "call"}
    <3>1. CASE c = b
      BY <3>1, <1>2, <1>4
    <3>2. CASE c # b
      BY <3>2, <1>1, <1>2, <1>4 DEF SlotsInv
    <3> QED
      BY <3>1, <3>2
  <2> QED
    BY <2>1, <1>5 DEF SlotsInv, Candidates
<1>7. TypeOK'
  <2>1. ASSUME NEW c \in Batches
        PROVE  at'[c] \in [Candidates(c) -> Places]
    <3>1. CASE c = b
      BY <3>1, <1>4 DEF Places
    <3>2. CASE c # b
      BY <3>2, <1>3, <1>4
    <3> QED
      BY <3>1, <3>2
  <2> QED
    BY <2>1, <1>1, <1>2, <1>4, <1>5 DEF TypeOK, Candidates
<1>8. outcome'[b] # None /\ outcome'[b].kind = "error" /\ outcome'[b].code = "deadline"
  BY <1>4, PoolAssumption
<1>9. \A i \in Candidates(b) : at'[b][i] = "gathered"
  BY <1>4
<1>10. PlacesInv(b)'
  BY <1>1, <1>2, <1>8, <1>9 DEF PlacesInv, Candidates
<1>11. CountsInv(b)'
  <2>1. \A i \in Candidates(b) : local[b][i] = <<0, 0>> /\ at[b][i] \notin {"load", "swap"}
    BY <1>1, <1>2 DEF PlacesInv
  <2>2. Uncounted(b) = {} /\ Uncounted(b)' = {} /\ Calling(b)' = {}
    BY <2>1, <1>2, <1>9 DEF Uncounted, Calling, Candidates
  <2>3. Cardinality({}) = 0
    BY FS_EmptySet
  <2>4. peak[b] = highest[b] /\ peak[b] \in Nat
    <3>1. peak[b] <= highest[b] /\ ~(peak[b] < highest[b])
      BY <1>1, <2>1 DEF CountsInv
    <3>2. peak[b] \in Nat /\ highest[b] \in Nat
      BY <1>3
    <3> QED
      BY <3>1, <3>2
  <2> QED
    BY <2>2, <2>3, <2>4, <1>1, <1>2, <1>4 DEF CountsInv
<1>12. DecidedInv(b)'
  BY <1>2, <1>8 DEF DecidedInv, Rust
<1>13. \A c \in Batches \ {b} : Same(c)
  BY <1>2, <1>4 DEF Same
<1> QED
  BY <1>2, <1>6, <1>7, <1>10, <1>11, <1>12, <1>13, Assemble DEF BatchInv

LEMMA StutterStep ==
    ASSUME IInv, UNCHANGED vars
    PROVE  IInv'
<1>1. TypeOK' /\ SlotsInv'
  BY DEF IInv, TypeOK, SlotsInv, Candidates, vars
<1>2. \A c \in Batches : Same(c)
  BY DEF Same, vars
<1>3. \A c \in Batches : BatchInv(c)'
  BY <1>2, SameBatch DEF IInv, vars
<1> QED
  BY <1>1, <1>3 DEF IInv

LEMMA Initially ==
    ASSUME Init
    PROVE  IInv
<1>1. \A b \in Batches : Calling(b) = {} /\ Uncounted(b) = {}
  BY DEF Init, Calling, Uncounted
<1>2. Cardinality({}) = 0 /\ IsFiniteSet({})
  BY FS_EmptySet
<1>3. TypeOK
  BY <1>2 DEF Init, TypeOK, Places
<1>4. SlotsInv
  BY <1>2, PoolAssumption DEF Init, SlotsInv
<1>5. ASSUME NEW b \in Batches PROVE BatchInv(b)
  <2>1. PlacesInv(b)
    BY DEF Init, PlacesInv
  <2>2. CountsInv(b)
    <3>1. active[b] = 0 /\ started[b] = 0 /\ calls[b] = 0 /\ peak[b] = 0 /\ highest[b] = 0
      BY DEF Init
    <3>2. Cardinality(Calling(b)) = 0 /\ Cardinality(Uncounted(b)) = 0
      BY <1>1, <1>2
    <3> QED
      BY <3>1, <3>2 DEF CountsInv
  <2>3. DecidedInv(b)
    BY DEF Init, DecidedInv
  <2> QED
    BY <2>1, <2>2, <2>3 DEF BatchInv
<1> QED
  BY <1>3, <1>4, <1>5 DEF IInv

LEMMA Inductive ==
    ASSUME IInv, [Next]_vars
    PROVE  IInv'
<1>1. ASSUME NEW b \in Batches, NEW i \in Candidates(b), WorkerStep(b, i)
      PROVE  IInv'
  <2>1. CASE Take(b, i) \/ GiveUp(b, i)
    BY <2>1, TakeStep
  <2>2. CASE Cancelled(b, i)
    <3>1. Finish(b, i, "deadline") /\ "deadline" \in Verdicts \cup Errors
      BY <2>2 DEF Cancelled, Errors
    <3> QED
      BY <3>1, FinishStep
  <2> QED
    BY <1>1, <2>1, <2>2, AcquireStep, EnterStep, LoadPeakStep, SwapPeakStep, EnterRustStep
       DEF WorkerStep
<1>2. ASSUME NEW b \in Batches, NEW i \in Candidates(b), Reply(b, i)
      PROVE  IInv'
  <2>1. PICK result \in Replies : Finish(b, i, result)
    BY <1>2 DEF Reply
  <2>2. result \in Verdicts \cup Errors
    BY PoolAssumption DEF Verdicts, Errors
  <2> QED
    BY <2>1, <2>2, FinishStep
<1> QED
  BY <1>1, <1>2, GatherStep, ReturnStep, DeadlineStep, DropStep, StutterStep DEF Next

LEMMA Invariance == Spec => []IInv
  BY Initially, Inductive, PTL DEF Spec
-----------------------------------------------------------------------------
(* What the invariant gives *)

\* Every variable has its type in every reachable state, whatever the number of
\* workers, the sizes of the batches and the capacity of the semaphore.
THEOREM Typing == Spec => []TypeOK
<1>1. IInv => TypeOK
  BY DEF IInv
<1> QED
  BY <1>1, Invariance, PTL

\* selectBinary and its workflow twin decide only on the answers of all candidates,
\* and report the first failure in the order of the candidates.
THEOREM NoPartialDecision == Spec => []NothingFromPartialAnswers
<1>1. IInv => NothingFromPartialAnswers
  BY DEF IInv, BatchInv, DecidedInv, NothingFromPartialAnswers
<1> QED
  BY <1>1, Invariance, PTL

\* The semaphore never lends more than it has, and a batch that has returned, or
\* whose timeout dropped it, has no call under way and holds no slot.
THEOREM NothingLeaks == Spec => []NothingOutlivesTheBatch
<1>1. ASSUME IInv PROVE NothingOutlivesTheBatch
  <2>1. ASSUME NEW b \in Batches, outcome[b] # None
        PROVE  /\ active[b] = 0
               /\ \A i \in Candidates(b) : at[b][i] \notin Busy /\ <<b, i>> \notin slots
    <3>1. \A i \in Candidates(b) : at[b][i] = "gathered"
      BY <1>1, <2>1 DEF IInv, BatchInv, PlacesInv
    <3>2. Calling(b) = {}
      BY <3>1 DEF Calling
    <3>3. active[b] = 0
      BY <3>2, <1>1, FS_EmptySet DEF IInv, BatchInv, CountsInv
    <3> QED
      BY <3>1, <3>3, <1>1 DEF IInv, SlotsInv, Busy
  <2> QED
    BY <2>1, <1>1 DEF NothingOutlivesTheBatch, IInv, SlotsInv
<1> QED
  BY <1>1, Invariance, PTL

\* The lock-free peak of binaryActivity is the most calls that were ever under way
\* at once, and the calls reported are those made, however the workers interleave.
THEOREM MetricsTrue == Spec => []MetricsAreTrue
<1>1. ASSUME IInv PROVE MetricsAreTrue
  <2>1. ASSUME NEW b \in Batches, outcome[b] # None
        PROVE  peak[b] = highest[b] /\ calls[b] = started[b]
    <3>1. \A i \in Candidates(b) : at[b][i] = "gathered"
      BY <1>1, <2>1 DEF IInv, BatchInv, PlacesInv
    <3>2. Uncounted(b) = {} /\ Cardinality({}) = 0
      BY <3>1, FS_EmptySet DEF Uncounted
    <3>3. peak[b] \in Nat /\ highest[b] \in Nat /\ calls[b] \in Nat
      BY <1>1 DEF IInv, TypeOK
    <3>4. peak[b] <= highest[b] /\ ~(peak[b] < highest[b])
      BY <3>1, <1>1 DEF IInv, BatchInv, CountsInv
    <3>5. started[b] = calls[b] + 0
      BY <3>2, <1>1 DEF IInv, BatchInv, CountsInv
    <3> QED
      BY <3>3, <3>4, <3>5
  <2> QED
    BY <2>1 DEF MetricsAreTrue
<1> QED
  BY <1>1, Invariance, PTL
==========================================================================

--------------------------- MODULE AdmissionProofs ---------------------------
(***************************************************************************)
(* Proofs about Admission for any number of requests, processes and scopes *)
(* and any limits: the counters count, and the quota holds.                *)
(***************************************************************************)
EXTENDS Admission, FiniteSetTheorems, TLAPS

\* The requests inside process p, those of scope s inside its limit, and those
\* of s that passed the quota in window w.
Holding(p) == {r \in Requests : Home[r] = p /\ pc[r] \in Inside}
HoldingScope(p, s) == {r \in Bound(s, p) : pc[r] \in Limited}
Passed(s, w) == {r \in Requests : /\ ScopeOf[r] = s /\ passed[r] # None
                                  /\ passed[r] \div Second = w}

\* The window's count covers what passed in it, failed commits included, and no
\* request passes twice.
QuotaInv ==
    /\ \A r \in Requests : pc[r] \in {"new", "auth", "limit", "quota"} => passed[r] = None
    /\ \A s \in Scopes, w \in 0..Windows - 1 :
          Cardinality(Passed(s, w)) <= used[s][w] /\ Cardinality(Passed(s, w)) <= Quota

IInv == TypeOK /\ SlotsAreHeld /\ QuotaInv
-----------------------------------------------------------------------------
(* Types *)

LEMMA TypingInit == Init => TypeOK
  BY AdmissionAssumption DEF Init, TypeOK

LEMMA LeaveTypes ==
    ASSUME TypeOK, NEW r \in Requests, NEW status \in {200, 401, 429, 500, 503, 504},
           Leave(r, status)
    PROVE  /\ pc' \in [Requests -> Inside \cup {"new", "done"}]
           /\ conn' \in SUBSET Requests
           /\ global' \in [Processes -> Int]
           /\ inflight' \in [Processes -> [Scopes -> Int]]
           /\ answer' \in [Requests -> {200, 401, 429, 500, 503, 504, None}]
<1>1. Home[r] \in Processes /\ ScopeOf[r] \in Scopes
  BY AdmissionAssumption
<1>2. inflight' \in [Processes -> [Scopes -> Int]]
  BY <1>1 DEF TypeOK, Leave
<1> QED
  BY <1>1, <1>2 DEF TypeOK, Leave

LEMMA GoTypes ==
    ASSUME TypeOK, NEW r \in Requests, NEW place \in Inside, Go(r, place)
    PROVE  pc' \in [Requests -> Inside \cup {"new", "done"}] /\ conn' \in SUBSET Requests
  BY DEF TypeOK, Go

\* Every step keeps the types.
LEMMA TypingStep == TypeOK /\ [Next]_vars => TypeOK'
<1> SUFFICES ASSUME TypeOK, [Next]_vars PROVE TypeOK'
  OBVIOUS
<1>0. {"auth", "limit", "quota", "work", "cleanup"} \subseteq Inside
  BY DEF Inside
<1>1. ASSUME NEW r \in Requests, Arrive(r) PROVE TypeOK'
  <2>1. Home[r] \in Processes
    BY AdmissionAssumption
  <2>2. CASE global[Home[r]] >= GlobalLimit
    <3>1. pc' = [pc EXCEPT ![r] = "done"] /\ answer' = [answer EXCEPT ![r] = 503]
          /\ UNCHANGED <<global, conn, inflight, used, clock, passed>>
      BY <1>1, <2>2 DEF Arrive
    <3> QED
      BY <3>1 DEF TypeOK
  <2>3. CASE ~(global[Home[r]] >= GlobalLimit)
    <3>1. global' = [global EXCEPT ![Home[r]] = @ + 1] /\ pc' = [pc EXCEPT ![r] = "auth"]
          /\ UNCHANGED <<answer, conn, inflight, used, clock, passed>>
      BY <1>1, <2>3 DEF Arrive
    <3> QED
      BY <1>0, <2>1, <3>1 DEF TypeOK
  <2> QED
    BY <2>2, <2>3
<1>2. ASSUME NEW r \in Requests, Acquire(r) PROVE TypeOK'
  BY <1>2 DEF Acquire, TypeOK
<1>3. ASSUME NEW r \in Requests, AcquireTimeout(r) PROVE TypeOK'
  BY <1>0, <1>3, LeaveTypes, GoTypes DEF AcquireTimeout, TypeOK
<1>4. ASSUME NEW r \in Requests, Authenticate(r) PROVE TypeOK'
  <2>1. CASE r \in Invalid
    BY <1>4, <2>1, LeaveTypes DEF Authenticate, TypeOK
  <2>2. CASE r \notin Invalid
    BY <1>0, <1>4, <2>2, GoTypes DEF Authenticate, TypeOK
  <2> QED
    BY <2>1, <2>2
<1>5. ASSUME NEW r \in Requests, EnterScope(r) PROVE TypeOK'
  <2>1. CASE Leave(r, 429) /\ UNCHANGED <<used, clock, passed>>
    BY <2>1, LeaveTypes DEF TypeOK
  <2>2. CASE /\ inflight' = [inflight EXCEPT ![Home[r]][ScopeOf[r]] = @ + 1]
             /\ Go(r, "quota")
             /\ UNCHANGED <<global, answer, used, clock, passed>>
    <3>1. Home[r] \in Processes /\ ScopeOf[r] \in Scopes
      BY AdmissionAssumption
    <3>2. inflight' \in [Processes -> [Scopes -> Int]]
      BY <2>2, <3>1 DEF TypeOK
    <3> QED
      BY <1>0, <2>2, <3>2, GoTypes DEF TypeOK
  <2> QED
    BY <1>5, <2>1, <2>2 DEF EnterScope
<1>6. ASSUME NEW r \in Requests, CountQuota(r) PROVE TypeOK'
  <2>1. used' \in [Scopes -> [0..Windows - 1 -> Nat]]
    <3>1. ScopeOf[r] \in Scopes
      BY AdmissionAssumption
    <3>2. CASE UNCHANGED used
      BY <3>2 DEF TypeOK
    <3>3. CASE used' = [used EXCEPT ![ScopeOf[r]][Window] = used[ScopeOf[r]][Window] + 1]
      <4> DEFINE row == [used[ScopeOf[r]] EXCEPT ![Window] = used[ScopeOf[r]][Window] + 1]
      <4>1. used[ScopeOf[r]] \in [0..Windows - 1 -> Nat]
        BY <3>1 DEF TypeOK
      <4>2. row \in [0..Windows - 1 -> Nat]
        <5>1. ASSUME NEW w \in 0..Windows - 1 PROVE row[w] \in Nat
          <6>1. used[ScopeOf[r]][w] \in Nat
            BY <4>1
          <6>2. row[w] = IF w = Window THEN used[ScopeOf[r]][w] + 1 ELSE used[ScopeOf[r]][w]
            BY <4>1
          <6> QED
            BY <6>1, <6>2
        <5> HIDE DEF row
        <5>2. row = [w \in 0..Windows - 1 |-> row[w]]
          BY <4>1 DEF row
        <5> QED
          BY <5>1, <5>2
      <4>3. used' = [used EXCEPT ![ScopeOf[r]] = row]
        BY <3>3
      <4> QED
        BY <3>1, <4>2, <4>3 DEF TypeOK
    <3> QED
      BY <1>6, <3>2, <3>3 DEF CountQuota
  <2>2. passed' \in [Requests -> Nat \cup {None}]
    BY <1>6 DEF CountQuota, TypeOK
  <2>3. \/ \E status \in {429, 500} : Leave(r, status)
        \/ Go(r, "work") /\ UNCHANGED <<global, inflight, answer>>
    BY <1>6 DEF CountQuota
  <2>4. UNCHANGED clock
    BY <1>6 DEF CountQuota
  <2> QED
    BY <1>0, <2>1, <2>2, <2>3, <2>4, LeaveTypes, GoTypes DEF TypeOK
<1>7. ASSUME NEW r \in Requests, Work(r) PROVE TypeOK'
  <2>1. CASE Leave(r, 200)
    BY <1>7, <2>1, LeaveTypes DEF Work, TypeOK
  <2>2. CASE Go(r, "cleanup") /\ UNCHANGED <<global, inflight, answer>>
    BY <1>0, <1>7, <2>2, GoTypes DEF Work, TypeOK
  <2> QED
    BY <1>7, <2>1, <2>2 DEF Work
<1>8. ASSUME NEW r \in Requests, Cleanup(r) PROVE TypeOK'
  BY <1>8, LeaveTypes DEF Cleanup, TypeOK
<1>9. ASSUME NEW r \in Requests, Deadline(r) PROVE TypeOK'
  BY <1>0, <1>9, LeaveTypes, GoTypes DEF Deadline, TypeOK
<1>10. ASSUME NEW p \in Processes, Crash(p) PROVE TypeOK'
  BY <1>10 DEF Crash, TypeOK
<1>11. CASE Tick
  BY <1>11 DEF Tick, TypeOK
<1>12. CASE UNCHANGED vars
  BY <1>12 DEF vars, TypeOK
<1> QED
  BY <1>1, <1>2, <1>3, <1>4, <1>5, <1>6, <1>7, <1>8, <1>9, <1>10, <1>11, <1>12 DEF Next

\* The variables of a reachable state have the types of Admission's TypeOK.
THEOREM Typing == Spec => []TypeOK
  BY TypingInit, TypingStep, PTL DEF Spec
-----------------------------------------------------------------------------
(* Slots *)

\* Sets of requests are finite.
LEMMA Counted ==
    ASSUME NEW S \in SUBSET Requests
    PROVE  IsFiniteSet(S) /\ Cardinality(S) \in Nat
  BY AdmissionAssumption, FS_Subset, FS_CardinalityType

\* One request more in a set, or one less.
LEMMA OneMore ==
    ASSUME NEW S \in SUBSET Requests, NEW r \in Requests \ S
    PROVE  Cardinality(S \cup {r}) = Cardinality(S) + 1
  BY Counted, FS_AddElement

LEMMA OneLess ==
    ASSUME NEW S \in SUBSET Requests, NEW r \in S
    PROVE  Cardinality(S \ {r}) = Cardinality(S) - 1
  BY Counted, FS_RemoveElement

\* SlotsAreHeld in terms of the sets.
LEMMA SlotsBySets ==
    SlotsAreHeld <=>
      \A p \in Processes :
         /\ global[p] = Cardinality(Holding(p))
         /\ \A s \in Scopes : /\ inflight[p][s] = Cardinality(HoldingScope(p, s))
                             /\ inflight[p][s] <= ScopeLimit
  BY DEF SlotsAreHeld, Holding, HoldingScope

LEMMA SlotsBySetsNext ==
    SlotsAreHeld' <=>
      \A p \in Processes :
         /\ global'[p] = Cardinality(Holding(p)')
         /\ \A s \in Scopes : /\ inflight'[p][s] = Cardinality(HoldingScope(p, s)')
                             /\ inflight'[p][s] <= ScopeLimit
  BY DEF SlotsAreHeld, Holding, HoldingScope

\* A request that leaves gives back exactly the slots it holds.
LEMMA LeaveKeepsSlots ==
    ASSUME TypeOK, SlotsAreHeld, NEW r \in Requests, pc[r] \in Inside,
           NEW status, Leave(r, status)
    PROVE  SlotsAreHeld'
<1>1. SUFFICES ASSUME NEW p \in Processes, NEW s \in Scopes
               PROVE  /\ global'[p] = Cardinality(Holding(p)')
                      /\ inflight'[p][s] = Cardinality(HoldingScope(p, s)')
                      /\ inflight'[p][s] <= ScopeLimit
  <2>1. ScopeOf[r] \in Scopes
    BY AdmissionAssumption
  <2> QED
    BY <2>1, SlotsBySetsNext
<1>2. global[p] = Cardinality(Holding(p)) /\ inflight[p][s] = Cardinality(HoldingScope(p, s))
      /\ inflight[p][s] <= ScopeLimit
  BY SlotsBySets
<1>3. Holding(p) \in SUBSET Requests /\ HoldingScope(p, s) \in SUBSET Requests
  BY DEF Holding, HoldingScope, Bound
<1>4. pc' = [pc EXCEPT ![r] = "done"]
  BY DEF Leave
<1>5. global'[p] = Cardinality(Holding(p)')
  <2>1. CASE p = Home[r]
    <3>1. r \in Holding(p) /\ Holding(p)' = Holding(p) \ {r}
      BY <1>4, <2>1 DEF Holding, TypeOK, Inside
    <3>2. global'[p] = global[p] - 1
      BY <2>1 DEF Leave, TypeOK
    <3> QED
      BY <3>1, <3>2, <1>2, <1>3, OneLess
  <2>2. CASE p # Home[r]
    <3>1. Holding(p)' = Holding(p)
      BY <1>4, <2>2 DEF Holding, TypeOK, Inside
    <3>2. global'[p] = global[p]
      BY <2>2 DEF Leave, TypeOK
    <3> QED
      BY <3>1, <3>2, <1>2
  <2> QED
    BY <2>1, <2>2
<1>6. inflight'[p][s] = Cardinality(HoldingScope(p, s)') /\ inflight'[p][s] <= ScopeLimit
  <2>1. CASE p = Home[r] /\ s = ScopeOf[r] /\ pc[r] \in Limited
    <3>1. r \in HoldingScope(p, s) /\ HoldingScope(p, s)' = HoldingScope(p, s) \ {r}
      BY <1>4, <2>1 DEF HoldingScope, Bound, TypeOK, Limited
    <3>2. inflight'[p][s] = inflight[p][s] - 1
      BY <2>1 DEF Leave, TypeOK
    <3>3. inflight[p][s] \in Int /\ ScopeLimit \in Int
      BY AdmissionAssumption DEF TypeOK
    <3> QED
      BY <3>1, <3>2, <3>3, <1>2, <1>3, OneLess
  <2>2. CASE ~(p = Home[r] /\ s = ScopeOf[r] /\ pc[r] \in Limited)
    <3>1. HoldingScope(p, s)' = HoldingScope(p, s)
      BY <1>4, <2>2 DEF HoldingScope, Bound, TypeOK, Limited
    <3>2. inflight'[p][s] = inflight[p][s]
      BY <2>2 DEF Leave, TypeOK
    <3> QED
      BY <3>1, <3>2, <1>2
  <2> QED
    BY <2>1, <2>2
<1> QED
  BY <1>5, <1>6

\* A request that goes on without taking or giving a slot.
LEMMA GoKeepsSlots ==
    ASSUME TypeOK, SlotsAreHeld, NEW r \in Requests, NEW place \in Inside,
           pc[r] \in Inside, pc[r] \in Limited <=> place \in Limited,
           Go(r, place), UNCHANGED <<global, inflight>>
    PROVE  SlotsAreHeld'
<1>1. ASSUME NEW p \in Processes PROVE Holding(p)' = Holding(p)
  BY DEF Holding, Go, TypeOK
<1>2. ASSUME NEW p \in Processes, NEW s \in Scopes
      PROVE  HoldingScope(p, s)' = HoldingScope(p, s)
  BY DEF HoldingScope, Bound, Go, TypeOK
<1> QED
  BY <1>1, <1>2 DEF SlotsAreHeld, Holding, HoldingScope

\* A step that moves nobody and takes no slot.
LEMMA StaySlots ==
    ASSUME SlotsAreHeld, UNCHANGED <<pc, global, inflight>>
    PROVE  SlotsAreHeld'
  BY DEF SlotsAreHeld, Bound

\* Every step keeps the counters true.
LEMMA SlotsStep == TypeOK /\ SlotsAreHeld /\ [Next]_vars => SlotsAreHeld'
<1> SUFFICES ASSUME TypeOK, SlotsAreHeld, [Next]_vars PROVE SlotsAreHeld'
  OBVIOUS
<1>0. /\ {"auth", "limit", "quota", "work", "cleanup"} = Inside
      /\ {"quota", "work", "cleanup"} = Limited /\ Inside = Querying \cup {"limit"}
  BY DEF Inside, Limited, Querying
<1>1. ASSUME NEW r \in Requests, Arrive(r) PROVE SlotsAreHeld'
  <2>1. CASE global[Home[r]] >= GlobalLimit
    <3>1. pc[r] = "new" /\ pc' = [pc EXCEPT ![r] = "done"] /\ UNCHANGED <<global, inflight>>
      BY <1>1, <2>1 DEF Arrive
    <3>2. ASSUME NEW p \in Processes PROVE Holding(p)' = Holding(p)
      BY <3>1 DEF Holding, TypeOK, Inside
    <3>3. ASSUME NEW p \in Processes, NEW s \in Scopes
          PROVE  HoldingScope(p, s)' = HoldingScope(p, s)
      BY <3>1 DEF HoldingScope, Bound, TypeOK, Limited
    <3> QED
      BY <3>1, <3>2, <3>3, SlotsBySets, SlotsBySetsNext
  <2>2. CASE ~(global[Home[r]] >= GlobalLimit)
    <3>1. pc[r] = "new" /\ pc' = [pc EXCEPT ![r] = "auth"] /\ UNCHANGED inflight
          /\ global' = [global EXCEPT ![Home[r]] = @ + 1]
      BY <1>1, <2>2 DEF Arrive
    <3>2. ASSUME NEW p \in Processes PROVE global'[p] = Cardinality(Holding(p)')
      <4>0. Holding(p) \in SUBSET Requests /\ global[p] = Cardinality(Holding(p))
        BY SlotsBySets DEF Holding
      <4>1. CASE p = Home[r]
        <5>1. r \notin Holding(p) /\ Holding(p)' = Holding(p) \cup {r}
          BY <3>1, <4>1 DEF Holding, TypeOK, Inside
        <5>2. global'[p] = global[p] + 1
          BY <3>1, <4>1 DEF TypeOK
        <5> QED
          BY <4>0, <5>1, <5>2, OneMore
      <4>2. CASE p # Home[r]
        <5>1. Holding(p)' = Holding(p)
          BY <3>1, <4>2 DEF Holding, TypeOK, Inside
        <5>2. global'[p] = global[p]
          BY <3>1, <4>2 DEF TypeOK
        <5> QED
          BY <4>0, <5>1, <5>2
      <4> QED
        BY <4>1, <4>2
    <3>3. ASSUME NEW p \in Processes, NEW s \in Scopes
          PROVE  HoldingScope(p, s)' = HoldingScope(p, s)
      BY <3>1 DEF HoldingScope, Bound, TypeOK, Limited
    <3> QED
      BY <3>1, <3>2, <3>3, SlotsBySets, SlotsBySetsNext
  <2> QED
    BY <2>1, <2>2
<1>2. ASSUME NEW r \in Requests, Acquire(r) PROVE SlotsAreHeld'
  BY <1>2, StaySlots DEF Acquire
<1>3. ASSUME NEW r \in Requests, AcquireTimeout(r) PROVE SlotsAreHeld'
  <2>1. pc[r] \in Inside
    BY <1>3, <1>0 DEF AcquireTimeout
  <2>2. CASE \E status : Leave(r, status)
    BY <2>1, <2>2, LeaveKeepsSlots
  <2>3. CASE pc[r] = "work" /\ Go(r, "cleanup") /\ UNCHANGED <<global, inflight, answer>>
    BY <1>0, <2>1, <2>3, GoKeepsSlots
  <2> QED
    BY <1>3, <2>2, <2>3 DEF AcquireTimeout
<1>4. ASSUME NEW r \in Requests, Authenticate(r) PROVE SlotsAreHeld'
  <2>1. CASE Leave(r, 401)
    BY <1>0, <1>4, <2>1, LeaveKeepsSlots DEF Authenticate
  <2>2. CASE Go(r, "limit") /\ UNCHANGED <<global, inflight, answer>>
    BY <1>0, <1>4, <2>2, GoKeepsSlots DEF Authenticate
  <2> QED
    BY <1>4, <2>1, <2>2 DEF Authenticate
<1>5. ASSUME NEW r \in Requests, EnterScope(r) PROVE SlotsAreHeld'
  <2>1. pc[r] = "limit"
    BY <1>5 DEF EnterScope
  <2>2. CASE Leave(r, 429)
    BY <1>0, <2>1, <2>2, LeaveKeepsSlots
  <2>3. CASE ~Leave(r, 429)
    <3>1. Home[r] \in Processes /\ ScopeOf[r] \in Scopes
      BY AdmissionAssumption
    <3>2. /\ inflight' = [inflight EXCEPT ![Home[r]][ScopeOf[r]] = @ + 1]
          /\ pc' = [pc EXCEPT ![r] = "quota"] /\ UNCHANGED global
          /\ IF Home[r] \in Rust THEN inflight[Home[r]][ScopeOf[r]] # ScopeLimit
             ELSE inflight[Home[r]][ScopeOf[r]] < ScopeLimit
      <4>1. inflight[Home[r]][ScopeOf[r]] \in Int /\ ScopeLimit \in Int
        BY <3>1, AdmissionAssumption DEF TypeOK
      <4> QED
        BY <1>5, <2>3, <4>1 DEF EnterScope, FullRust, FullGo, Go
    <3>3. inflight[Home[r]][ScopeOf[r]] < ScopeLimit
      <4>1. inflight[Home[r]][ScopeOf[r]] \in Int /\ ScopeLimit \in Int
        BY <3>1, AdmissionAssumption DEF TypeOK
      <4>2. inflight[Home[r]][ScopeOf[r]] <= ScopeLimit
        BY <3>1, SlotsBySets
      <4> QED
        BY <3>2, <4>1, <4>2
    <3>4. ASSUME NEW p \in Processes PROVE Holding(p)' = Holding(p)
      BY <2>1, <3>2 DEF Holding, TypeOK, Inside
    <3>5. ASSUME NEW p \in Processes, NEW s \in Scopes
          PROVE  /\ inflight'[p][s] = Cardinality(HoldingScope(p, s)')
                 /\ inflight'[p][s] <= ScopeLimit
      <4>0. /\ HoldingScope(p, s) \in SUBSET Requests
            /\ inflight[p][s] = Cardinality(HoldingScope(p, s))
            /\ inflight[p][s] <= ScopeLimit /\ inflight[p][s] \in Int /\ ScopeLimit \in Int
        <5>1. HoldingScope(p, s) \in SUBSET Requests
          BY DEF HoldingScope, Bound
        <5>2. inflight[p][s] \in Int /\ ScopeLimit \in Int
          BY AdmissionAssumption DEF TypeOK
        <5> QED
          BY <5>1, <5>2, SlotsBySets
      <4>1. CASE p = Home[r] /\ s = ScopeOf[r]
        <5>1. r \notin HoldingScope(p, s) /\ HoldingScope(p, s)' = HoldingScope(p, s) \cup {r}
          BY <2>1, <3>2, <4>1 DEF HoldingScope, Bound, TypeOK, Limited
        <5>2. inflight'[p][s] = inflight[p][s] + 1
          BY <3>2, <4>1 DEF TypeOK
        <5>3. Cardinality(HoldingScope(p, s)') = Cardinality(HoldingScope(p, s)) + 1
          BY <4>0, <5>1, OneMore
        <5> QED
          BY <3>3, <4>0, <4>1, <5>2, <5>3
      <4>2. CASE ~(p = Home[r] /\ s = ScopeOf[r])
        <5>1. HoldingScope(p, s)' = HoldingScope(p, s)
          BY <2>1, <3>2, <4>2 DEF HoldingScope, Bound, TypeOK, Limited
        <5>2. inflight'[p][s] = inflight[p][s]
          BY <3>2, <4>2 DEF TypeOK
        <5> QED
          BY <4>0, <5>1, <5>2
      <4> QED
        BY <4>1, <4>2
    <3> QED
      BY <3>2, <3>4, <3>5, SlotsBySets, SlotsBySetsNext
  <2> QED
    BY <2>2, <2>3
<1>6. ASSUME NEW r \in Requests, CountQuota(r) PROVE SlotsAreHeld'
  <2>1. CASE \E status : Leave(r, status)
    BY <1>0, <1>6, <2>1, LeaveKeepsSlots DEF CountQuota
  <2>2. CASE Go(r, "work") /\ UNCHANGED <<global, inflight, answer>>
    BY <1>0, <1>6, <2>2, GoKeepsSlots DEF CountQuota
  <2> QED
    BY <1>6, <2>1, <2>2 DEF CountQuota
<1>7. ASSUME NEW r \in Requests, Work(r) PROVE SlotsAreHeld'
  <2>1. CASE Leave(r, 200)
    BY <1>0, <1>7, <2>1, LeaveKeepsSlots DEF Work
  <2>2. CASE Go(r, "cleanup") /\ UNCHANGED <<global, inflight, answer>>
    BY <1>0, <1>7, <2>2, GoKeepsSlots DEF Work
  <2> QED
    BY <1>7, <2>1, <2>2 DEF Work
<1>8. ASSUME NEW r \in Requests, Cleanup(r) PROVE SlotsAreHeld'
  BY <1>0, <1>8, LeaveKeepsSlots DEF Cleanup
<1>9. ASSUME NEW r \in Requests, Deadline(r) PROVE SlotsAreHeld'
  <2>1. CASE Leave(r, 504)
    BY <1>9, <2>1, LeaveKeepsSlots DEF Deadline
  <2>2. CASE pc[r] = "work" /\ Go(r, "cleanup") /\ UNCHANGED <<global, inflight, answer>>
    BY <1>0, <2>2, GoKeepsSlots
  <2> QED
    BY <1>9, <2>1, <2>2 DEF Deadline
<1>10. ASSUME NEW q \in Processes, Crash(q) PROVE SlotsAreHeld'
  <2>1. ASSUME NEW p \in Processes, NEW s \in Scopes
        PROVE  /\ inflight'[p][s] = Cardinality(HoldingScope(p, s)')
               /\ inflight'[p][s] <= ScopeLimit
    <3>1. CASE p = q
      <4>1. HoldingScope(p, s)' = {}
        BY <1>10, <3>1 DEF Crash, HoldingScope, Bound, TypeOK, Inside, Limited
      <4>2. inflight'[p][s] = 0
        BY <1>10, <3>1 DEF Crash, TypeOK
      <4>3. ScopeLimit \in Nat
        BY AdmissionAssumption
      <4> QED
        BY <4>1, <4>2, <4>3, FS_EmptySet
    <3>2. CASE p # q
      <4>1. HoldingScope(p, s)' = HoldingScope(p, s)
        BY <1>10, <3>2 DEF Crash, HoldingScope, Bound, TypeOK, Inside, Limited
      <4>2. inflight'[p][s] = inflight[p][s]
        BY <1>10, <3>2 DEF Crash, TypeOK
      <4> QED
        BY <4>1, <4>2, SlotsBySets
    <3> QED
      BY <3>1, <3>2
  <2>2. ASSUME NEW p \in Processes PROVE global'[p] = Cardinality(Holding(p)')
    <3>1. CASE p = q
      <4>1. Holding(p)' = {} /\ global'[p] = 0
        BY <1>10, <3>1 DEF Crash, Holding, TypeOK, Inside
      <4> QED
        BY <4>1, FS_EmptySet
    <3>2. CASE p # q
      <4>1. Holding(p)' = Holding(p) /\ global'[p] = global[p]
        BY <1>10, <3>2 DEF Crash, Holding, TypeOK, Inside
      <4> QED
        BY <4>1, SlotsBySets
    <3> QED
      BY <3>1, <3>2
  <2> QED
    BY <2>1, <2>2, SlotsBySetsNext
<1>11. CASE Tick
  BY <1>11, StaySlots DEF Tick
<1>12. CASE UNCHANGED vars
  BY <1>12, StaySlots DEF vars
<1> QED
  BY <1>1, <1>2, <1>3, <1>4, <1>5, <1>6, <1>7, <1>8, <1>9, <1>10, <1>11, <1>12 DEF Next

LEMMA SlotsInit == Init => SlotsAreHeld
<1> SUFFICES ASSUME Init PROVE SlotsAreHeld
  OBVIOUS
<1>1. ASSUME NEW p \in Processes
      PROVE  global[p] = Cardinality(Holding(p))
  <2>1. Holding(p) = {}
    BY DEF Init, Holding, Inside
  <2> QED
    BY <2>1, FS_EmptySet DEF Init
<1>2. ASSUME NEW p \in Processes, NEW s \in Scopes
      PROVE  inflight[p][s] = Cardinality(HoldingScope(p, s)) /\ inflight[p][s] <= ScopeLimit
  <2>1. HoldingScope(p, s) = {}
    BY DEF Init, HoldingScope, Bound, Limited
  <2>2. inflight[p][s] = 0 /\ 0 <= ScopeLimit
    BY AdmissionAssumption DEF Init
  <2> QED
    BY <2>1, <2>2, FS_EmptySet
<1> QED
  BY <1>1, <1>2, SlotsBySets

\* The Go core's counters and the Rust core's permits are, in every reachable state,
\* the number of requests that hold a slot, and no scope has more than its limit in
\* a process: no refusal, error, timeout or crash loses a slot or gives one twice.
THEOREM SlotsHeld == Spec => []SlotsAreHeld
  BY TypingInit, TypingStep, SlotsInit, SlotsStep, PTL DEF Spec
-----------------------------------------------------------------------------
(* The quota *)

LEMMA UsedType ==
    ASSUME TypeOK, NEW s \in Scopes
    PROVE  /\ used[s] \in [0..Windows - 1 -> Nat]
           /\ \A w \in 0..Windows - 1 : used[s][w] \in Nat
<1>1. used[s] \in [0..Windows - 1 -> Nat]
  BY DEF TypeOK
<1> QED
  BY <1>1

\* What counting does to the counts.
LEMMA CountedOnce ==
    ASSUME TypeOK, NEW s \in Scopes, NEW w \in 0..Windows - 1, NEW r \in Requests,
           used' = [used EXCEPT ![ScopeOf[r]][Window] = used[ScopeOf[r]][Window] + 1]
    PROVE  used'[s][w] = IF s = ScopeOf[r] /\ w = Window THEN used[s][w] + 1 ELSE used[s][w]
<1> DEFINE n == used[ScopeOf[r]][Window] + 1
<1>1. ScopeOf[r] \in Scopes
  BY AdmissionAssumption
<1>2. DOMAIN used = Scopes /\ DOMAIN used[ScopeOf[r]] = 0..Windows - 1
  <2>1. DOMAIN used = Scopes
    BY DEF TypeOK
  <2>2. used[ScopeOf[r]] \in [0..Windows - 1 -> Nat]
    BY <1>1, UsedType
  <2> QED
    BY <2>1, <2>2
<1>3. used' = [used EXCEPT ![ScopeOf[r]] = [used[ScopeOf[r]] EXCEPT ![Window] = n]]
  OBVIOUS
<1> HIDE DEF n
<1>4. used'[s] = IF s = ScopeOf[r] THEN [used[ScopeOf[r]] EXCEPT ![Window] = n] ELSE used[s]
  BY <1>2, <1>3
<1>5. used'[s][w] = IF s = ScopeOf[r] /\ w = Window THEN n ELSE used[s][w]
  BY <1>2, <1>4
<1> QED
  BY <1>5 DEF n

\* A step that lets nobody pass and takes back no count.
LEMMA NobodyPasses ==
    ASSUME TypeOK, QuotaInv, UNCHANGED passed,
           \A s \in Scopes, w \in 0..Windows - 1 : used[s][w] <= used'[s][w] /\ used'[s][w] \in Nat,
           \A r \in Requests : pc'[r] \in {"new", "auth", "limit", "quota"} =>
                                  pc[r] \in {"new", "auth", "limit", "quota"}
    PROVE  QuotaInv'
<1>1. ASSUME NEW s \in Scopes, NEW w \in 0..Windows - 1
      PROVE  /\ Cardinality(Passed(s, w)') <= used'[s][w]
             /\ Cardinality(Passed(s, w)') <= Quota
  <2>1. Passed(s, w)' = Passed(s, w) /\ Passed(s, w) \in SUBSET Requests
    BY DEF Passed
  <2>2. Cardinality(Passed(s, w)) \in Nat
    BY <2>1, Counted
  <2>3. Cardinality(Passed(s, w)) <= used[s][w] /\ Cardinality(Passed(s, w)) <= Quota
    BY DEF QuotaInv
  <2>4. used[s][w] \in Nat /\ used[s][w] <= used'[s][w] /\ used'[s][w] \in Nat
    BY UsedType
  <2> QED
    BY <2>1, <2>2, <2>3, <2>4
<1>2. ASSUME NEW r \in Requests, pc'[r] \in {"new", "auth", "limit", "quota"}
      PROVE  passed'[r] = None
  BY <1>2 DEF QuotaInv
<1> QED
  BY <1>1, <1>2 DEF QuotaInv

\* Where a step that does not count can take a request.
LEMMA MoveOn ==
    ASSUME TypeOK, [Next]_vars, \A r \in Requests : ~CountQuota(r)
    PROVE  /\ UNCHANGED <<used, passed>>
           /\ \A r \in Requests : pc'[r] \in {"new", "auth", "limit", "quota"} =>
                                     pc[r] \in {"new", "auth", "limit", "quota"}
<1> USE DEF TypeOK, Leave, Go
<1>1. ASSUME NEW r \in Requests, Arrive(r) \/ Acquire(r) \/ AcquireTimeout(r) \/ Deadline(r)
                                 \/ Authenticate(r) \/ Work(r) \/ Cleanup(r)
      PROVE  /\ UNCHANGED <<used, passed>>
             /\ \A q \in Requests : pc'[q] \in {"new", "auth", "limit", "quota"} =>
                                       pc[q] \in {"new", "auth", "limit", "quota"}
  BY <1>1 DEF Arrive, Acquire, AcquireTimeout, Deadline, Authenticate, Work, Cleanup
<1>2. ASSUME NEW r \in Requests, EnterScope(r)
      PROVE  /\ UNCHANGED <<used, passed>>
             /\ \A q \in Requests : pc'[q] \in {"new", "auth", "limit", "quota"} =>
                                       pc[q] \in {"new", "auth", "limit", "quota"}
  BY <1>2 DEF EnterScope
<1>3. ASSUME NEW p \in Processes, Crash(p)
      PROVE  /\ UNCHANGED <<used, passed>>
             /\ \A q \in Requests : pc'[q] \in {"new", "auth", "limit", "quota"} =>
                                       pc[q] \in {"new", "auth", "limit", "quota"}
  BY <1>3 DEF Crash
<1>4. CASE Tick
  BY <1>4 DEF Tick
<1>5. CASE UNCHANGED vars
  BY <1>5 DEF vars
<1> QED
  BY <1>1, <1>2, <1>3, <1>4, <1>5 DEF Next

\* A request that is counted: it passes only if the count that includes it is within
\* the quota, and the count grows with it.
LEMMA CountStep ==
    ASSUME TypeOK, QuotaInv, NEW r \in Requests, CountQuota(r)
    PROVE  QuotaInv'
<1> DEFINE counted == used[ScopeOf[r]][Window] + 1
<1>1. ScopeOf[r] \in Scopes /\ Quota \in Nat /\ None \notin Nat
  BY AdmissionAssumption
<1>2. pc[r] = "quota" /\ passed[r] = None
  BY DEF CountQuota, QuotaInv
<1>3. \/ UNCHANGED used
      \/ used' = [used EXCEPT ![ScopeOf[r]][Window] = counted]
  BY DEF CountQuota
<1>4. \A s \in Scopes, w \in 0..Windows - 1 :
         /\ used[s][w] \in Nat /\ used'[s][w] \in Nat /\ used[s][w] <= used'[s][w]
         /\ used' # used /\ s = ScopeOf[r] /\ w = Window => used'[s][w] = used[s][w] + 1
  <2>1. ASSUME NEW s \in Scopes, NEW w \in 0..Windows - 1
        PROVE  /\ used[s][w] \in Nat /\ used'[s][w] \in Nat /\ used[s][w] <= used'[s][w]
               /\ used' # used /\ s = ScopeOf[r] /\ w = Window => used'[s][w] = used[s][w] + 1
    <3>1. used[s][w] \in Nat
      BY UsedType
    <3>2. CASE used' = used
      BY <3>1, <3>2
    <3>3. CASE used' = [used EXCEPT ![ScopeOf[r]][Window] = counted]
      <4>1. used'[s][w] = IF s = ScopeOf[r] /\ w = Window THEN used[s][w] + 1 ELSE used[s][w]
        BY <1>1, <3>3, CountedOnce
      <4> QED
        BY <3>1, <4>1
    <3> QED
      BY <1>3, <3>2, <3>3
  <2> QED
    BY <2>1
<1>5. CASE UNCHANGED passed
  <2>1. \A q \in Requests : pc'[q] \in {"new", "auth", "limit", "quota"} =>
                              pc[q] \in {"new", "auth", "limit", "quota"}
    BY DEF CountQuota, Go, Leave, TypeOK
  <2> QED
    BY <1>4, <1>5, <2>1, NobodyPasses
<1>6. CASE ~UNCHANGED passed
  <2>1. /\ used' = [used EXCEPT ![ScopeOf[r]][Window] = counted]
        /\ ~OverQuota(counted)
        /\ pc' = [pc EXCEPT ![r] = "work"]
        /\ passed' = [passed EXCEPT ![r] = clock]
    BY <1>6 DEF CountQuota, Go
  <2>2. clock \in Nat /\ passed'[r] = clock /\ \A q \in Requests \ {r} : passed'[q] = passed[q]
    BY <2>1 DEF TypeOK
  <2>3. ASSUME NEW s \in Scopes, NEW w \in 0..Windows - 1
        PROVE  /\ Cardinality(Passed(s, w)') <= used'[s][w]
               /\ Cardinality(Passed(s, w)') <= Quota
    <3>1. Passed(s, w) \in SUBSET Requests /\ r \notin Passed(s, w)
      BY <1>2 DEF Passed
    <3>2. Cardinality(Passed(s, w)) \in Nat
      BY <3>1, Counted
    <3>3. Cardinality(Passed(s, w)) <= used[s][w] /\ Cardinality(Passed(s, w)) <= Quota
      BY DEF QuotaInv
    <3>4. CASE s = ScopeOf[r] /\ w = Window
      <4>1. Passed(s, w)' = Passed(s, w) \cup {r}
        BY <1>1, <2>2, <3>4 DEF Passed, Window
      <4>2. Cardinality(Passed(s, w)') = Cardinality(Passed(s, w)) + 1
        BY <3>1, <4>1, OneMore
      <4>3. used'[s][w] = used[s][w] + 1 /\ used[s][w] + 1 <= Quota /\ used[s][w] \in Nat
        <5>1. used[s][w] \in Nat /\ counted = used[s][w] + 1
          BY <1>4, <3>4
        <5>2. ~(used[s][w] + 1 > Quota)
          BY <2>1, <5>1 DEF OverQuota
        <5>3. used'[s][w] = used[s][w] + 1
          BY <1>1, <2>1, <3>4, <5>1, CountedOnce
        <5> QED
          BY <1>1, <5>1, <5>2, <5>3
      <4> QED
        BY <1>1, <3>2, <3>3, <4>2, <4>3
    <3>5. CASE ~(s = ScopeOf[r] /\ w = Window)
      <4>1. Passed(s, w)' = Passed(s, w)
        BY <1>2, <2>2, <3>5 DEF Passed, Window
      <4> QED
        BY <1>4, <3>2, <3>3, <4>1
    <3> QED
      BY <3>4, <3>5
  <2>4. ASSUME NEW q \in Requests, pc'[q] \in {"new", "auth", "limit", "quota"}
        PROVE  passed'[q] = None
    BY <2>1, <2>2, <2>4 DEF QuotaInv, TypeOK
  <2> QED
    BY <2>3, <2>4 DEF QuotaInv
<1> QED
  BY <1>5, <1>6

LEMMA QuotaStep == TypeOK /\ QuotaInv /\ [Next]_vars => QuotaInv'
<1> SUFFICES ASSUME TypeOK, QuotaInv, [Next]_vars PROVE QuotaInv'
  OBVIOUS
<1>1. CASE \E r \in Requests : CountQuota(r)
  BY <1>1, CountStep
<1>2. CASE \A r \in Requests : ~CountQuota(r)
  <2>1. \A s \in Scopes, w \in 0..Windows - 1 : used[s][w] \in Nat
    BY UsedType
  <2> QED
    BY <1>2, <2>1, MoveOn, NobodyPasses
<1> QED
  BY <1>1, <1>2

LEMMA QuotaInit == Init => QuotaInv
<1> SUFFICES ASSUME Init PROVE QuotaInv
  OBVIOUS
<1>1. \A s \in Scopes, w \in 0..Windows - 1 : Passed(s, w) = {} /\ used[s][w] = 0
  BY DEF Init, Passed
<1>2. Quota \in Nat
  BY AdmissionAssumption
<1>3. \A r \in Requests : passed[r] = None
  BY DEF Init
<1> QED
  BY <1>1, <1>2, <1>3, FS_EmptySet DEF QuotaInv

\* Across all processes of both cores, with failing commits and crashes, at most Quota
\* requests of an integration pass in a window.
THEOREM QuotaKept == Spec => []QuotaHolds
<1>1. QuotaInv => QuotaHolds
  BY DEF QuotaInv, QuotaHolds, Passed
<1> QED
  BY <1>1, TypingInit, TypingStep, QuotaInit, QuotaStep, PTL DEF Spec
=============================================================================

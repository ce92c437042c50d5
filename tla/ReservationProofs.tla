-------------------------- MODULE ReservationProofs --------------------------
(***************************************************************************)
(* Proofs about Reservation for any number of requests, keys and bodies.   *)
(***************************************************************************)
EXTENDS Reservation, TLAPS

\* The UPDATE of tg.reserve turns a row into a row that keeps its hash and its
\* response.
LEMMA RefencedRow ==
    ASSUME NEW item \in Row, NEW r \in Requests, clock \in Nat
    PROVE  /\ Refenced(item, r) \in Row
           /\ Refenced(item, r).fence = r
           /\ Refenced(item, r).lease = clock + Lease
           /\ Refenced(item, r).hash = item.hash
           /\ Refenced(item, r).response = item.response
  BY ReservationAssumption DEF Refenced, Row

\* Every step of the protocol keeps every variable in its type.
LEMMA TypingStep == TypeOK /\ [Next]_vars => TypeOK'
<1> USE ReservationAssumption
<1> SUFFICES ASSUME TypeOK, [Next]_vars
             PROVE  TypeOK'
  OBVIOUS
<1> USE DEF TypeOK, Row, Places, Branches, Refusals, GoTo, MyRow
<1>1. ASSUME NEW r \in Requests, Begin(r)
      PROVE  TypeOK'
  BY <1>1 DEF Begin
<1>2. ASSUME NEW r \in Requests, Serve(r)
      PROVE  TypeOK'
  <2>1. CASE InsertRow(r)
    BY <2>1 DEF InsertRow, Owned, Refuse
  <2>2. CASE InsertConflicts(r)
    BY <2>2 DEF InsertConflicts
  <2>3. CASE LockNothing(r)
    BY <2>3 DEF LockNothing
  <2>4. CASE KeyReused(r)
    BY <2>4 DEF KeyReused, Refuse
  <2>5. CASE ReplayRow(r)
    BY <2>5 DEF ReplayRow
  <2>6. CASE InProgress(r)
    BY <2>6 DEF InProgress, Refuse
  <2>a. MyRow(r) # None => Refenced(MyRow(r), r) \in Row
    BY RefencedRow
  <2>7. CASE TakeOver(r)
    BY <2>7, <2>a DEF TakeOver, Owned, Refuse
  <2>8. CASE UpdateUnlocked(r)
    BY <2>8, <2>a DEF UpdateUnlocked, Owned, Refuse
  <2>9. CASE Publish(r)
    BY <2>9 DEF Publish, Fenced, Responded
  <2>10. CASE FenceLost(r)
    BY <2>10 DEF FenceLost, Refuse
  <2>11. CASE WorkFails(r)
    BY <2>11 DEF WorkFails, Refuse
  <2>12. CASE ReserveFails(r)
    BY <2>12 DEF ReserveFails, Refuse
  <2>13. CASE Release(r)
    BY <2>13 DEF Release
  <2> QED
    BY <1>2, <2>1, <2>2, <2>3, <2>4, <2>5, <2>6, <2>7, <2>8, <2>9, <2>10,
       <2>11, <2>12, <2>13 DEF Serve
<1>3. ASSUME NEW r \in Requests, Crash(r)
      PROVE  TypeOK'
  BY <1>3 DEF Crash
<1>4. CASE Tick
  BY <1>4 DEF Tick
<1>5. CASE UNCHANGED vars
  BY <1>5 DEF vars
<1> QED
  BY <1>1, <1>2, <1>3, <1>4, <1>5 DEF Next

LEMMA TypingInit == Init => TypeOK
  BY ReservationAssumption DEF Init, TypeOK, Places, Branches, Refusals

THEOREM Typing == Spec => []TypeOK
  BY TypingInit, TypingStep, PTL DEF Spec

\* Stored responses, answers, fences and hashes stay consistent in every step.
LEMMA Inductive == IInv /\ [Next]_vars => IInv'
<1> USE ReservationAssumption
<1> SUFFICES ASSUME IInv, [Next]_vars
             PROVE  IInv'
  OBVIOUS
<1>t. TypeOK /\ TypeOK'
  BY TypingStep DEF IInv
<1> USE DEF IInv, StoredInv, AnswersAgree, OwnerInv, HashInv, AnswerFitsRequest,
            NeverUnlocked, Working, InTime, Fenced, MyRow, GoTo
<1>1. ASSUME NEW r \in Requests, Begin(r)
      PROVE  IInv'
  BY <1>1, <1>t DEF Begin, TypeOK, Row
<1>2. ASSUME NEW r \in Requests, Serve(r)
      PROVE  IInv'
  <2>1. CASE InsertRow(r)
    <3>k. \A k \in Keys : row'[k] = IF k = RequestKey[r]
                                   THEN [hash |-> RequestHash[r], fence |-> r,
                                lease |-> clock + Lease, response |-> None]
                                   ELSE row[k]
      BY <2>1, <1>t DEF InsertRow, TypeOK
    <3>1. StoredInv'
      BY <2>1, <1>t, <3>k DEF InsertRow, Owned, Refuse, TypeOK, Row
    <3>2. AnswersAgree'
      BY <2>1, <1>t, <3>k DEF InsertRow, Owned, Refuse, TypeOK, Row
    <3>3. OwnerInv'
      <4> SUFFICES ASSUME NEW q \in Requests
                   PROVE  OwnerInv!(q)'
        OBVIOUS
      <4>1. CASE q = r
        BY <4>1, <2>1, <1>t, <3>k DEF InsertRow, Owned, Refuse, TypeOK, Row
      <4>2. CASE q # r
        BY <4>2, <2>1, <1>t, <3>k DEF InsertRow, Owned, Refuse, TypeOK, Row
      <4> QED
        BY <4>1, <4>2
    <3>4. HashInv'
      <4> SUFFICES ASSUME NEW q \in Requests
                   PROVE  HashInv!(q)'
        OBVIOUS
      <4>1. CASE q = r
        BY <4>1, <2>1, <1>t, <3>k DEF InsertRow, Owned, Refuse, TypeOK, Row
      <4>2. CASE q # r
        BY <4>2, <2>1, <1>t, <3>k DEF InsertRow, Owned, Refuse, TypeOK, Row
      <4> QED
        BY <4>1, <4>2
    <3>5. AnswerFitsRequest'
      <4> SUFFICES ASSUME NEW q \in Requests
                   PROVE  AnswerFitsRequest!(q)'
        OBVIOUS
      <4>1. CASE q = r
        BY <4>1, <2>1, <1>t, <3>k DEF InsertRow, Owned, Refuse, TypeOK, Row
      <4>2. CASE q # r
        BY <4>2, <2>1, <1>t, <3>k DEF InsertRow, Owned, Refuse, TypeOK, Row
      <4> QED
        BY <4>1, <4>2
    <3> QED
      BY <1>t, <3>1, <3>2, <3>3, <3>4, <3>5
  <2>2. CASE InsertConflicts(r)
    BY <2>2, <1>t DEF InsertConflicts, TypeOK, Row
  <2>3. CASE LockNothing(r)
    BY <2>3, <1>t DEF LockNothing, TypeOK, Row
  <2>4. CASE KeyReused(r)
    BY <2>4, <1>t DEF KeyReused, Refuse, TypeOK, Row
  <2>5. CASE ReplayRow(r)
    BY <2>5, <1>t DEF ReplayRow, TypeOK, Row
  <2>6. CASE InProgress(r)
    BY <2>6, <1>t DEF InProgress, Refuse, TypeOK, Row
  <2>7. CASE TakeOver(r)
    <3>k. \A k \in Keys : row'[k] = IF k = RequestKey[r]
                                   THEN Refenced(row[k], r)
                                   ELSE row[k]
      BY <2>7, <1>t DEF TakeOver, TypeOK
    <3>1. StoredInv'
      BY <2>7, <1>t, <3>k DEF TakeOver, Owned, Refuse, Refenced, TypeOK, Row
    <3>2. AnswersAgree'
      BY <2>7, <1>t, <3>k DEF TakeOver, Owned, Refuse, Refenced, TypeOK, Row
    <3>3. OwnerInv'
      <4> SUFFICES ASSUME NEW q \in Requests
                   PROVE  OwnerInv!(q)'
        OBVIOUS
      <4>1. CASE q = r
        BY <4>1, <2>7, <1>t, <3>k DEF TakeOver, Owned, Refuse, Refenced, TypeOK, Row
      <4>2. CASE q # r
        BY <4>2, <2>7, <1>t, <3>k DEF TakeOver, Owned, Refuse, Refenced, TypeOK, Row
      <4> QED
        BY <4>1, <4>2
    <3>4. HashInv'
      <4> SUFFICES ASSUME NEW q \in Requests
                   PROVE  HashInv!(q)'
        OBVIOUS
      <4>1. CASE q = r
        BY <4>1, <2>7, <1>t, <3>k DEF TakeOver, Owned, Refuse, Refenced, TypeOK, Row
      <4>2. CASE q # r
        BY <4>2, <2>7, <1>t, <3>k DEF TakeOver, Owned, Refuse, Refenced, TypeOK, Row
      <4> QED
        BY <4>1, <4>2
    <3>5. AnswerFitsRequest'
      <4> SUFFICES ASSUME NEW q \in Requests
                   PROVE  AnswerFitsRequest!(q)'
        OBVIOUS
      <4>1. CASE q = r
        BY <4>1, <2>7, <1>t, <3>k DEF TakeOver, Owned, Refuse, Refenced, TypeOK, Row
      <4>2. CASE q # r
        BY <4>2, <2>7, <1>t, <3>k DEF TakeOver, Owned, Refuse, Refenced, TypeOK, Row
      <4> QED
        BY <4>1, <4>2
    <3> QED
      BY <1>t, <3>1, <3>2, <3>3, <3>4, <3>5
  <2>8. CASE UpdateUnlocked(r)
    <3>k. \A k \in Keys : row'[k] = IF k = RequestKey[r] /\ row[k] # None
                                   THEN Refenced(row[k], r)
                                   ELSE row[k]
      BY <2>8, <1>t DEF UpdateUnlocked, TypeOK
    <3>1. StoredInv'
      BY <2>8, <1>t, <3>k DEF UpdateUnlocked, Owned, Refuse, Refenced, TypeOK, Row
    <3>2. AnswersAgree'
      BY <2>8, <1>t, <3>k DEF UpdateUnlocked, Owned, Refuse, Refenced, TypeOK, Row
    <3>3. OwnerInv'
      <4> SUFFICES ASSUME NEW q \in Requests
                   PROVE  OwnerInv!(q)'
        OBVIOUS
      <4>1. CASE q = r
        BY <4>1, <2>8, <1>t, <3>k DEF UpdateUnlocked, Owned, Refuse, Refenced, TypeOK, Row
      <4>2. CASE q # r
        BY <4>2, <2>8, <1>t, <3>k DEF UpdateUnlocked, Owned, Refuse, Refenced, TypeOK, Row
      <4> QED
        BY <4>1, <4>2
    <3>4. HashInv'
      <4> SUFFICES ASSUME NEW q \in Requests
                   PROVE  HashInv!(q)'
        OBVIOUS
      <4>1. CASE q = r
        BY <4>1, <2>8, <1>t, <3>k DEF UpdateUnlocked, Owned, Refuse, Refenced, TypeOK, Row
      <4>2. CASE q # r
        BY <4>2, <2>8, <1>t, <3>k DEF UpdateUnlocked, Owned, Refuse, Refenced, TypeOK, Row
      <4> QED
        BY <4>1, <4>2
    <3>5. AnswerFitsRequest'
      <4> SUFFICES ASSUME NEW q \in Requests
                   PROVE  AnswerFitsRequest!(q)'
        OBVIOUS
      <4>1. CASE q = r
        BY <4>1, <2>8, <1>t, <3>k DEF UpdateUnlocked, Owned, Refuse, Refenced, TypeOK, Row
      <4>2. CASE q # r
        BY <4>2, <2>8, <1>t, <3>k DEF UpdateUnlocked, Owned, Refuse, Refenced, TypeOK, Row
      <4> QED
        BY <4>1, <4>2
    <3> QED
      BY <1>t, <3>1, <3>2, <3>3, <3>4, <3>5
  <2>9. CASE Publish(r)
    <3>k. \A k \in Keys : row'[k] = IF k = RequestKey[r]
                                   THEN Responded(row[k], r)
                                   ELSE row[k]
      BY <2>9, <1>t DEF Publish, TypeOK
    <3>1. StoredInv'
      BY <2>9, <1>t, <3>k DEF Publish, Responded, TypeOK, Row
    <3>2. AnswersAgree'
      BY <2>9, <1>t, <3>k DEF Publish, Responded, TypeOK, Row
    <3>3. OwnerInv'
      <4> SUFFICES ASSUME NEW q \in Requests
                   PROVE  OwnerInv!(q)'
        OBVIOUS
      <4>1. CASE q = r
        BY <4>1, <2>9, <1>t, <3>k DEF Publish, Responded, TypeOK, Row
      <4>2. CASE q # r
        BY <4>2, <2>9, <1>t, <3>k DEF Publish, Responded, TypeOK, Row
      <4> QED
        BY <4>1, <4>2
    <3>4. HashInv'
      <4> SUFFICES ASSUME NEW q \in Requests
                   PROVE  HashInv!(q)'
        OBVIOUS
      <4>1. CASE q = r
        BY <4>1, <2>9, <1>t, <3>k DEF Publish, Responded, TypeOK, Row
      <4>2. CASE q # r
        BY <4>2, <2>9, <1>t, <3>k DEF Publish, Responded, TypeOK, Row
      <4> QED
        BY <4>1, <4>2
    <3>5. AnswerFitsRequest'
      <4> SUFFICES ASSUME NEW q \in Requests
                   PROVE  AnswerFitsRequest!(q)'
        OBVIOUS
      <4>1. CASE q = r
        BY <4>1, <2>9, <1>t, <3>k DEF Publish, Responded, TypeOK, Row
      <4>2. CASE q # r
        BY <4>2, <2>9, <1>t, <3>k DEF Publish, Responded, TypeOK, Row
      <4> QED
        BY <4>1, <4>2
    <3> QED
      BY <1>t, <3>1, <3>2, <3>3, <3>4, <3>5
  <2>10. CASE FenceLost(r)
    BY <2>10, <1>t DEF FenceLost, Refuse, TypeOK, Row
  <2>11. CASE WorkFails(r)
    BY <2>11, <1>t DEF WorkFails, Refuse, TypeOK, Row
  <2>12. CASE ReserveFails(r)
    BY <2>12, <1>t DEF ReserveFails, Refuse, TypeOK, Row
  <2>13. CASE Release(r)
    BY <2>13, <1>t DEF Release, TypeOK, Row
  <2> QED
    BY <1>2, <2>1, <2>2, <2>3, <2>4, <2>5, <2>6, <2>7, <2>8, <2>9, <2>10, <2>11, <2>12, <2>13 DEF Serve
<1>3. ASSUME NEW r \in Requests, Crash(r)
      PROVE  IInv'
  BY <1>3, <1>t DEF Crash, TypeOK, Row
<1>4. CASE Tick
  BY <1>4, <1>t DEF Tick, TypeOK, Row
<1>5. CASE UNCHANGED vars
  BY <1>5, <1>t DEF vars, TypeOK, Row
<1> QED
  BY <1>1, <1>2, <1>3, <1>4, <1>5 DEF Next

LEMMA InductiveInit == Init => IInv
  BY TypingInit, ReservationAssumption
  DEF Init, IInv, StoredInv, AnswersAgree, OwnerInv, HashInv, AnswerFitsRequest,
      Working, MyRow, TypeOK

\* The inductive invariant holds in every reachable state.
THEOREM Invariance == Spec => []IInv
  BY InductiveInit, Inductive, PTL DEF Spec

\* At most one request per key commits (store.go finish under its fence).
THEOREM CommitsOnce == Spec => []CommitOnce
<1>1. IInv => CommitOnce
  BY DEF IInv, StoredInv, CommitOnce, MyRow
<1> QED
  BY <1>1, Invariance, PTL

\* Every 2xx answer is the one committed result of its key.
THEOREM AnswersAreCommitted == Spec => []AnswersAgree
<1>1. IInv => AnswersAgree
  BY DEF IInv
<1> QED
  BY <1>1, Invariance, PTL

\* Two requests work under one key at once only after an unlocked UPDATE of
\* tg.reserve: the lease (10 s) outlives the deadline (3 s).
THEOREM OwnersAreExclusive == Spec => []OwnersExclusive
<1>1. IInv => OwnersExclusive
  BY DEF IInv, OwnerInv, OwnersExclusive, Fenced, MyRow
<1> QED
  BY <1>1, Invariance, PTL

\* Answers fit the body of the request, again but for an unlocked UPDATE.
THEOREM AnswersFitRequests == Spec => []AnswerFitsRequest
<1>1. IInv => AnswerFitsRequest
  BY DEF IInv
<1> QED
  BY <1>1, Invariance, PTL

-----------------------------------------------------------------------------
\* A step changes the response of a row only by publishing it, and never once
\* it is there.
LEMMA ResponseStep ==
    ASSUME IInv, IInv', [Next]_vars
    PROVE  \A k \in Keys : Stored(k) # None => Stored(k)' = Stored(k)
<1> SUFFICES ASSUME NEW k \in Keys, row[k] # None, row[k].response # None
             PROVE  row'[k] # None /\ row'[k].response = row[k].response
  BY DEF Stored
<1> USE ReservationAssumption DEF MyRow, Fenced, Row
<1>t. TypeOK
  BY DEF IInv
<1>1. ASSUME NEW r \in Requests, Serve(r)
      PROVE  row'[k] # None /\ row'[k].response = row[k].response
  <2>1. CASE InsertRow(r)
    BY <1>t, <2>1 DEF InsertRow, TypeOK
  <2>2. CASE TakeOver(r)
    BY <1>t, <2>2 DEF TakeOver, Refenced, TypeOK
  <2>3. CASE UpdateUnlocked(r)
    BY <1>t, <2>3 DEF UpdateUnlocked, Refenced, TypeOK
  <2>4. CASE Publish(r)
    BY <1>t, <2>4 DEF Publish, Responded, TypeOK
  <2>5. CASE Release(r)
    BY <1>t, <2>5 DEF Release, TypeOK
  <2>6. CASE UNCHANGED row
    BY <2>6
  <2> QED
    BY <1>1, <2>1, <2>2, <2>3, <2>4, <2>5, <2>6
    DEF Serve, InsertConflicts, LockNothing, KeyReused, ReplayRow, InProgress,
        FenceLost, WorkFails, ReserveFails, Refuse
<1> QED
  BY <1>1 DEF Next, Begin, Crash, Tick, vars

\* No release, takeover or late finish touches a stored response.
THEOREM ResponsesAreFinal == Spec => StoredResponseIsFinal
<1>1. IInv /\ IInv' /\ [Next]_vars
      => [\A k \in Keys :
            row[k] # None /\ row[k].response # None
            => row'[k] # None /\ row'[k].response = row[k].response]_vars
  BY ResponseStep DEF Stored
<1> QED
  BY <1>1, Invariance, PTL DEF Spec, StoredResponseIsFinal

-----------------------------------------------------------------------------
\* A step that leaves every stored response and every answer alone stutters.
LEMMA OnceStutter ==
    ASSUME \A k \in Keys : Stored(k)' = Stored(k), UNCHANGED answer
    PROVE  UNCHANGED Once!onceVars
<1>1. [k \in Keys |-> Stored(k)]' = [k \in Keys |-> Stored(k)]
  OBVIOUS
<1> QED
  BY <1>1 DEF Once!onceVars

\* Every step of the protocol is a step of the abstract store or a stutter.
LEMMA OnceStep ==
    ASSUME IInv, IInv', [Next]_vars
    PROVE  [Once!OnceNext]_(Once!onceVars)
<1> USE ReservationAssumption DEF MyRow, Row
<1> DEFINE res == [k \in Keys |-> Stored(k)]
<1>t. TypeOK /\ TypeOK'
  BY DEF IInv
<1>1. ASSUME NEW r \in Requests, Serve(r)
      PROVE  [Once!OnceNext]_(Once!onceVars)
  <2>1. CASE Publish(r)
    <3>1. \A k \in Keys : row'[k] = IF k = RequestKey[r]
                                   THEN Responded(row[k], r) ELSE row[k]
      BY <2>1, <1>t DEF Publish, TypeOK
    <3>2. Stored(RequestKey[r]) = None
      BY <2>1, <1>t DEF Publish, Fenced, Stored, TypeOK
    <3>3. \A k \in Keys : Stored(k)' = IF k = RequestKey[r] THEN r ELSE Stored(k)
      BY <2>1, <3>1, <1>t DEF Publish, Fenced, Responded, Stored, TypeOK
    <3>4. res' = [res EXCEPT ![RequestKey[r]] = r]
      BY <3>3
    <3>5. answer' = answer \/ answer' = [answer EXCEPT ![r] = r]
      BY <2>1 DEF Publish
    <3>6. Once!TakeEffect(r)
      BY <3>2, <3>4, <3>5 DEF Once!TakeEffect
    <3> QED
      BY <3>6 DEF Once!OnceNext
  <2>2. CASE ReplayRow(r)
    <3>1. UNCHANGED row
      BY <2>2 DEF ReplayRow
    <3>2. res' = res
      BY <3>1 DEF Stored
    <3>3. Stored(RequestKey[r]) # None /\ Stored(RequestKey[r]) = MyRow(r).response
      BY <2>2 DEF ReplayRow, Stored
    <3>4. CASE answer[r] = None
      <4>1. Once!Replay(r)
        BY <3>2, <3>3, <3>4, <2>2 DEF ReplayRow, Once!Replay
      <4> QED
        BY <4>1 DEF Once!OnceNext
    <3>5. CASE answer[r] # None
      <4>1. answer' = answer
        BY <3>5, <3>3, <2>2, <1>t DEF ReplayRow, IInv, AnswersAgree, TypeOK
      <4> QED
        BY <4>1, <3>1, OnceStutter DEF Stored
    <3> QED
      BY <3>4, <3>5
  <2>3. CASE InsertRow(r)
    <3>1. UNCHANGED answer
      BY <2>3 DEF InsertRow, Owned, Refuse
    <3>2. \A k \in Keys : Stored(k)' = Stored(k)
      BY <2>3, <1>t DEF InsertRow, Stored, TypeOK
    <3> QED
      BY <3>1, <3>2, OnceStutter
  <2>4. CASE TakeOver(r)
    <3>1. UNCHANGED answer
      BY <2>4 DEF TakeOver, Owned, Refuse
    <3>2. \A k \in Keys : Stored(k)' = Stored(k)
      BY <2>4, <1>t DEF TakeOver, Refenced, Stored, TypeOK
    <3> QED
      BY <3>1, <3>2, OnceStutter
  <2>5. CASE UpdateUnlocked(r)
    <3>1. UNCHANGED answer
      BY <2>5 DEF UpdateUnlocked, Owned, Refuse
    <3>2. \A k \in Keys : Stored(k)' = Stored(k)
      BY <2>5, <1>t DEF UpdateUnlocked, Refenced, Stored, TypeOK
    <3> QED
      BY <3>1, <3>2, OnceStutter
  <2>6. CASE Release(r)
    <3>1. UNCHANGED answer
      BY <2>6 DEF Release
    <3>2. \A k \in Keys : Stored(k)' = Stored(k)
      BY <2>6, <1>t DEF Release, Fenced, Stored, TypeOK
    <3> QED
      BY <3>1, <3>2, OnceStutter
  <2>7. CASE UNCHANGED <<row, answer>>
    BY <2>7, OnceStutter DEF Stored
  <2> QED
    BY <1>1, <2>1, <2>2, <2>3, <2>4, <2>5, <2>6, <2>7
    DEF Serve, InsertConflicts, LockNothing, KeyReused, InProgress,
        FenceLost, WorkFails, ReserveFails, Refuse
<1>2. CASE UNCHANGED <<row, answer>>
  BY <1>2, OnceStutter DEF Stored
<1> QED
  BY <1>1, <1>2 DEF Next, Begin, Crash, Tick, vars

\* The protocol applies each key once and answers only with what it applied.
THEOREM Implements == Spec => ImplementsOnceStore
<1>1. Init => Once!OnceInit
  BY DEF Init, Once!OnceInit, Stored
<1> QED
  BY <1>1, OnceStep, Invariance, PTL
  DEF Spec, ImplementsOnceStore, Once!OnceSpec
=============================================================================

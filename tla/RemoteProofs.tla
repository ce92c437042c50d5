----------------------------- MODULE RemoteProofs -----------------------------
(***************************************************************************)
(* Proofs about RemoteCall for any calls, keys, endpoints, deadlines and   *)
(* refusals: what takes effect, what callers are told of it, and how many  *)
(* requests a call makes.                                                  *)
(***************************************************************************)
EXTENDS RemoteCall, TLAPS

\* An effect of request r under the key of its call.
Effect(r) == [key |-> CallKey[r[1]], by |-> r]
Keys == {CallKey[c] : c \in Calls}
Places == {"new", "key", "keyed", "sent", "read", "pause", "done"}

TypeOK ==
    /\ endpoint \in [Calls -> Endpoints]
    /\ pc \in [Calls -> Places]
    /\ attempts \in [Calls -> 0..2]
    /\ sent \in SUBSET Requests
    /\ effects \in SUBSET [key : Keys, by : Requests]
    /\ DOMAIN reply = Requests /\ DOMAIN outcome = Calls /\ DOMAIN metric = Calls

\* The service's store: an effect has its request's key, and a key one effect.
StoreInv ==
    /\ \A e \in effects : e = Effect(e.by)
    /\ \A d, e \in effects : d.key = e.key => d = e

\* Where a call is tells how many attempts it may have made.
AttemptInv ==
    \A c \in Calls :
        /\ pc[c] = "new" => attempts[c] = 0
        /\ pc[c] \in {"key", "keyed"} => attempts[c] <= 1
        /\ pc[c] = "pause" => attempts[c] = 1
        /\ pc[c] \in {"sent", "read"} => attempts[c] >= 1
        /\ pc[c] = "read" => reply[<<c, attempts[c]>>] # None
        /\ metric[c] # None => pc[c] = "done"

\* A call of the remote client never hands more than two requests to the
\* transport, and its `attempts`, which onRequest is told, count them.
AttemptsCount ==
    \A c \in Calls :
        /\ {r \in sent : r[1] = c} = {<<c, n>> : n \in 1..attempts[c]}
        /\ attempts[c] <= 2
        /\ metric[c] # None => metric[c] = attempts[c]

\* What the service answers, and what a call is answered with, to a request that
\* has a key names what took effect under the key.
AnswerInv ==
    /\ \A r \in Requests, b \in Requests :
          reply[r] # None /\ reply[r] = Ok(b) /\ Keyed(r[1])
          => [key |-> CallKey[r[1]], by |-> b] \in effects
    /\ \A c \in Calls, b \in Requests :
          pc[c] = "done" /\ outcome[c] = Ok(b) /\ Keyed(c)
          => [key |-> CallKey[c], by |-> b] \in effects

\* Calls with one key that are answered with a result are answered with the same.
OneAnswerPerKey ==
    \A c, d \in Calls, b, e \in Requests :
        /\ pc[c] = "done" /\ outcome[c] = Ok(b) /\ Keyed(c)
        /\ pc[d] = "done" /\ outcome[d] = Ok(e) /\ Keyed(d)
        /\ CallKey[c] = CallKey[d]
        => b = e

IInv == TypeOK /\ StoreInv /\ AttemptInv /\ AttemptsCount /\ AnswerInv
-----------------------------------------------------------------------------
\* The invariant holds at first.
LEMMA Initially == Init => IInv
<1> SUFFICES ASSUME Init PROVE IInv
  OBVIOUS
<1>1. endpoint \in [Calls -> Endpoints]
  BY CallAssumption DEF Init
<1>2. TypeOK
  BY <1>1 DEF Init, TypeOK, Places
<1>3. StoreInv /\ AnswerInv
  BY DEF Init, StoreInv, AnswerInv
<1>4. AttemptInv /\ AttemptsCount
  BY DEF Init, AttemptInv, AttemptsCount
<1> QED
  BY <1>2, <1>3, <1>4 DEF IInv

\* What most steps leave alone.
Apart == <<endpoint, sent, effects, reply>>

\* A call that only moves keeps the invariant when it may be where it goes.
LEMMA MoveKeeps ==
    ASSUME IInv, NEW c \in Calls, NEW place \in Places \ {"new", "done"},
           pc[c] # "done",
           pc' = [pc EXCEPT ![c] = place],
           UNCHANGED <<Apart, attempts, outcome, metric>>,
           place \in {"key", "keyed"} => attempts[c] <= 1,
           place = "pause" => attempts[c] = 1,
           place \in {"sent", "read"} => attempts[c] >= 1,
           place = "read" => reply[<<c, attempts[c]>>] # None
    PROVE  IInv'
<1>1. TypeOK'
  BY DEF IInv, TypeOK, Apart
<1>2. StoreInv'
  BY DEF IInv, StoreInv, Apart
<1>3. AttemptInv'
  BY DEF IInv, AttemptInv, Apart, TypeOK
<1>4. AttemptsCount'
  BY DEF IInv, AttemptsCount, Apart
<1>5. AnswerInv'
  BY DEF IInv, AnswerInv, Apart, TypeOK, Keyed
<1> QED
  BY <1>1, <1>2, <1>3, <1>4, <1>5 DEF IInv

\* So does a call that ends, if a result it ends with is what took effect.
LEMMA EndKeeps ==
    ASSUME IInv, NEW c \in Calls,
           pc' = [pc EXCEPT ![c] = "done"],
           NEW told, outcome' = [outcome EXCEPT ![c] = told],
           metric' = metric \/ metric' = [metric EXCEPT ![c] = attempts[c]],
           UNCHANGED <<Apart, attempts>>,
           \A b \in Requests : told = Ok(b) /\ Keyed(c)
                               => [key |-> CallKey[c], by |-> b] \in effects
    PROVE  IInv'
<1>1. TypeOK'
  BY DEF IInv, TypeOK, Apart, Places
<1>2. StoreInv'
  BY DEF IInv, StoreInv, Apart
<1>3. AttemptInv'
  BY DEF IInv, AttemptInv, Apart, TypeOK
<1>4. AttemptsCount'
  BY DEF IInv, AttemptsCount, Apart, TypeOK
<1>5. AnswerInv'
  BY DEF IInv, AnswerInv, Apart, TypeOK, Keyed
<1> QED
  BY <1>1, <1>2, <1>3, <1>4, <1>5 DEF IInv

\* So does settle() with a result that took effect.
LEMMA SettleKeeps ==
    ASSUME IInv, NEW c \in Calls, NEW answer, Settle(c, answer),
           UNCHANGED <<Apart, attempts>>,
           \A b \in Requests : answer = Ok(b) /\ Keyed(c)
                               => [key |-> CallKey[c], by |-> b] \in effects
    PROVE  IInv'
<1> DEFINE told == IF answer.kind # "ok" /\ Signal(c) THEN Error(AbortCode(c)) ELSE answer
<1>1. \A b \in Requests : told = Ok(b) /\ Keyed(c)
                          => [key |-> CallKey[c], by |-> b] \in effects
  <2>1. \A b : Error(AbortCode(c)) # Ok(b)
    BY DEF Error, Ok
  <2> QED
    BY <2>1
<1>2. /\ pc' = [pc EXCEPT ![c] = "done"]
      /\ outcome' = [outcome EXCEPT ![c] = told]
      /\ metric' = metric \/ metric' = [metric EXCEPT ![c] = attempts[c]]
  BY DEF Settle
<1> HIDE DEF told
<1> QED
  BY <1>1, <1>2, EndKeeps

\* And settle() with an error.
LEMMA ErrorKeeps ==
    ASSUME IInv, NEW c \in Calls, NEW text, Settle(c, Error(text)),
           UNCHANGED <<Apart, attempts>>
    PROVE  IInv'
<1>1. \A b : Error(text) # Ok(b)
  BY DEF Error, Ok
<1> QED
  BY <1>1, SettleKeeps

\* Every step keeps the invariant.
LEMMA Inductive == IInv /\ [Next]_vars => IInv'
<1> SUFFICES ASSUME IInv, [Next]_vars PROVE IInv'
  OBVIOUS
<1>t. TypeOK
  BY DEF IInv
<1>1. ASSUME NEW c \in Calls, Begin(c) PROVE IInv'
  <2>0. pc[c] = "new" /\ attempts[c] <= 1 /\ UNCHANGED <<Apart, attempts, metric>>
    <3>1. pc[c] = "new" /\ UNCHANGED <<Apart, attempts, metric>>
      BY <1>1 DEF Begin, Apart
    <3>2. attempts[c] = 0
      BY <3>1 DEF IInv, AttemptInv
    <3> QED
      BY <3>1, <3>2
  <2>1. CASE pc' = [pc EXCEPT ![c] = "key"] /\ UNCHANGED outcome
    BY <2>0, <2>1, MoveKeeps DEF Places
  <2>2. ASSUME NEW text, pc' = [pc EXCEPT ![c] = "done"],
               outcome' = [outcome EXCEPT ![c] = Error(text)]
        PROVE IInv'
    <3>1. \A b : Error(text) # Ok(b)
      BY DEF Error, Ok
    <3> QED
      BY <2>0, <2>2, <3>1, EndKeeps
  <2> QED
    BY <1>1, <2>1, <2>2 DEF Begin
<1>2. ASSUME NEW c \in Calls, BeginNegotiation(c) PROVE IInv'
  <2>0. pc[c] = "new" /\ attempts[c] <= 1 /\ UNCHANGED <<Apart, attempts, metric>>
    <3>1. pc[c] = "new" /\ UNCHANGED <<Apart, attempts, metric>>
      BY <1>2 DEF BeginNegotiation, Apart
    <3>2. attempts[c] = 0
      BY <3>1 DEF IInv, AttemptInv
    <3> QED
      BY <3>1, <3>2
  <2>1. CASE pc' = [pc EXCEPT ![c] = "key"] /\ UNCHANGED outcome
    BY <2>0, <2>1, MoveKeeps DEF Places
  <2>2. ASSUME NEW text, pc' = [pc EXCEPT ![c] = "done"],
               outcome' = [outcome EXCEPT ![c] = Error(text)]
        PROVE IInv'
    <3>1. \A b : Error(text) # Ok(b)
      BY DEF Error, Ok
    <3> QED
      BY <2>0, <2>2, <3>1, EndKeeps
  <2> QED
    BY <1>2, <2>1, <2>2 DEF BeginNegotiation
<1>3. ASSUME NEW c \in Calls, KeyRead(c) PROVE IInv'
  <2>0. pc[c] = "key" /\ attempts[c] <= 1 /\ UNCHANGED <<Apart, attempts>>
    BY <1>3 DEF KeyRead, Apart, IInv, AttemptInv
  <2>1. CASE pc' = [pc EXCEPT ![c] = "keyed"] /\ UNCHANGED <<outcome, metric>>
    BY <2>0, <2>1, MoveKeeps DEF Places
  <2>2. CASE Settle(c, Error("INVALID_CREDENTIAL"))
    BY <2>0, <2>2, ErrorKeeps
  <2> QED
    BY <1>3, <2>1, <2>2 DEF KeyRead
<1>4. ASSUME NEW c \in Calls, Send(c) PROVE IInv'
  <2>1. CASE Signal(c)
    <3>1. Settle(c, Error(AbortCode(c))) /\ UNCHANGED <<Apart, attempts>>
      BY <1>4, <2>1 DEF Send, Apart
    <3> QED
      BY <3>1, ErrorKeeps
  <2>2. CASE ~Signal(c)
    <3>0. pc[c] = "keyed" /\ attempts[c] <= 1 /\ metric[c] = None
      BY <1>4 DEF Send, IInv, AttemptInv
    <3>1. /\ attempts[c] \in 0..1 /\ pc[c] = "keyed" /\ metric[c] = None
          /\ pc' = [pc EXCEPT ![c] = "sent"]
          /\ attempts' = [attempts EXCEPT ![c] = @ + 1]
          /\ sent' = sent \cup {<<c, attempts[c] + 1>>}
          /\ UNCHANGED <<endpoint, effects, reply, outcome, metric>>
      BY <1>4, <2>2, <3>0, <1>t DEF Send, TypeOK
    <3>2. TypeOK'
      BY <3>1 DEF IInv, TypeOK, Places, Requests, Attempts
    <3>3. StoreInv'
      BY <3>1 DEF IInv, StoreInv
    <3>4. AttemptInv'
      BY <3>1 DEF IInv, AttemptInv, TypeOK
    <3>5. AttemptsCount'
      <4> SUFFICES ASSUME NEW d \in Calls
                   PROVE  /\ {r \in sent' : r[1] = d} = {<<d, n>> : n \in 1..attempts'[d]}
                          /\ attempts'[d] <= 2
                          /\ metric'[d] # None => metric'[d] = attempts'[d]
        BY DEF AttemptsCount
      <4>0. {r \in sent : r[1] = d} = {<<d, n>> : n \in 1..attempts[d]}
        BY DEF IInv, AttemptsCount
      <4>1. CASE d # c
        <5>1. attempts'[d] = attempts[d]
          BY <3>1, <4>1, <1>t DEF TypeOK
        <5>2. {r \in sent' : r[1] = d} = {r \in sent : r[1] = d}
          BY <3>1, <4>1
        <5> QED
          BY <3>1, <4>0, <5>1, <5>2 DEF IInv, AttemptsCount
      <4>2. CASE d = c
        <5>1. attempts'[c] = attempts[c] + 1
          BY <3>1, <1>t DEF TypeOK
        <5>2. {r \in sent' : r[1] = c} = {r \in sent : r[1] = c} \cup {<<c, attempts[c] + 1>>}
          BY <3>1
        <5>3. 1..attempts'[c] = (1..attempts[c]) \cup {attempts[c] + 1}
          BY <3>1, <5>1
        <5> QED
          BY <3>1, <4>0, <4>2, <5>1, <5>2, <5>3
      <4> QED
        BY <4>1, <4>2
    <3>6. AnswerInv'
      BY <3>1 DEF IInv, AnswerInv, TypeOK, Keyed
    <3> QED
      BY <3>2, <3>3, <3>4, <3>5, <3>6 DEF IInv
  <2> QED
    BY <2>1, <2>2
<1>5. ASSUME NEW c \in Calls, Receive(c) PROVE IInv'
  <2>0. /\ pc[c] = "sent" /\ attempts[c] >= 1 /\ reply[<<c, attempts[c]>>] # None
        /\ pc' = [pc EXCEPT ![c] = "read"]
        /\ UNCHANGED <<Apart, attempts, outcome, metric>>
    BY <1>5 DEF Receive, Apart, IInv, AttemptInv
  <2> QED
    BY <2>0, MoveKeeps DEF Places
<1>6. ASSUME NEW c \in Calls, Evaluate(c) PROVE IInv'
  <2> DEFINE answer == reply[<<c, attempts[c]>>]
             told == CASE answer.kind = "lost" -> Error("TRANSPORT_ERROR")
                       [] answer.kind = "garbled" -> Error("INVALID_RESPONSE")
                       [] OTHER -> answer
  <2>0. /\ pc[c] = "read" /\ attempts[c] >= 1 /\ answer # None
        /\ UNCHANGED <<Apart, attempts>>
    BY <1>6 DEF Evaluate, Apart, IInv, AttemptInv
  <2>1. CASE /\ answer.kind = "refused"
             /\ MayRetry(c, answer.failure)
             /\ InTime(c, answer.failure)
    <3>1. /\ attempts[c] = 1 /\ pc' = [pc EXCEPT ![c] = "pause"]
          /\ UNCHANGED <<outcome, metric>>
      BY <1>6, <2>1 DEF Evaluate, MayRetry
    <3> QED
      BY <2>0, <3>1, MoveKeeps DEF Places
  <2>2. CASE ~(/\ answer.kind = "refused"
               /\ MayRetry(c, answer.failure)
               /\ InTime(c, answer.failure))
    <3>1. Settle(c, told)
      BY <1>6, <2>2 DEF Evaluate
    <3>2. <<c, attempts[c]>> \in Requests
      BY <2>0, <1>t DEF TypeOK, Requests, Attempts
    <3>3. ASSUME NEW b \in Requests, told = Ok(b), Keyed(c)
          PROVE  [key |-> CallKey[c], by |-> b] \in effects
      <4>1. answer = Ok(b)
        <5>1. \A text : Error(text) # Ok(b)
          BY DEF Error, Ok
        <5> QED
          BY <3>3, <5>1
      <4> QED
        BY <2>0, <3>2, <3>3, <4>1 DEF IInv, AnswerInv
    <3> HIDE DEF told
    <3> QED
      BY <2>0, <3>1, <3>3, SettleKeeps
  <2> QED
    BY <2>1, <2>2
<1>7. ASSUME NEW c \in Calls, Negotiate(c) PROVE IInv'
  <2> DEFINE answer == reply[<<c, attempts[c]>>]
             told == IF answer.kind = "lost" THEN Error("TRANSPORT_ERROR")
                     ELSE IF answer.kind = "refused" THEN Error("HTTP_ERROR")
                     ELSE IF answer.kind = "garbled" \/ Signal(c) THEN Error("INVALID_RESPONSE")
                     ELSE answer
  <2>1. Settle(c, told) /\ UNCHANGED <<Apart, attempts>>
    BY <1>7 DEF Negotiate, Apart
  <2>2. ~Keyed(c)
    BY <1>7 DEF Negotiate, ClientOf, Keyed, Methods
  <2> HIDE DEF told
  <2> QED
    BY <2>1, <2>2, SettleKeeps
<1>8. ASSUME NEW c \in Calls, Wake(c) PROVE IInv'
  <2>0. pc[c] = "pause" /\ attempts[c] = 1 /\ UNCHANGED <<Apart, attempts>>
    BY <1>8 DEF Wake, Apart, IInv, AttemptInv
  <2>1. pc' = [pc EXCEPT ![c] = "key"] /\ UNCHANGED <<outcome, metric>>
    BY <1>8, <2>0 DEF Wake
  <2>2. attempts[c] <= 1
    BY <2>0
  <2> QED
    BY <2>0, <2>1, <2>2, MoveKeeps DEF Places
<1>9. ASSUME NEW c \in Calls, Interrupt(c) PROVE IInv'
  <2>1. Settle(c, Error(AbortCode(c))) /\ UNCHANGED <<Apart, attempts>>
    BY <1>9 DEF Interrupt, Apart
  <2> QED
    BY <2>1, ErrorKeeps
<1>10. ASSUME UNCHANGED <<Apart, pc, attempts, outcome, metric>> PROVE IInv'
  BY <1>10 DEF IInv, TypeOK, StoreInv, AttemptInv, AttemptsCount, AnswerInv, Apart, Keyed
<1>11. ASSUME NEW r \in Requests, Work(r) PROVE IInv'
  <2> DEFINE key == HeaderKey(r[1], r[2])
             now == IF Keyed(r[1]) /\ Stored(key) = {}
                    THEN effects \cup {[key |-> key, by |-> r]} ELSE effects
             by == IF Keyed(r[1]) THEN {e.by : e \in {x \in now : x.key = key}} ELSE {r}
  <2>0. /\ r \in sent /\ reply[r] = None /\ effects' = now
        /\ UNCHANGED <<client, sent>>
    BY <1>11 DEF Work
  <2>1. PICK a : reply' = [reply EXCEPT ![r] = a] /\ \A b : a = Ok(b) => b \in by
    <3>1. PICK a \in {Ok(b) : b \in by}
                       \cup {Refused(f) : f \in {g \in Refusals : g.status = 504}}
                       \cup {Lost, Garbled} :
                reply' = [reply EXCEPT ![r] = a]
      BY <1>11 DEF Work
    <3>2. ASSUME NEW b, a = Ok(b) PROVE b \in by
      BY <3>1, <3>2 DEF Ok, Refused, Lost, Garbled
    <3> QED
      BY <3>1, <3>2
  <2>2. r[1] \in Calls /\ key = CallKey[r[1]] /\ key \in Keys
    BY DEF Requests, HeaderKey, Keys
  <2>3. now \in SUBSET [key : Keys, by : Requests] /\ effects \subseteq now
    BY <2>2, <1>t DEF TypeOK
  <2>4. TypeOK'
    BY <2>0, <2>1, <2>3, <1>t DEF TypeOK, client
  <2>5. StoreInv'
    <3>1. CASE now = effects
      BY <2>0, <3>1 DEF IInv, StoreInv
    <3>2. CASE Stored(key) = {} /\ now = effects \cup {[key |-> key, by |-> r]}
      <4>1. [key |-> key, by |-> r] = Effect(r)
        BY <2>2 DEF Effect
      <4>2. \A e \in effects : e.key # key
        BY <3>2 DEF Stored
      <4> QED
        BY <2>0, <3>2, <4>1, <4>2 DEF IInv, StoreInv
    <3> QED
      BY <3>1, <3>2
  <2>6. AttemptInv'
    <3> SUFFICES ASSUME NEW c \in Calls, pc[c] = "read"
                 PROVE  reply'[<<c, attempts[c]>>] # None
      BY <2>0 DEF IInv, AttemptInv, client
    <3>1. reply[<<c, attempts[c]>>] # None /\ <<c, attempts[c]>> \in Requests
      BY <1>t DEF IInv, AttemptInv, TypeOK, Requests, Attempts
    <3> QED
      BY <2>0, <2>1, <3>1, <1>t DEF TypeOK
  <2>7. AttemptsCount'
    BY <2>0 DEF IInv, AttemptsCount, client
  <2>8. AnswerInv'
    <3>1. ASSUME NEW q \in Requests, NEW b \in Requests, reply'[q] # None, reply'[q] = Ok(b),
                 Keyed(q[1])
          PROVE  [key |-> CallKey[q[1]], by |-> b] \in now
      <4>1. CASE q # r
        BY <2>1, <2>3, <3>1, <4>1, <1>t DEF IInv, AnswerInv, TypeOK
      <4>2. CASE q = r
        <5>1. b \in by
          BY <2>1, <3>1, <4>2, <1>t DEF TypeOK
        <5>2. PICK e \in now : e.key = key /\ e.by = b
          BY <3>1, <4>2, <5>1
        <5>3. e = [key |-> key, by |-> b]
          BY <2>3, <5>2
        <5> QED
          BY <2>2, <4>2, <5>3
      <4> QED
        BY <4>1, <4>2
    <3>2. \A c \in Calls, b \in Requests :
             pc[c] = "done" /\ outcome[c] = Ok(b) /\ Keyed(c)
             => [key |-> CallKey[c], by |-> b] \in now
      BY <2>3 DEF IInv, AnswerInv
    <3> HIDE DEF now
    <3>3. UNCHANGED <<endpoint, pc, outcome>>
      BY <2>0 DEF client
    <3> QED
      BY <2>0, <3>1, <3>2, <3>3 DEF AnswerInv, Keyed
  <2> QED
    BY <2>4, <2>5, <2>6, <2>7, <2>8 DEF IInv
<1>12. ASSUME NEW r \in Requests, Refuse(r) PROVE IInv'
  <2>0. r \in sent /\ reply[r] = None /\ UNCHANGED <<client, sent, effects>>
    BY <1>12 DEF Refuse
  <2>1. PICK a : reply' = [reply EXCEPT ![r] = a] /\ \A b : a # Ok(b)
    <3>1. PICK a \in {Refused(f) : f \in Refusals} \cup {Lost} :
                reply' = [reply EXCEPT ![r] = a]
      BY <1>12 DEF Refuse
    <3>2. \A b : a # Ok(b)
      BY <3>1 DEF Ok, Refused, Lost
    <3> QED
      BY <3>1, <3>2
  <2>2. TypeOK' /\ StoreInv' /\ AttemptsCount'
    BY <2>0, <2>1, <1>t DEF TypeOK, IInv, StoreInv, AttemptsCount, client
  <2>3. AttemptInv'
    <3> SUFFICES ASSUME NEW c \in Calls, pc[c] = "read"
                 PROVE  reply'[<<c, attempts[c]>>] # None
      BY <2>0 DEF IInv, AttemptInv, client
    <3>1. reply[<<c, attempts[c]>>] # None /\ <<c, attempts[c]>> \in Requests
      BY <1>t DEF IInv, AttemptInv, TypeOK, Requests, Attempts
    <3> QED
      BY <2>0, <2>1, <3>1, <1>t DEF TypeOK
  <2>4. AnswerInv'
    BY <2>0, <2>1, <1>t DEF IInv, AnswerInv, TypeOK, Keyed, client
  <2> QED
    BY <2>2, <2>3, <2>4 DEF IInv
<1>13. ASSUME NEW c \in Calls, Elapse(c) \/ Deadline(c) \/ Abort(c) PROVE IInv'
  BY <1>13, <1>10 DEF Elapse, Deadline, Abort, Apart
<1>14. ASSUME NEW k, Close(k) PROVE IInv'
  BY <1>14, <1>10 DEF Close, Apart
<1>15. CASE UNCHANGED vars
  BY <1>15, <1>10 DEF vars, Apart
<1> QED
  BY <1>1, <1>2, <1>3, <1>4, <1>5, <1>6, <1>7, <1>8, <1>9, <1>11, <1>12, <1>13, <1>14, <1>15
     DEF Next, CallStep

\* The store holds at most one effect of each key, and a call's answer and its
\* attempts are what they should be, in every reachable state.
THEOREM Invariance == Spec => []IInv
<1>1. IInv /\ [Next]_vars => IInv'
  BY Inductive
<1> QED
  BY Initially, <1>1, PTL DEF Spec

-----------------------------------------------------------------------------
\* However the calls made with one key are retried, given up or answered late, one
\* request's work takes effect.
THEOREM OneEffect == Spec => []OneEffectPerKey
<1>1. IInv => OneEffectPerKey
  BY DEF IInv, TypeOK, StoreInv, OneEffectPerKey, Effect
<1> QED
  BY <1>1, Invariance, PTL

\* And whoever is told of a result is told of that work.
THEOREM OneAnswer == Spec => []OneAnswerPerKey
<1>1. IInv => OneAnswerPerKey
  <2> SUFFICES ASSUME IInv, NEW c \in Calls, NEW d \in Calls,
                      NEW b \in Requests, NEW e \in Requests,
                      pc[c] = "done", outcome[c] = Ok(b), Keyed(c),
                      pc[d] = "done", outcome[d] = Ok(e), Keyed(d),
                      CallKey[c] = CallKey[d]
               PROVE  b = e
    BY DEF OneAnswerPerKey
  <2>1. /\ [key |-> CallKey[c], by |-> b] \in effects
        /\ [key |-> CallKey[c], by |-> e] \in effects
    BY DEF IInv, AnswerInv
  <2>2. [key |-> CallKey[c], by |-> b] = [key |-> CallKey[c], by |-> e]
    BY <2>1 DEF IInv, StoreInv
  <2> QED
    BY <2>2
<1> QED
  BY <1>1, Invariance, PTL

\* Two requests at most, and onRequest is told how many there were.
THEOREM TwoAttempts == Spec => []AttemptsCount
<1>1. IInv => AttemptsCount
  BY DEF IInv
<1> QED
  BY <1>1, Invariance, PTL

\* After close(), or after its own signal or deadline, a call sends nothing.
THEOREM NothingSent == Spec => NothingSentAfterTheEnd
<1> DEFINE Quiet == \A c \in Calls :
                       Signal(c) => {r \in sent' : r[1] = c} = {r \in sent : r[1] = c}
<1>1. [Next]_vars => [Quiet]_vars
  <2> SUFFICES ASSUME Next PROVE Quiet
    OBVIOUS
  <2>1. CASE sent' = sent
    BY <2>1
  <2>2. ASSUME NEW d \in Calls, Send(d) PROVE Quiet
    <3>1. CASE Signal(d)
      BY <2>2, <3>1 DEF Send
    <3>2. CASE ~Signal(d)
      <4>1. sent' = sent \cup {<<d, attempts[d] + 1>>}
        BY <2>2, <3>2 DEF Send
      <4> HIDE DEF Signal
      <4> QED
        BY <3>2, <4>1
    <3> QED
      BY <3>1, <3>2
  <2>3. Next => sent' = sent \/ \E d \in Calls : Send(d)
    BY DEF Next, CallStep, Begin, BeginNegotiation, KeyRead, Receive, Evaluate, Negotiate, Wake,
           Interrupt, Elapse, Deadline, Abort, Close, Work, Refuse
  <2> QED
    BY <2>1, <2>2, <2>3
<1> QED
  BY <1>1, PTL DEF Spec, NothingSentAfterTheEnd
=============================================================================

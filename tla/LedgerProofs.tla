----------------------------- MODULE LedgerProofs -----------------------------
(***************************************************************************)
(* Proofs about Ledger for any number of attempts, any results, lifetimes  *)
(* and interleavings.                                                      *)
(***************************************************************************)
EXTENDS Ledger, TLAPS

LEMMA TypingInit == Init => TypeOK
<1> SUFFICES ASSUME Init PROVE TypeOK
  OBVIOUS
<1>1. "idle" \in Places /\ "none" \in Codes
  BY DEF Places, BeforePermit, Codes
<1> QED
  BY <1>1 DEF Init, TypeOK

\* Every step keeps the types.
LEMMA TypingStep == TypeOK /\ [Next]_vars => TypeOK'
<1> USE LedgerAssumption
<1> SUFFICES ASSUME TypeOK, [Next]_vars
             PROVE  TypeOK'
  OBVIOUS
<1> USE DEF TypeOK, Places, BeforePermit, Claiming, Owning, Codes, GoTo, Answer,
            Stored, Beliefs
<1>1. ASSUME NEW a \in Attempts, Start(a)
      PROVE  TypeOK'
  BY <1>1 DEF Start
<1>2. ASSUME NEW a \in Attempts, Enter(a)
      PROVE  TypeOK'
  BY <1>2 DEF Enter
<1>3. ASSUME NEW a \in Attempts, Replay(a)
      PROVE  TypeOK'
  BY <1>3 DEF Replay, Row, RowRefusal
<1>4. CASE Issue
  BY <1>4 DEF Issue
<1>5. ASSUME NEW a \in Attempts, Obtain(a)
      PROVE  TypeOK'
  BY <1>5 DEF Obtain
<1>6. ASSUME NEW a \in Attempts, Put(a)
      PROVE  TypeOK'
  BY <1>6 DEF Put
<1>7. ASSUME NEW a \in Attempts, Fresh(a)
      PROVE  TypeOK'
  BY <1>7 DEF Fresh
<1>8. ASSUME NEW a \in Attempts, Permit(a)
      PROVE  TypeOK'
  BY <1>8 DEF Permit
<1>9. ASSUME NEW a \in Attempts, Claim(a)
      PROVE  TypeOK'
  BY <1>9 DEF Claim, Row, RowStates
<1>10. ASSUME NEW a \in Attempts, ClaimTaken(a)
      PROVE  TypeOK'
  BY <1>10 DEF ClaimTaken, Claimable, Row, RowRefusal
<1>11. ASSUME NEW a \in Attempts, Repermit(a)
      PROVE  TypeOK'
  BY <1>11 DEF Repermit
<1>12. ASSUME NEW a \in Attempts, CheckClaimed(a)
      PROVE  TypeOK'
  BY <1>12 DEF CheckClaimed
<1>13. ASSUME NEW a \in Attempts, Withdraw(a)
      PROVE  TypeOK'
  BY <1>13 DEF Withdraw, Rewrite, Row, RowStates
<1>14. ASSUME NEW a \in Attempts, Dispatch(a)
      PROVE  TypeOK'
  BY <1>14 DEF Dispatch, Rewrite, Row, RowStates
<1>15. ASSUME NEW a \in Attempts, Invoke(a)
      PROVE  TypeOK'
  BY <1>15 DEF Invoke
<1>16. ASSUME NEW a \in Attempts, Return(a)
      PROVE  TypeOK'
  BY <1>16 DEF Return
<1>17. ASSUME NEW a \in Attempts, Record(a)
      PROVE  TypeOK'
  BY <1>17 DEF Record, Rewrite, Row, RowStates, FinalState
<1>18. ASSUME NEW a \in Attempts, GiveUp(a)
      PROVE  TypeOK'
  BY <1>18 DEF GiveUp, Rewrite, Row, RowStates
<1>19. ASSUME NEW a \in Attempts, CallFails(a)
      PROVE  TypeOK'
  BY <1>19 DEF CallFails
<1>20. ASSUME NEW a \in Attempts, Crash(a)
      PROVE  TypeOK'
  BY <1>20 DEF Crash
<1>21. CASE Revoke
  BY <1>21 DEF Revoke
<1>22. CASE Tick
  BY <1>22 DEF Tick
<1>23. CASE UNCHANGED vars
  BY <1>23 DEF vars
<1> QED
  BY <1>1, <1>2, <1>3, <1>4, <1>5, <1>6, <1>7, <1>8, <1>9, <1>10, <1>11, <1>12, <1>13, <1>14, <1>15, <1>16, <1>17, <1>18, <1>19, <1>20, <1>21, <1>22, <1>23 DEF Next, Proceed

LEMMA Initially == Init => IInv
  BY TypingInit, LedgerAssumption
  DEF Init, IInv, OwnerInv, ResultInv, AnswerInv, StandingInv, AtMostOneRun,
      LedgerIsHonest, CallersAreWarned, AnswersAreTheRuns, RevocationHolds,
      Owning, Claiming, BeforePermit

\* Every step keeps the invariant.
LEMMA Inductive == IInv /\ [Next]_vars => IInv'
<1> USE LedgerAssumption
<1> SUFFICES ASSUME IInv, [Next]_vars
             PROVE  IInv'
  OBVIOUS
<1> TypeOK /\ TypeOK'
  BY TypingStep DEF IInv
<1> USE DEF TypeOK, IInv, OwnerInv, ResultInv, AnswerInv, StandingInv, AtMostOneRun,
            LedgerIsHonest, CallersAreWarned, AnswersAreTheRuns, RevocationHolds,
            BeforePermit, Claiming, Owning, GoTo, Answer, Stored, Beliefs
<1>1. ASSUME NEW a \in Attempts, Start(a)
      PROVE  IInv'
  BY <1>1 DEF Start
<1>2. ASSUME NEW a \in Attempts, Enter(a)
      PROVE  IInv'
  BY <1>2 DEF Enter
<1>3. ASSUME NEW a \in Attempts, Replay(a)
      PROVE  IInv'
  <2>0. /\ pc[a] = "replay"
        /\ \/ /\ pc' = [pc EXCEPT ![a] = "decide"] /\ code' = code
              /\ held' = held
           \/ /\ row # None /\ row.result # None
              /\ pc' = [pc EXCEPT ![a] = "done"]
              /\ code' = [code EXCEPT ![a] = "result"]
              /\ held' = [held EXCEPT ![a] = row.result]
           \/ /\ pc' = [pc EXCEPT ![a] = "done"] /\ held' = held
              /\ \E c \in Codes \ {"result"} : code' = [code EXCEPT ![a] = c]
        /\ UNCHANGED <<clock, notAfter, revoked, standing, issued, row, runs>>
    BY <1>3 DEF Replay, Kept, RowRefusal
  <2>a. runs[a] = 0 /\ (row # None => row.fence # a)
    BY <2>0
  <2>1. OwnerInv'
    BY <2>0
  <2>2. ResultInv'
    <3>1. row # None => row.fence \in Attempts /\ held'[row.fence] = held[row.fence]
      BY <2>0, <2>a DEF Row
    <3> QED
      BY <2>0, <2>a, <3>1
  <2>3. AnswerInv'
    BY <2>0
  <2>4. StandingInv'
    BY <2>0
  <2>5. AtMostOneRun'
    BY <2>0
  <2>6. LedgerIsHonest'
    BY <2>0
  <2>7. CallersAreWarned'
    BY <2>0
  <2>8. AnswersAreTheRuns'
    <3> SUFFICES ASSUME NEW c \in Attempts, code'[c] = "result"
                 PROVE  /\ row # None /\ row.result = held'[c]
                        /\ \E b \in Attempts : runs[b] > 0 /\ held'[b] = held'[c]
      BY <2>0
    <3>1. CASE c # a
      <4>1. code[c] = "result" /\ held'[c] = held[c]
        BY <2>0, <3>1
      <4>2. PICK b \in Attempts : runs[b] > 0 /\ held[b] = held[c]
        BY <4>1
      <4>3. held'[b] = held[b]
        BY <2>0, <2>a, <4>2
      <4> QED
        BY <4>1, <4>2, <4>3
    <3>2. CASE c = a
      <4>1. row # None /\ row.result # None /\ held'[a] = row.result
        BY <2>0, <3>2
      <4>2. /\ row.fence \in Attempts /\ row.fence # a /\ runs[row.fence] > 0
            /\ held[row.fence] = row.result
        BY <2>a, <4>1 DEF Row
      <4>3. held'[row.fence] = row.result
        BY <2>0, <4>2
      <4> QED
        BY <3>2, <4>1, <4>2, <4>3
    <3> QED
      BY <3>1, <3>2
  <2>9. RevocationHolds'
    BY <2>0
  <2> QED
    BY <2>1, <2>2, <2>3, <2>4, <2>5, <2>6, <2>7, <2>8, <2>9
<1>4. CASE Issue
  BY <1>4 DEF Issue
<1>5. ASSUME NEW a \in Attempts, Obtain(a)
      PROVE  IInv'
  BY <1>5 DEF Obtain
<1>6. ASSUME NEW a \in Attempts, Put(a)
      PROVE  IInv'
  BY <1>6 DEF Put
<1>7. ASSUME NEW a \in Attempts, Fresh(a)
      PROVE  IInv'
  BY <1>7 DEF Fresh
<1>8. ASSUME NEW a \in Attempts, Permit(a)
      PROVE  IInv'
  BY <1>8 DEF Permit
<1>9. ASSUME NEW a \in Attempts, Claim(a)
      PROVE  IInv'
  <2>0. /\ pc[a] = "claim" /\ row = None
        /\ row' # None /\ row'.fence = a /\ row'.state = "claimed"
        /\ row'.result = None
        /\ \/ pc' = [pc EXCEPT ![a] = "claimed"] /\ code' = code
           \/ pc' = [pc EXCEPT ![a] = "done"] /\ code' = [code EXCEPT ![a] = "ERROR"]
        /\ UNCHANGED <<clock, notAfter, revoked, standing, issued, held, runs>>
    BY <1>9 DEF Claim, Claimable, Row, RowStates
  <2>1. OwnerInv'
    BY <2>0
  <2>2. ResultInv'
    BY <2>0
  <2>3. AnswerInv'
    BY <2>0
  <2>4. StandingInv'
    BY <2>0
  <2>5. AtMostOneRun'
    BY <2>0
  <2>6. LedgerIsHonest'
    BY <2>0
  <2>7. CallersAreWarned'
    BY <2>0
  <2>8. AnswersAreTheRuns'
    BY <2>0
  <2>9. RevocationHolds'
    BY <2>0
  <2> QED
    BY <2>1, <2>2, <2>3, <2>4, <2>5, <2>6, <2>7, <2>8, <2>9
<1>10. ASSUME NEW a \in Attempts, ClaimTaken(a)
      PROVE  IInv'
  <2>0. /\ pc[a] = "claim"
        /\ \/ /\ row # None /\ row.result # None
              /\ pc' = [pc EXCEPT ![a] = "repermit"] /\ code' = code
              /\ held' = [held EXCEPT ![a] = row.result]
           \/ /\ pc' = [pc EXCEPT ![a] = "done"] /\ held' = held
              /\ \E c \in Codes \ {"result"} : code' = [code EXCEPT ![a] = c]
        /\ UNCHANGED <<clock, notAfter, revoked, standing, issued, row, runs>>
    BY <1>10 DEF ClaimTaken, Kept, RowRefusal, Claimable
  <2>a. runs[a] = 0 /\ (row # None => row.fence # a)
    BY <2>0
  <2>1. OwnerInv'
    BY <2>0
  <2>2. ResultInv'
    <3>1. row # None => row.fence \in Attempts /\ held'[row.fence] = held[row.fence]
      BY <2>0, <2>a DEF Row
    <3> QED
      BY <2>0, <2>a, <3>1
  <2>3. AnswerInv'
    BY <2>0
  <2>4. StandingInv'
    BY <2>0
  <2>5. AtMostOneRun'
    BY <2>0
  <2>6. LedgerIsHonest'
    BY <2>0
  <2>7. CallersAreWarned'
    BY <2>0
  <2>8. AnswersAreTheRuns'
    <3> SUFFICES ASSUME NEW c \in Attempts, code'[c] = "result"
                 PROVE  /\ row # None /\ row.result = held'[c]
                        /\ \E b \in Attempts : runs[b] > 0 /\ held'[b] = held'[c]
      BY <2>0
    <3>1. CASE c # a
      <4>1. code[c] = "result" /\ held'[c] = held[c]
        BY <2>0, <3>1
      <4>2. PICK b \in Attempts : runs[b] > 0 /\ held[b] = held[c]
        BY <4>1
      <4>3. held'[b] = held[b]
        BY <2>0, <2>a, <4>2
      <4> QED
        BY <4>1, <4>2, <4>3
    <3>2. CASE c = a
      <4>1. row # None /\ row.result # None /\ held'[a] = row.result
        BY <2>0, <3>2
      <4>2. /\ row.fence \in Attempts /\ row.fence # a /\ runs[row.fence] > 0
            /\ held[row.fence] = row.result
        BY <2>a, <4>1 DEF Row
      <4>3. held'[row.fence] = row.result
        BY <2>0, <4>2
      <4> QED
        BY <3>2, <4>1, <4>2, <4>3
    <3> QED
      BY <3>1, <3>2
  <2>9. RevocationHolds'
    BY <2>0
  <2> QED
    BY <2>1, <2>2, <2>3, <2>4, <2>5, <2>6, <2>7, <2>8, <2>9
<1>11. ASSUME NEW a \in Attempts, Repermit(a)
      PROVE  IInv'
  <2>0. /\ pc[a] = "repermit"
        /\ pc' = [pc EXCEPT ![a] = "done"] /\ held' = held
        /\ \/ ~ revoked /\ code' = [code EXCEPT ![a] = "result"]
           \/ code' = [code EXCEPT ![a] = "TOOL_NOT_ALLOWED"]
        /\ UNCHANGED <<clock, notAfter, revoked, standing, issued, row, runs>>
    BY <1>11 DEF Repermit
  <2>1. OwnerInv'
    BY <2>0
  <2>2. ResultInv'
    BY <2>0
  <2>3. AnswerInv'
    BY <2>0
  <2>4. StandingInv'
    BY <2>0
  <2>5. AtMostOneRun'
    BY <2>0
  <2>6. LedgerIsHonest'
    BY <2>0
  <2>7. CallersAreWarned'
    BY <2>0
  <2>8. AnswersAreTheRuns'
    <3>1. /\ row # None /\ row.result = held[a]
          /\ row.fence \in Attempts /\ runs[row.fence] > 0
          /\ held[row.fence] = held[a]
      BY <2>0 DEF Row
    <3>2. \A c \in Attempts : code'[c] = "result" => c = a \/ code[c] = "result"
      BY <2>0
    <3> QED
      BY <2>0, <3>1, <3>2
  <2>9. RevocationHolds'
    BY <2>0
  <2> QED
    BY <2>1, <2>2, <2>3, <2>4, <2>5, <2>6, <2>7, <2>8, <2>9
<1>12. ASSUME NEW a \in Attempts, CheckClaimed(a)
      PROVE  IInv'
  BY <1>12 DEF CheckClaimed
<1>13. ASSUME NEW a \in Attempts, Withdraw(a)
      PROVE  IInv'
  BY <1>13 DEF Withdraw, Rewrite
<1>14. ASSUME NEW a \in Attempts, Dispatch(a)
      PROVE  IInv'
  <2>0. /\ pc[a] = "dispatch" /\ row # None /\ row.fence = a
        /\ row.state = "claimed"
        /\ row' # None /\ row'.fence = a /\ row'.state = "dispatching"
        /\ row'.result = None
        /\ \/ pc' = [pc EXCEPT ![a] = "handler"] /\ code' = code
           \/ pc' = [pc EXCEPT ![a] = "done"] /\ code' = [code EXCEPT ![a] = "ERROR"]
        /\ UNCHANGED <<clock, notAfter, revoked, standing, issued, held, runs>>
    BY <1>14 DEF Dispatch, Rewrite, Row, RowStates
  <2>1. OwnerInv'
    BY <2>0
  <2>2. ResultInv'
    BY <2>0
  <2>3. AnswerInv'
    BY <2>0
  <2>4. StandingInv'
    BY <2>0
  <2>5. AtMostOneRun'
    BY <2>0
  <2>6. LedgerIsHonest'
    BY <2>0
  <2>7. CallersAreWarned'
    BY <2>0
  <2>8. AnswersAreTheRuns'
    BY <2>0
  <2>9. RevocationHolds'
    BY <2>0
  <2> QED
    BY <2>1, <2>2, <2>3, <2>4, <2>5, <2>6, <2>7, <2>8, <2>9
<1>15. ASSUME NEW a \in Attempts, Invoke(a)
      PROVE  IInv'
  BY <1>15 DEF Invoke
<1>16. ASSUME NEW a \in Attempts, Return(a)
      PROVE  IInv'
  BY <1>16 DEF Return
<1>17. ASSUME NEW a \in Attempts, Record(a)
      PROVE  IInv'
  <2>0. /\ pc[a] = "record" /\ row # None /\ row.fence = a
        /\ row.state = "dispatching"
        /\ row' # None /\ row'.fence = a /\ row'.state \in {"succeeded", "failed_after_dispatch"}
        /\ row'.result = held[a]
        /\ /\ pc' = [pc EXCEPT ![a] = "done"]
           /\ \/ code' = [code EXCEPT ![a] = "result"]
              \/ code' = [code EXCEPT ![a] = "EXECUTION_UNKNOWN"]
        /\ UNCHANGED <<clock, notAfter, revoked, standing, issued, held, runs>>
    BY <1>17 DEF Record, Rewrite, FinalState, Row, RowStates
  <2>1. OwnerInv'
    BY <2>0
  <2>2. ResultInv'
    BY <2>0
  <2>3. AnswerInv'
    BY <2>0
  <2>4. StandingInv'
    BY <2>0
  <2>5. AtMostOneRun'
    BY <2>0
  <2>6. LedgerIsHonest'
    BY <2>0
  <2>7. CallersAreWarned'
    BY <2>0
  <2>8. AnswersAreTheRuns'
    BY <2>0
  <2>9. RevocationHolds'
    BY <2>0
  <2> QED
    BY <2>1, <2>2, <2>3, <2>4, <2>5, <2>6, <2>7, <2>8, <2>9
<1>18. ASSUME NEW a \in Attempts, GiveUp(a)
      PROVE  IInv'
  <2>0. /\ pc[a] = "giveup" /\ row # None /\ row.fence = a
        /\ row.state = "dispatching"
        /\ row' # None /\ row'.fence = a /\ row'.state = "unknown"
        /\ row'.result = None
        /\ /\ pc' = [pc EXCEPT ![a] = "done"]
           /\ code' = [code EXCEPT ![a] = "EXECUTION_UNKNOWN"]
        /\ UNCHANGED <<clock, notAfter, revoked, standing, issued, held, runs>>
    BY <1>18 DEF GiveUp, Rewrite, Row, RowStates
  <2>1. OwnerInv'
    BY <2>0
  <2>2. ResultInv'
    BY <2>0
  <2>3. AnswerInv'
    BY <2>0
  <2>4. StandingInv'
    BY <2>0
  <2>5. AtMostOneRun'
    BY <2>0
  <2>6. LedgerIsHonest'
    BY <2>0
  <2>7. CallersAreWarned'
    BY <2>0
  <2>8. AnswersAreTheRuns'
    BY <2>0
  <2>9. RevocationHolds'
    BY <2>0
  <2> QED
    BY <2>1, <2>2, <2>3, <2>4, <2>5, <2>6, <2>7, <2>8, <2>9
<1>19. ASSUME NEW a \in Attempts, CallFails(a)
      PROVE  IInv'
  BY <1>19 DEF CallFails
<1>20. ASSUME NEW a \in Attempts, Crash(a)
      PROVE  IInv'
  BY <1>20 DEF Crash
<1>21. CASE Revoke
  BY <1>21 DEF Revoke
<1>22. CASE Tick
  BY <1>22 DEF Tick
<1>23. CASE UNCHANGED vars
  BY <1>23 DEF vars
<1> QED
  BY <1>1, <1>2, <1>3, <1>4, <1>5, <1>6, <1>7, <1>8, <1>9, <1>10, <1>11, <1>12, <1>13, <1>14, <1>15, <1>16, <1>17, <1>18, <1>19, <1>20, <1>21, <1>22, <1>23 DEF Next, Proceed

\* The inductive invariant holds in every reachable state.
THEOREM Invariance == Spec => []IInv
  BY Initially, Inductive, PTL DEF Spec

\* The row, the attempts and what they hold keep their types.
THEOREM Typing == Spec => []TypeOK
  BY Invariance, PTL DEF IInv

\* No decision is executed twice (provider.ts 546-574, store.ts 141-169).
THEOREM RunsOnce == Spec => []AtMostOneRun
  BY Invariance, PTL DEF IInv

\* The row of a run is never claimed or failed_before_dispatch
\* (store.ts 170-188).
THEOREM LedgerStaysHonest == Spec => []LedgerIsHonest
  BY Invariance, PTL DEF IInv

\* A caller whose attempt ran gets the result or EXECUTION_UNKNOWN
\* (provider.ts 589-607).
THEOREM CallersAreAlwaysWarned == Spec => []CallersAreWarned
  BY Invariance, PTL DEF IInv

\* Every result given out is the run's, and durable (store.ts 104-140).
THEOREM AnswersAreAlwaysTheRuns == Spec => []AnswersAreTheRuns
  BY Invariance, PTL DEF IInv

\* A permission lost before the decision arrived stops the run and the
\* replay (provider.ts 541-551).
THEOREM RevocationAlwaysHolds == Spec => []RevocationHolds
  BY Invariance, PTL DEF IInv

-----------------------------------------------------------------------------
\* No step changes a terminal row: only its fence rewrites a row, and the
\* fence's attempt has ended.
LEMMA FinalStep ==
    IInv /\ [Next]_vars
    => [row # None /\ row.state \in Terminal => row' = row]_vars
<1> SUFFICES ASSUME IInv, [Next]_vars, row # None, row.state \in Terminal
             PROVE  row' = row
  OBVIOUS
<1>1. ASSUME NEW a \in Attempts, Withdraw(a) \/ Dispatch(a) \/ Record(a) \/ GiveUp(a)
      PROVE  FALSE
  BY <1>1 DEF Withdraw, Dispatch, Record, GiveUp, Rewrite, Terminal
<1> QED
  BY <1>1
  DEF Next, Proceed, vars, Start, Enter, Replay, Issue, Obtain, Put, Fresh,
      Permit, Claim, Claimable, ClaimTaken, Repermit, CheckClaimed, Invoke,
      Return, CallFails, Crash, Revoke, Tick

\* A terminal row is final (store.ts 189-215).
THEOREM RowsAreFinal == Spec => RowIsFinal
  BY Invariance, FinalStep, PTL DEF Spec, RowIsFinal

-----------------------------------------------------------------------------
LEMMA OnceInitially == Init => Abstract!OnceInit
  BY DEF Init, Abstract!OnceInit, Ran, Result, Told

\* Callers know the same results when nobody is told one or changes one told.
LEMMA ToldStutter ==
    ASSUME \A a \in Attempts : /\ code'[a] = "result" <=> code[a] = "result"
                               /\ code[a] = "result" => held'[a] = held[a]
    PROVE  Told' = Told
  BY DEF Told

\* A caller is told a result.
LEMMA ToldStep ==
    ASSUME TypeOK, NEW a \in Attempts, NEW v,
           code' = [code EXCEPT ![a] = "result"],
           held' = [held EXCEPT ![a] = v]
    PROVE  Told' = [Told EXCEPT ![a] = v]
<1>1. \A b \in Attempts : Told'[b] = IF b = a THEN v ELSE Told[b]
  BY DEF Told, TypeOK
<1> QED
  BY <1>1 DEF Told

\* Every step of the attempts is a step of the abstract handler or stutters.
LEMMA OnceStep == IInv /\ IInv' /\ [Next]_vars
                  => [Abstract!OnceNext]_(Abstract!onceVars)
<1> USE LedgerAssumption
<1> SUFFICES ASSUME IInv, IInv', [Next]_vars
             PROVE  Abstract!OnceNext \/ UNCHANGED <<Ran, Result, Told>>
  BY DEF Abstract!onceVars
<1>t. TypeOK /\ TypeOK'
  BY DEF IInv
<1>1. CASE UNCHANGED <<row, code, held, runs>>
  BY <1>1 DEF Ran, Result, Told
<1>2. ASSUME NEW a \in Attempts, Replay(a)
      PROVE  Abstract!OnceNext \/ UNCHANGED <<Ran, Result, Told>>
  <2>1. UNCHANGED <<row, runs>> /\ pc[a] = "replay" /\ code[a] = "none"
    BY <1>2 DEF Replay, IInv, AnswerInv
  <2>2. CASE code' = [code EXCEPT ![a] = "result"]
    <3>a. code'[a] = "result" /\ RowRefusal # "result"
      BY <1>t, <2>2 DEF RowRefusal, TypeOK
    <3>b. code' # code /\ code' # [code EXCEPT ![a] = RowRefusal]
      BY <1>t, <2>1, <3>a DEF TypeOK
    <3>1. /\ row # None /\ row.result # None
          /\ held' = [held EXCEPT ![a] = row.result]
      BY <1>2, <3>b DEF Replay, Kept, Answer, GoTo
    <3>2. Told' = [Told EXCEPT ![a] = row.result]
      BY <1>t, <2>2, <3>1, ToldStep
    <3>3. Abstract!Tell(a)
      BY <2>1, <3>1, <3>2 DEF Abstract!Tell, Ran, Result, Told
    <3> QED
      BY <3>3 DEF Abstract!OnceNext
  <2>3. CASE ~ code' = [code EXCEPT ![a] = "result"]
    <3>1. held' = held /\ \A b \in Attempts : code'[b] = "result" <=> code[b] = "result"
      BY <1>2, <1>t, <2>1, <2>3
      DEF Replay, Kept, RowRefusal, Answer, GoTo, TypeOK
    <3> QED
      BY <2>1, <3>1, ToldStutter DEF Ran, Result
  <2> QED
    BY <2>2, <2>3
<1>3. ASSUME NEW a \in Attempts, Repermit(a)
      PROVE  Abstract!OnceNext \/ UNCHANGED <<Ran, Result, Told>>
  <2>1. /\ UNCHANGED <<row, runs, held>>
        /\ code[a] = "none"
        /\ row # None /\ row.result # None /\ held[a] = row.result
    BY <1>3 DEF Repermit, IInv, AnswerInv, ResultInv
  <2>2. CASE code' = [code EXCEPT ![a] = "result"]
    <3>1. held' = [held EXCEPT ![a] = row.result]
      BY <1>t, <2>1 DEF TypeOK
    <3>2. Told' = [Told EXCEPT ![a] = row.result]
      BY <1>t, <2>2, <3>1, ToldStep
    <3>3. Abstract!Tell(a)
      BY <2>1, <3>2 DEF Abstract!Tell, Ran, Result, Told
    <3> QED
      BY <3>3 DEF Abstract!OnceNext
  <2>3. CASE code' = [code EXCEPT ![a] = "TOOL_NOT_ALLOWED"]
    <3>1. \A b \in Attempts : code'[b] = "result" <=> code[b] = "result"
      BY <1>t, <2>1, <2>3 DEF TypeOK
    <3> QED
      BY <2>1, <3>1, ToldStutter DEF Ran, Result
  <2> QED
    BY <1>3, <2>2, <2>3 DEF Repermit, Answer
<1>4. ASSUME NEW a \in Attempts, Claim(a)
      PROVE  UNCHANGED <<Ran, Result, Told>>
  <2>1. /\ row = None /\ row'.result = None
        /\ UNCHANGED <<held, runs>>
        /\ code' = code \/ code' = [code EXCEPT ![a] = "ERROR"]
        /\ code[a] = "none"
    BY <1>4 DEF Claim, Claimable, Stored, GoTo, Answer, IInv, AnswerInv
  <2>2. \A b \in Attempts : code'[b] = "result" <=> code[b] = "result"
    BY <1>t, <2>1 DEF TypeOK
  <2> QED
    BY <2>1, <2>2, ToldStutter DEF Ran, Result
<1>5. ASSUME NEW a \in Attempts, Withdraw(a) \/ Dispatch(a) \/ GiveUp(a)
      PROVE  UNCHANGED <<Ran, Result, Told>>
  <2>1. /\ row # None /\ row.state \in {"claimed", "dispatching"}
        /\ row'.result = None
        /\ UNCHANGED <<held, runs>>
        /\ \/ code' = code
           \/ code' = [code EXCEPT ![a] = "ERROR"]
           \/ code' = [code EXCEPT ![a] = "DECISION_EXPIRED"]
           \/ code' = [code EXCEPT ![a] = "EXECUTION_UNKNOWN"]
        /\ code[a] = "none"
    BY <1>5 DEF Withdraw, Dispatch, GiveUp, Rewrite, Stored, GoTo, Answer, IInv,
                AnswerInv
  <2>2. \A b \in Attempts : code'[b] = "result" <=> code[b] = "result"
    BY <1>t, <2>1 DEF TypeOK
  <2>3. row.result = None
    BY <2>1 DEF IInv, ResultInv
  <2> QED
    BY <2>1, <2>2, <2>3, ToldStutter DEF Ran, Result
<1>6. ASSUME NEW a \in Attempts, Record(a)
      PROVE  Abstract!OnceNext
  <2>1. /\ row # None /\ row.result = None
        /\ held[a] \in Results /\ runs[a] > 0
        /\ row' # None /\ row'.result = held[a]
        /\ UNCHANGED <<held, runs>>
        /\ \/ code' = [code EXCEPT ![a] = "result"]
           \/ code' = [code EXCEPT ![a] = "EXECUTION_UNKNOWN"]
        /\ code[a] = "none"
    <3>1. row.state = "dispatching" /\ runs[a] = 1 /\ held[a] \in Results
      BY <1>6, <1>t DEF Record, IInv, OwnerInv, TypeOK
    <3>2. row # None /\ row.result = None
      BY <1>6, <3>1 DEF Record, Rewrite, IInv, ResultInv
    <3>3. row' # None
      BY <1>6, <1>t, <3>1, <3>2
      DEF Record, Rewrite, FinalState, Row, RowStates, TypeOK
    <3> QED
      BY <1>6, <3>1, <3>2, <3>3 DEF Record, Rewrite, Answer, IInv, AnswerInv
  <2>2. Told' = Told \/ Told' = [Told EXCEPT ![a] = held[a]]
    <3>1. CASE code' = [code EXCEPT ![a] = "result"]
      <4>1. held' = [held EXCEPT ![a] = held[a]]
        BY <1>t, <2>1 DEF TypeOK
      <4> QED
        BY <1>t, <3>1, <4>1, ToldStep
    <3>2. CASE code' = [code EXCEPT ![a] = "EXECUTION_UNKNOWN"]
      <4>1. \A b \in Attempts : code'[b] = "result" <=> code[b] = "result"
        BY <1>t, <2>1, <3>2 DEF TypeOK
      <4> QED
        BY <2>1, <4>1, ToldStutter
    <3> QED
      BY <2>1, <3>1, <3>2
  <2>3. Abstract!Keep(a, held[a])
    BY <2>1, <2>2 DEF Abstract!Keep, Ran, Result
  <2> QED
    BY <2>1, <2>3 DEF Abstract!OnceNext
<1>7. ASSUME NEW a \in Attempts, Invoke(a)
      PROVE  Abstract!OnceNext
  <2>1. /\ UNCHANGED <<row, held, code>>
        /\ runs[a] = 0 /\ runs'[a] = 1
        /\ row # None /\ row.fence = a
    BY <1>7, <1>t DEF Invoke, GoTo, IInv, OwnerInv, Owning, TypeOK
  <2>2. ~ Ran /\ Ran'
    BY <2>1 DEF Ran, IInv, LedgerIsHonest
  <2>3. UNCHANGED <<Result, Told>>
    BY <2>1 DEF Result, Told
  <2> QED
    BY <2>2, <2>3 DEF Abstract!Run, Abstract!OnceNext
<1>8. ASSUME NEW a \in Attempts, Return(a) \/ ClaimTaken(a)
      PROVE  UNCHANGED <<Ran, Result, Told>>
  <2>1. /\ UNCHANGED <<row, runs>>
        /\ code[a] = "none"
        /\ held' = held \/ \E v : held' = [held EXCEPT ![a] = v]
        /\ \/ code' = code
           \/ \E c \in Codes \ {"result"} : code' = [code EXCEPT ![a] = c]
    BY <1>8 DEF Return, ClaimTaken, RowRefusal, Kept, GoTo, Answer, Codes, IInv,
                AnswerInv
  <2>2. \A b \in Attempts : /\ code'[b] = "result" <=> code[b] = "result"
                            /\ code[b] = "result" => held'[b] = held[b]
    BY <1>t, <2>1 DEF TypeOK
  <2> QED
    BY <2>1, <2>2, ToldStutter DEF Ran, Result
<1>9. ASSUME NEW a \in Attempts, UNCHANGED <<row, held, runs>>, pc[a] # "done",
             code' = code \/ \E c \in Codes \ {"result"} :
                               code' = [code EXCEPT ![a] = c]
      PROVE  UNCHANGED <<Ran, Result, Told>>
  <2>1. \A b \in Attempts : code'[b] = "result" <=> code[b] = "result"
    BY <1>t, <1>9 DEF TypeOK, IInv, AnswerInv
  <2> QED
    BY <1>9, <2>1, ToldStutter DEF Ran, Result
<1>10. ASSUME NEW a \in Attempts,
              \/ Start(a) \/ Enter(a) \/ Obtain(a) \/ Put(a)
              \/ Fresh(a) \/ Permit(a) \/ CheckClaimed(a) \/ CallFails(a)
              \/ Crash(a)
       PROVE  UNCHANGED <<Ran, Result, Told>>
  <2>1. /\ UNCHANGED <<row, held, runs>> /\ pc[a] # "done"
        /\ \/ code' = code
           \/ code' = [code EXCEPT ![a] = "TOOL_NOT_ALLOWED"]
           \/ code' = [code EXCEPT ![a] = "ERROR"]
           \/ code' = [code EXCEPT ![a] = "EXECUTION_UNKNOWN"]
    BY <1>10
    DEF Start, Enter, Obtain, Put, Fresh, Permit, CheckClaimed, CallFails,
        Crash, Stored, GoTo, Answer
  <2> QED
    BY <1>9, <2>1 DEF Codes
<1>11. CASE Issue \/ Revoke \/ Tick \/ UNCHANGED vars
  BY <1>1, <1>11 DEF Issue, Revoke, Tick, vars
<1> QED
  BY <1>2, <1>3, <1>4, <1>5, <1>6, <1>7, <1>8, <1>10, <1>11 DEF Next, Proceed

\* The attempts implement a handler that runs at most once, whose result is
\* what every caller is told.
THEOREM Implements == Spec => ImplementsAtMostOnce
  BY OnceInitially, OnceStep, Invariance, PTL
  DEF Spec, ImplementsAtMostOnce, Abstract!OnceSpec
=============================================================================

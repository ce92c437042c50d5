-------------------------------- MODULE Ledger --------------------------------
(***************************************************************************)
(* The provider side of one decided operation: the attempts to execute it  *)
(* (provider.ts execute) and its row in sdk.executions (store.ts replay,   *)
(* claim, dispatch, terminal).                                             *)
(*                                                                         *)
(* An attempt is one call of executeRead or executeWrite with arguments    *)
(* that validate, in any provider process; attempts interleave at every    *)
(* await.  A store call is one transaction that takes effect, fails        *)
(* without effect, or takes effect while its COMMIT is reported as failed. *)
(* Rows are never deleted, their fence never changes and all attempts      *)
(* carry the one decision of the operation, so STORE_UNAVAILABLE and       *)
(* EXECUTION_CONFLICT cannot arise and the UPDATEs always find their row.  *)
(***************************************************************************)
EXTENDS Naturals

CONSTANTS Attempts,     \* calls of execute(); also the fence each one draws
          Results,      \* valid MCP results of the handler
          ErrorResults, \* those of them with isError
          DecisionLife, \* longest validity of a decision (60 s)
          ResultLife,   \* how long a result can be replayed (24 h)
          MaxClock,     \* bound on time, for TLC
          None

RowStates == {"claimed", "dispatching", "succeeded", "failed_before_dispatch",
              "failed_after_dispatch", "unknown"}
Terminal == RowStates \ {"claimed", "dispatching"}

\* A row of sdk.executions.
Row == [state: RowStates, fence: Attempts, result: Results \cup {None},
        expires: Nat]

ASSUME LedgerAssumption ==
    /\ ErrorResults \subseteq Results
    /\ DecisionLife \in Nat
    /\ ResultLife \in Nat
    /\ MaxClock \in Nat
    /\ None \notin Results
    /\ None \notin Row
    /\ None \notin Nat

VARIABLES clock,     \* shared by providers, database and core
          notAfter,  \* not_after of the decision, None until the core issues it
          issued,    \* does the stored snapshot carry the decision?
          row,       \* the row of the execution key
          revoked,   \* authorize() or approve() would now refuse
          pc,        \* the await each attempt is at
          held,      \* the result an attempt has in hand
          code,      \* what each caller was told
          runs,      \* how often each attempt entered the handler (ghost)
          standing   \* how far each attempt was at the revocation (ghost)

vars == <<clock, notAfter, issued, row, revoked, pc, held, code, runs, standing>>

\* Before the claim, in the order of execute(); "reenter" read a snapshot that
\* has the decision.
BeforePermit == {"idle", "enter", "reenter", "replay", "decide", "put", "fresh",
                 "permit"}
Claiming == {"claim", "repermit"}
Owning == {"claimed", "withdraw", "dispatch", "handler", "running", "record",
           "giveup"}
Places == BeforePermit \cup Claiming \cup Owning \cup {"done", "crashed"}

Codes == {"none", "result", "TOOL_NOT_ALLOWED", "DECISION_EXPIRED",
          "EXECUTION_IN_PROGRESS", "EXECUTION_UNKNOWN", "RESULT_UNAVAILABLE",
          "ERROR"}

TypeOK ==
    /\ clock \in Nat
    /\ notAfter \in Nat \cup {None}
    /\ issued \in BOOLEAN
    /\ row \in Row \cup {None}
    /\ revoked \in BOOLEAN
    /\ pc \in [Attempts -> Places]
    /\ held \in [Attempts -> Results \cup {None}]
    /\ code \in [Attempts -> Codes]
    /\ runs \in [Attempts -> Nat]
    /\ standing \in [Attempts -> {"early", "claiming", "late"}]

Init ==
    /\ clock = 0
    /\ notAfter = None
    /\ issued = FALSE
    /\ row = None
    /\ revoked = FALSE
    /\ pc = [a \in Attempts |-> "idle"]
    /\ held = [a \in Attempts |-> None]
    /\ code = [a \in Attempts |-> "none"]
    /\ runs = [a \in Attempts |-> 0]
    /\ standing = [a \in Attempts |-> "late"]

-----------------------------------------------------------------------------
GoTo(a, place) == /\ pc' = [pc EXCEPT ![a] = place]
                  /\ UNCHANGED code

Answer(a, what) == /\ pc' = [pc EXCEPT ![a] = "done"]
                   /\ code' = [code EXCEPT ![a] = what]

\* A store call has taken effect: the attempt goes on, or sees it fail.
Stored(a, place) == GoTo(a, place) \/ Answer(a, "ERROR")

\* What most steps leave alone.
Beliefs == <<clock, notAfter, revoked, standing>>

\* Seeded faults: an existing row is replayed whatever its state.
KeptWhatever == clock < row.expires

\* check() returns the stored result of the row.
Kept ==
    /\ clock < row.expires
    /\ row.state \in {"succeeded", "failed_after_dispatch"}
    /\ row.result # None

\* What check() throws otherwise.
RowRefusal ==
    IF row.expires <= clock THEN "RESULT_UNAVAILABLE"
    ELSE IF row.state = "claimed" THEN "EXECUTION_IN_PROGRESS"
    ELSE "EXECUTION_UNKNOWN"

-----------------------------------------------------------------------------
\* The attempt reads the snapshot.
Start(a) ==
    /\ pc[a] = "idle"
    /\ GoTo(a, IF issued THEN "reenter" ELSE "enter")
    /\ UNCHANGED <<Beliefs, issued, row, held, runs>>

\* permitted(), before anything else happens.
Enter(a) ==
    /\ pc[a] \in {"enter", "reenter"}
    /\ IF revoked THEN Answer(a, "TOOL_NOT_ALLOWED")
       ELSE GoTo(a, IF pc[a] = "reenter" THEN "replay" ELSE "decide")
    /\ UNCHANGED <<Beliefs, issued, row, held, runs>>

\* replay() of a decision that the snapshot had: the row answers, or there
\* is none and the core is asked again.
Replay(a) ==
    /\ pc[a] = "replay"
    /\ \/ /\ row = None
          /\ GoTo(a, "decide")
          /\ UNCHANGED held
       \/ /\ row # None /\ Kept
          /\ held' = [held EXCEPT ![a] = row.result]
          /\ Answer(a, "result")
       \/ /\ row # None /\ ~ Kept
          /\ Answer(a, RowRefusal)
          /\ UNCHANGED held
    /\ UNCHANGED <<Beliefs, issued, row, runs>>

\* The core issues the decision; whoever asked may never learn of it.
Issue ==
    /\ notAfter = None
    /\ \E life \in 1..DecisionLife : notAfter' = clock + life
    /\ UNCHANGED <<clock, issued, row, revoked, pc, held, code, runs, standing>>

\* createExecutionDecision() returns the decision, at any later time: a retry
\* under the same idempotency key is answered even after not_after.
Obtain(a) ==
    /\ pc[a] = "decide"
    /\ notAfter # None
    /\ GoTo(a, "put")
    /\ UNCHANGED <<Beliefs, issued, row, held, runs>>

Put(a) ==
    /\ pc[a] = "put"
    /\ issued' = TRUE
    /\ Stored(a, "fresh")
    /\ UNCHANGED <<Beliefs, row, held, runs>>

\* The first look at not_after.
Fresh(a) ==
    /\ pc[a] = "fresh"
    /\ IF clock < notAfter THEN GoTo(a, "permit")
       ELSE Answer(a, "TOOL_NOT_ALLOWED")
    /\ UNCHANGED <<Beliefs, issued, row, held, runs>>

\* Seeded fault: the permission of before the remote call is relied on.
PermitOnce(a) ==
    /\ pc[a] = "permit"
    /\ GoTo(a, "claim")
    /\ UNCHANGED <<Beliefs, issued, row, held, runs>>

\* permitted(), now that the decision is there.
Permit(a) ==
    /\ pc[a] = "permit"
    /\ IF revoked THEN Answer(a, "TOOL_NOT_ALLOWED") ELSE GoTo(a, "claim")
    /\ UNCHANGED <<Beliefs, issued, row, held, runs>>

\* Seeded faults: an unknown outcome may be tried again; so may an expired one.
ClaimableUnknown == row # None => row.state = "unknown"
ClaimableExpired == row # None => row.expires <= clock

\* INSERT ... ON CONFLICT DO NOTHING inserts.
Claimable == row = None

Claim(a) ==
    /\ pc[a] = "claim"
    /\ Claimable
    /\ row' = [state |-> "claimed", fence |-> a, result |-> None,
               expires |-> clock + ResultLife]
    /\ Stored(a, "claimed")
    /\ UNCHANGED <<Beliefs, issued, held, runs>>

\* The key is taken; SELECT ... FOR UPDATE and check().
ClaimTaken(a) ==
    /\ pc[a] = "claim"
    /\ ~ Claimable
    /\ \/ /\ Kept
          /\ held' = [held EXCEPT ![a] = row.result]
          /\ GoTo(a, "repermit")
       \/ /\ ~ Kept
          /\ Answer(a, RowRefusal)
          /\ UNCHANGED held
    /\ UNCHANGED <<Beliefs, issued, row, runs>>

\* permitted() once more before another attempt's result is handed over.
Repermit(a) ==
    /\ pc[a] = "repermit"
    /\ Answer(a, IF revoked THEN "TOOL_NOT_ALLOWED" ELSE "result")
    /\ UNCHANGED <<Beliefs, issued, row, held, runs>>

\* Seeded fault: an expired claim is abandoned without a word in the ledger.
CheckClaimedSilently(a) ==
    /\ pc[a] = "claimed"
    /\ \/ Answer(a, "DECISION_EXPIRED")
       \/ clock < notAfter /\ GoTo(a, "dispatch")
    /\ UNCHANGED <<Beliefs, issued, row, held, runs>>

\* The last look at the abort signal and at not_after.
CheckClaimed(a) ==
    /\ pc[a] = "claimed"
    /\ \/ GoTo(a, "withdraw")
       \/ clock < notAfter /\ GoTo(a, "dispatch")
    /\ UNCHANGED <<Beliefs, issued, row, held, runs>>

\* The row a claimed, as dispatch() and terminal() rewrite it.
Rewrite(a, from, state, result) ==
    /\ row # None /\ row.fence = a /\ row.state \in from
    /\ row' = [state |-> state, fence |-> row.fence, result |-> result,
               expires |-> row.expires]

Withdraw(a) ==
    /\ pc[a] = "withdraw"
    /\ Rewrite(a, {"claimed", "dispatching"}, "failed_before_dispatch", None)
    /\ Answer(a, "DECISION_EXPIRED") \/ Answer(a, "ERROR")
    /\ UNCHANGED <<Beliefs, issued, held, runs>>

Dispatch(a) ==
    /\ pc[a] = "dispatch"
    /\ Rewrite(a, {"claimed"}, "dispatching", None)
    /\ Stored(a, "handler")
    /\ UNCHANGED <<Beliefs, issued, held, runs>>

\* The one business invocation.
Invoke(a) ==
    /\ pc[a] = "handler"
    /\ runs' = [runs EXCEPT ![a] = @ + 1]
    /\ GoTo(a, "running")
    /\ UNCHANGED <<Beliefs, issued, row, held>>

\* The handler returns a valid result, or throws or returns something else.
Return(a) ==
    /\ pc[a] = "running"
    /\ \/ /\ \E v \in Results : held' = [held EXCEPT ![a] = v]
          /\ GoTo(a, "record")
       \/ /\ GoTo(a, "giveup")
          /\ UNCHANGED held
    /\ UNCHANGED <<Beliefs, issued, row, runs>>

FinalState(v) ==
    IF v \in ErrorResults THEN "failed_after_dispatch" ELSE "succeeded"

\* Seeded fault: the error of a lost COMMIT reaches the caller as it is.
RecordRethrown(a) ==
    /\ pc[a] = "record"
    /\ Rewrite(a, {"claimed", "dispatching"}, FinalState(held[a]), held[a])
    /\ Answer(a, "result") \/ Answer(a, "ERROR")
    /\ UNCHANGED <<Beliefs, issued, held, runs>>

\* terminal() with the result, then the answer.
Record(a) ==
    /\ pc[a] = "record"
    /\ Rewrite(a, {"claimed", "dispatching"}, FinalState(held[a]), held[a])
    /\ Answer(a, "result") \/ Answer(a, "EXECUTION_UNKNOWN")
    /\ UNCHANGED <<Beliefs, issued, held, runs>>

\* terminal("unknown") after the handler failed.
GiveUp(a) ==
    /\ pc[a] = "giveup"
    /\ Rewrite(a, {"claimed", "dispatching"}, "unknown", None)
    /\ Answer(a, "EXECUTION_UNKNOWN")
    /\ UNCHANGED <<Beliefs, issued, held, runs>>

\* A remote or store call failed without effect.
CallFails(a) ==
    /\ \/ /\ pc[a] \in {"idle", "replay", "decide", "put", "claim", "withdraw",
                        "dispatch"}
          /\ Answer(a, "ERROR")
       \/ /\ pc[a] \in {"record", "giveup"}
          /\ Answer(a, "EXECUTION_UNKNOWN")
    /\ UNCHANGED <<Beliefs, issued, row, held, runs>>

\* What the process of an attempt does unless it dies.
Proceed(a) ==
    \/ Enter(a) \/ Replay(a) \/ Obtain(a) \/ Put(a) \/ Fresh(a)
    \/ Permit(a) \/ Claim(a) \/ ClaimTaken(a) \/ Repermit(a) \/ CheckClaimed(a)
    \/ Withdraw(a) \/ Dispatch(a) \/ Invoke(a) \/ Return(a) \/ Record(a)
    \/ GiveUp(a) \/ CallFails(a)

\* The provider process dies with the attempt.
Crash(a) ==
    /\ pc[a] \notin {"idle", "done", "crashed"}
    /\ GoTo(a, "crashed")
    /\ UNCHANGED <<Beliefs, issued, row, held, runs>>

\* The actor loses the permission, or the approval is withdrawn.
Revoke ==
    /\ ~ revoked
    /\ revoked' = TRUE
    /\ standing' = [a \in Attempts |->
                      IF pc[a] \in BeforePermit \ {"replay"} THEN "early"
                      ELSE IF pc[a] \in Claiming THEN "claiming" ELSE "late"]
    /\ UNCHANGED <<clock, notAfter, issued, row, pc, held, code, runs>>

Tick ==
    /\ clock < MaxClock
    /\ clock' = clock + 1
    /\ UNCHANGED <<notAfter, issued, row, revoked, pc, held, code, runs, standing>>

Next ==
    \/ \E a \in Attempts : Start(a) \/ Proceed(a) \/ Crash(a)
    \/ Issue
    \/ Revoke
    \/ Tick

Spec == Init /\ [][Next]_vars

\* A process that does not die runs its continuations; remote and store calls
\* time out, and the handler is one that returns.
FairSpec == Spec /\ \A a \in Attempts : WF_vars(Proceed(a))

-----------------------------------------------------------------------------
\* The handler runs at most once for a decision, over all attempts of all
\* processes, lost commits, crashes and expired results (provider.ts 546-574).
AtMostOneRun ==
    \A a, b \in Attempts :
        /\ runs[a] <= 1
        /\ runs[a] > 0 /\ runs[b] > 0 => a = b

\* The ledger never says that nothing was dispatched when something was: a
\* row that is claimed or failed_before_dispatch had no handler run, whatever
\* became of the process (STATE_MACHINE.md:19, store.ts 170-188).
LedgerIsHonest ==
    \A a \in Attempts :
        runs[a] > 0
        => /\ row # None
           /\ row.fence = a
           /\ row.state \notin {"claimed", "failed_before_dispatch"}

\* An attempt that entered the handler tells its caller the result or that
\* the outcome is unknown, never an error that invites a retry
\* (provider.ts 589-607).
CallersAreWarned ==
    \A a \in Attempts :
        runs[a] > 0 /\ pc[a] = "done"
        => code[a] \in {"result", "EXECUTION_UNKNOWN"}

\* Every result given to a caller is the one the run produced, and the ledger
\* holds it (store.ts 104-121, provider.ts 504-507, 546-551).
AnswersAreTheRuns ==
    \A a \in Attempts :
        code[a] = "result"
        => /\ row # None /\ row.result = held[a]
           /\ \E b \in Attempts : runs[b] > 0 /\ held[b] = held[a]

\* An actor who had lost the permission while the decision was still being
\* fetched neither runs the tool nor sees its result; one who lost it while
\* claiming sees no replay (provider.ts 483, 541-551).
RevocationHolds ==
    \A a \in Attempts :
        /\ standing[a] = "early" => runs[a] = 0 /\ code[a] # "result"
        /\ standing[a] = "claiming" /\ code[a] = "result" => runs[a] > 0

\* A terminal row never changes (store.ts 189-215).
RowIsFinal == [][row # None /\ row.state \in Terminal => row' = row]_vars

\* A row is not left claimed or dispatching by an attempt that lives and
\* whose store calls work.
RowSettles ==
    \A a \in Attempts :
        row # None /\ row.fence = a
        ~> \/ row # None /\ row.state \in Terminal
           \/ pc[a] = "crashed"
           \/ pc[a] = "done" /\ code[a] \in {"ERROR", "EXECUTION_UNKNOWN"}

\* The attempts seen as one handler that runs at most once.
Ran == \E a \in Attempts : runs[a] > 0
Result == IF row = None THEN None ELSE row.result
Told == [a \in Attempts |-> IF code[a] = "result" THEN held[a] ELSE None]

Abstract == INSTANCE AtMostOnce
            WITH ran <- Ran, result <- Result, told <- Told

\* The attempts implement it.
ImplementsAtMostOnce == Abstract!OnceSpec

-----------------------------------------------------------------------------
\* What an inductive proof of the above needs besides.

\* An attempt past its claim has the row, in the state its place implies.
OwnerInv ==
    \A a \in Attempts :
        /\ pc[a] \in BeforePermit \cup Claiming
           => runs[a] = 0 /\ (row = None \/ row.fence # a)
        /\ pc[a] \in Owning => row # None /\ row.fence = a
        /\ pc[a] \in {"claimed", "withdraw", "dispatch"}
           => row.state = "claimed" /\ runs[a] = 0
        /\ pc[a] = "handler" => row.state = "dispatching" /\ runs[a] = 0
        /\ pc[a] \in {"running", "record", "giveup"}
           => row.state = "dispatching" /\ runs[a] = 1
        /\ pc[a] = "record" => held[a] # None

\* Only a terminal row has a result, which is its runner's.
ResultInv ==
    row # None =>
        /\ row.result # None
           <=> row.state \in {"succeeded", "failed_after_dispatch"}
        /\ row.result # None
           => /\ runs[row.fence] > 0
              /\ held[row.fence] = row.result
        /\ \A a \in Attempts : pc[a] = "repermit" => held[a] = row.result

\* Callers are told something when their attempt ends, and only then.
AnswerInv ==
    \A a \in Attempts :
        /\ pc[a] # "done" => code[a] = "none"
        /\ pc[a] = "repermit" => row # None /\ row.result # None
        /\ code[a] = "result" => held[a] # None

\* Where an attempt can still get to after the revocation.
StandingInv ==
    \A a \in Attempts :
        /\ standing[a] # "late" => revoked
        /\ standing[a] = "early"
           => pc[a] \in (BeforePermit \ {"replay"}) \cup {"done", "crashed"}
        /\ standing[a] = "claiming"
           => pc[a] \in Claiming \cup Owning \cup {"done", "crashed"}

\* The inductive invariant of the ledger.
IInv == /\ TypeOK
        /\ OwnerInv
        /\ ResultInv
        /\ AnswerInv
        /\ StandingInv
        /\ AtMostOneRun
        /\ LedgerIsHonest
        /\ CallersAreWarned
        /\ AnswersAreTheRuns
        /\ RevocationHolds
=============================================================================

----------------------------- MODULE Reservation -----------------------------
(***************************************************************************)
(* Idempotent requests to the core (backend-go process/reserve/finish/     *)
(* release, backend-rust handle/reserve/finish/release, and the SQL        *)
(* function tg.reserve that both call).                                    *)
(*                                                                         *)
(* A request reserves its key in one short transaction, works outside it   *)
(* (retrieval and inference, or the mutation of an operation), and         *)
(* publishes effect and response in one second transaction that only its   *)
(* fence may commit.  tg.reserve runs in READ COMMITTED, where every       *)
(* statement has its own snapshot, so INSERT, SELECT ... FOR UPDATE and    *)
(* the final UPDATE are separate steps until a row lock is held.           *)
(***************************************************************************)
EXTENDS Naturals

CONSTANTS Requests,     \* requests; r is also the fence its reserve() draws
          Keys,         \* (scope, principal, workspace, path, key) tuples
          Hashes,       \* request HMACs
          RequestKey,   \* [Requests -> Keys]
          RequestHash,  \* [Requests -> Hashes]
          Lease,        \* how long a reservation refuses others (10 s)
          Deadline,     \* how long a request may work (3 s)
          MaxClock,     \* bound on time, for TLC
          None          \* no row, no response, no answer

\* A row of tg.idempotency.
Row == [hash: Hashes, fence: Requests, lease: Nat,
        response: Requests \cup {None}]

ASSUME ReservationAssumption ==
    /\ RequestKey \in [Requests -> Keys]
    /\ RequestHash \in [Requests -> Hashes]
    /\ Lease \in Nat
    /\ Deadline \in Nat
    /\ Deadline < Lease
    /\ MaxClock \in Nat
    /\ None \notin Requests
    /\ None \notin Row

VARIABLES clock,      \* wall clock, shared by core and database
          row,        \* tg.idempotency: [Keys -> Row \cup {None}]
          pc,         \* where each request is
          began,      \* when the 3 s context of the request started
          via,        \* which branch of tg.reserve returned 'owned' (ghost)
          committed,  \* requests whose publishing transaction committed (ghost)
          answer,     \* 2xx body given to the client: the request that made it
          refusal     \* error code given to the client

vars == <<clock, row, pc, began, via, committed, answer, refusal>>

\* "insert", "lock" and "absent" are the three statements of tg.reserve.
Places == {"idle", "insert", "lock", "absent", "work", "release", "done",
           "crashed"}
Branches == {"none", "insert", "takeover", "absent"}
Refusals == {"none", "IDEMPOTENCY_CONFLICT", "REQUEST_IN_PROGRESS", "ERROR"}

TypeOK ==
    /\ clock \in Nat
    /\ row \in [Keys -> Row \cup {None}]
    /\ pc \in [Requests -> Places]
    /\ began \in [Requests -> Nat]
    /\ via \in [Requests -> Branches]
    /\ committed \subseteq Requests
    /\ answer \in [Requests -> Requests \cup {None}]
    /\ refusal \in [Requests -> Refusals]

Init ==
    /\ clock = 0
    /\ row = [k \in Keys |-> None]
    /\ pc = [r \in Requests |-> "idle"]
    /\ began = [r \in Requests |-> 0]
    /\ via = [r \in Requests |-> "none"]
    /\ committed = {}
    /\ answer = [r \in Requests |-> None]
    /\ refusal = [r \in Requests |-> "none"]

-----------------------------------------------------------------------------
MyRow(r) == row[RequestKey[r]]
GoTo(r, place) == pc' = [pc EXCEPT ![r] = place]

\* The context of the request has not expired: its statements still run.
InTime(r) == clock <= began[r] + Deadline

\* Seeded fault: the WHERE clause forgets "AND response IS NULL".
FencedIgnoringResponse(r) == /\ MyRow(r) # None
                             /\ MyRow(r).fence = r

\* The row carries r's fence and no response: what finish and release test.
Fenced(r) == /\ MyRow(r) # None
             /\ MyRow(r).fence = r
             /\ MyRow(r).response = None

Refuse(r, code) ==
    /\ refusal' = [refusal EXCEPT ![r] = code]
    /\ UNCHANGED <<clock, began, committed, answer>>

-----------------------------------------------------------------------------
\* The request passed every check that precedes reserve.
Begin(r) ==
    /\ pc[r] = "idle"
    /\ began' = [began EXCEPT ![r] = clock]
    /\ GoTo(r, "insert")
    /\ UNCHANGED <<clock, row, via, committed, answer, refusal>>

\* reserve() returned 'owned' to r by the given branch, or its commit took
\* effect but the caller saw an error and answers without releasing.
Owned(r, branch) ==
    /\ via' = [via EXCEPT ![r] = branch]
    /\ \/ /\ GoTo(r, "work")
          /\ UNCHANGED <<clock, began, committed, answer, refusal>>
       \/ /\ GoTo(r, "done")
          /\ Refuse(r, "ERROR")

\* Seeded fault: the lease is granted for no longer than the deadline.
InsertShortLease(r) ==
    /\ pc[r] = "insert"
    /\ InTime(r)
    /\ MyRow(r) = None
    /\ row' = [row EXCEPT ![RequestKey[r]] =
                 [hash |-> RequestHash[r], fence |-> r,
                  lease |-> clock, response |-> None]]
    /\ Owned(r, "insert")

\* INSERT ... ON CONFLICT DO NOTHING inserted the row.
InsertRow(r) ==
    /\ pc[r] = "insert"
    /\ InTime(r)
    /\ MyRow(r) = None
    /\ row' = [row EXCEPT ![RequestKey[r]] =
                 [hash |-> RequestHash[r], fence |-> r,
                  lease |-> clock + Lease, response |-> None]]
    /\ Owned(r, "insert")

\* INSERT found the key taken.
InsertConflicts(r) ==
    /\ pc[r] = "insert"
    /\ InTime(r)
    /\ MyRow(r) # None
    /\ GoTo(r, "lock")
    /\ UNCHANGED <<clock, row, began, via, committed, answer, refusal>>

\* SELECT ... FOR UPDATE found no row: it was deleted since the INSERT.  item
\* is NULL, so every IF that follows is false and control reaches the UPDATE.
LockNothing(r) ==
    /\ pc[r] = "lock"
    /\ InTime(r)
    /\ MyRow(r) = None
    /\ GoTo(r, "absent")
    /\ UNCHANGED <<clock, row, began, via, committed, answer, refusal>>

\* The locked row belongs to a different request.
KeyReused(r) ==
    /\ pc[r] = "lock"
    /\ InTime(r)
    /\ MyRow(r) # None
    /\ MyRow(r).hash # RequestHash[r]
    /\ GoTo(r, "done")
    /\ Refuse(r, "IDEMPOTENCY_CONFLICT")
    /\ UNCHANGED <<row, via>>

\* Seeded fault: the hash is not compared before a replay.
ReplayAnyHash(r) ==
    /\ pc[r] = "lock"
    /\ InTime(r)
    /\ MyRow(r) # None
    /\ MyRow(r).response # None
    /\ GoTo(r, "done")
    /\ answer' = [answer EXCEPT ![r] = MyRow(r).response]
    /\ UNCHANGED <<clock, row, began, via, committed, refusal>>

\* The locked row holds a response.
ReplayRow(r) ==
    /\ pc[r] = "lock"
    /\ InTime(r)
    /\ MyRow(r) # None
    /\ MyRow(r).hash = RequestHash[r]
    /\ MyRow(r).response # None
    /\ GoTo(r, "done")
    /\ answer' = [answer EXCEPT ![r] = MyRow(r).response]
    /\ UNCHANGED <<clock, row, began, via, committed, refusal>>

\* The same request is at work elsewhere and its lease runs.
InProgress(r) ==
    /\ pc[r] = "lock"
    /\ InTime(r)
    /\ MyRow(r) # None
    /\ MyRow(r).hash = RequestHash[r]
    /\ MyRow(r).response = None
    /\ MyRow(r).lease > clock
    /\ GoTo(r, "done")
    /\ Refuse(r, "REQUEST_IN_PROGRESS")
    /\ UNCHANGED <<row, via>>

\* Seeded fault: the UPDATE also clears the response.
RefencedAndCleared(item, r) ==
    [hash |-> item.hash, fence |-> r,
     lease |-> clock + Lease, response |-> None]
Refenced(item, r) ==
    [hash |-> item.hash, fence |-> r,
     lease |-> clock + Lease, response |-> item.response]

\* The lease ran out without a response: r takes the reservation over.
TakeOver(r) ==
    /\ pc[r] = "lock"
    /\ InTime(r)
    /\ MyRow(r) # None
    /\ MyRow(r).hash = RequestHash[r]
    /\ MyRow(r).response = None
    /\ ~ (MyRow(r).lease > clock)
    /\ row' = [row EXCEPT ![RequestKey[r]] = Refenced(@, r)]
    /\ Owned(r, "takeover")

\* The UPDATE of a request that locked nothing.  It changes no row, or the row
\* some other request inserted meanwhile, whatever that row holds.
UpdateUnlocked(r) ==
    /\ pc[r] = "absent"
    /\ InTime(r)
    /\ row' = IF MyRow(r) = None
              THEN row
              ELSE [row EXCEPT ![RequestKey[r]] = Refenced(@, r)]
    /\ Owned(r, "absent")

-----------------------------------------------------------------------------
\* UPDATE ... SET response, status by finish().
Responded(item, r) ==
    [hash |-> item.hash, fence |-> item.fence,
     lease |-> item.lease, response |-> r]

\* The second transaction: the operation is persisted, finish() stores the
\* response under the fence, and both commit.  When the commit's outcome is
\* lost the caller sees an error and the deferred release runs.
Publish(r) ==
    /\ pc[r] = "work"
    /\ InTime(r)
    /\ Fenced(r)
    /\ row' = [row EXCEPT ![RequestKey[r]] = Responded(@, r)]
    /\ committed' = committed \cup {r}
    /\ \/ /\ GoTo(r, "done")
          /\ answer' = [answer EXCEPT ![r] = r]
          /\ UNCHANGED refusal
       \/ /\ GoTo(r, "release")
          /\ refusal' = [refusal EXCEPT ![r] = "ERROR"]
          /\ UNCHANGED answer
    /\ UNCHANGED <<clock, began, via>>

\* finish() updated no row: another request holds the fence or no row is
\* left.  The transaction rolls back.
FenceLost(r) ==
    /\ pc[r] = "work"
    /\ InTime(r)
    /\ ~ Fenced(r)
    /\ GoTo(r, "release")
    /\ Refuse(r, "REQUEST_IN_PROGRESS")
    /\ UNCHANGED <<row, via>>

\* Inference, validation, the database or the deadline failed the work.
WorkFails(r) ==
    /\ pc[r] = "work"
    /\ GoTo(r, "release")
    /\ Refuse(r, "ERROR")
    /\ UNCHANGED <<row, via>>

\* Seeded fault: a request waiting for the row lock has no deadline.
ReserveFailsUnlessLocking(r) ==
    /\ pc[r] \in {"insert", "absent"}
    /\ GoTo(r, "done")
    /\ Refuse(r, "ERROR")
    /\ UNCHANGED <<row, via>>

\* reserve() itself failed; its transaction rolled back.
ReserveFails(r) ==
    /\ pc[r] \in {"insert", "lock", "absent"}
    /\ GoTo(r, "done")
    /\ Refuse(r, "ERROR")
    /\ UNCHANGED <<row, via>>

\* DELETE ... WHERE fence AND response IS NULL, errors ignored.
Release(r) ==
    /\ pc[r] = "release"
    /\ GoTo(r, "done")
    /\ row' \in {row} \cup IF Fenced(r)
                           THEN {[row EXCEPT ![RequestKey[r]] = None]}
                           ELSE {}
    /\ UNCHANGED <<clock, began, via, committed, answer, refusal>>

\* The process dies, or the Rust timeout drops the request's future: no
\* release runs and nobody is answered.
Crash(r) ==
    /\ pc[r] \notin {"idle", "done", "crashed"}
    /\ GoTo(r, "crashed")
    /\ UNCHANGED <<clock, row, began, via, committed, answer, refusal>>

Tick ==
    /\ clock < MaxClock
    /\ clock' = clock + 1
    /\ UNCHANGED <<row, pc, began, via, committed, answer, refusal>>

\* What the process serving r does unless it dies.
Serve(r) ==
    \/ InsertRow(r) \/ InsertConflicts(r) \/ LockNothing(r) \/ KeyReused(r)
    \/ ReplayRow(r) \/ InProgress(r) \/ TakeOver(r) \/ UpdateUnlocked(r)
    \/ Publish(r) \/ FenceLost(r) \/ WorkFails(r) \/ ReserveFails(r)
    \/ Release(r)

Next ==
    \/ \E r \in Requests : Begin(r) \/ Serve(r) \/ Crash(r)
    \/ Tick

Spec == Init /\ [][Next]_vars

\* A process that does not die keeps running its goroutine or future.
FairSpec == Spec /\ \A r \in Requests : WF_vars(Serve(r))

-----------------------------------------------------------------------------
\* A fence-and-response check lets at most one request per key commit, over
\* takeovers, lost commits and the unlocked UPDATE (store.go finish 138-151).
CommitOnce ==
    \A a, b \in committed : RequestKey[a] = RequestKey[b] => a = b

\* Every 2xx answer under a key, first or replayed, is the one committed
\* result: no client is told of work that never became durable.
AnswersAgree ==
    \A r \in Requests :
        answer[r] # None => /\ answer[r] \in committed
                            /\ RequestKey[answer[r]] = RequestKey[r]
                            /\ MyRow(r) # None
                            /\ MyRow(r).response = answer[r]

\* No request of key k was told 'owned' without having locked a row.
NeverUnlocked(k) == \A c \in Requests : RequestKey[c] = k => via[c] # "absent"

\* Holding the work of a key: between 'owned' and the end of its context.
Working(r) == pc[r] = "work" /\ InTime(r)

\* The lease outlives the deadline, so two requests work under one key at
\* once only after tg.reserve returned 'owned' without having locked a row.
OwnersExclusive ==
    \A a, b \in Requests :
        /\ Working(a) /\ Working(b)
        /\ RequestKey[a] = RequestKey[b]
        /\ NeverUnlocked(RequestKey[a])
        => a = b

\* A request is answered only with a result computed for its own body (the
\* hash survives takeovers), again except after an unlocked UPDATE, which can
\* put one request's fence on another request's hash.
AnswerFitsRequest ==
    \A r \in Requests :
        /\ answer[r] # None
        /\ NeverUnlocked(RequestKey[r])
        => RequestHash[answer[r]] = RequestHash[r]

\* Once a response is stored under a key nothing removes or replaces it, not
\* even the late release, takeover or finish of another request.
StoredResponseIsFinal ==
    [][\A k \in Keys :
         row[k] # None /\ row[k].response # None
         => row'[k] # None /\ row'[k].response = row[k].response]_vars

\* A request that may still act is answered, or its process died.
EveryRequestEnds ==
    \A r \in Requests :
        pc[r] = "insert" ~> pc[r] \in {"done", "crashed"}

-----------------------------------------------------------------------------
\* The abstract store: a key's result is the response its row holds.
Stored(k) == IF row[k] = None THEN None ELSE row[k].response
Once == INSTANCE OnceStore WITH result <- [k \in Keys |-> Stored(k)]

\* The reservation protocol implements the store that applies each key once
\* and answers with what it applied.
ImplementsOnceStore == Once!OnceSpec

-----------------------------------------------------------------------------
\* What an inductive proof needs besides the properties above.

\* Committed work and stored responses are the same thing.
StoredInv ==
    /\ \A r \in committed : MyRow(r) # None /\ MyRow(r).response = r
    /\ \A k \in Keys :
         row[k] # None /\ row[k].response # None
         => /\ row[k].response \in committed
            /\ RequestKey[row[k].response] = k

\* A request at work within its deadline holds the fence, under a lease that
\* outlives the deadline.
OwnerInv ==
    \A r \in Requests :
        /\ began[r] <= clock
        /\ pc[r] \in {"idle", "insert", "lock", "absent"} => via[r] = "none"
        /\ Working(r) /\ NeverUnlocked(RequestKey[r])
           => Fenced(r) /\ MyRow(r).lease > began[r] + Deadline

\* The hash of a row is that of its fence's request and of its response's.
HashInv ==
    \A r \in Requests :
        MyRow(r) # None /\ NeverUnlocked(RequestKey[r])
        => /\ MyRow(r).fence = r => MyRow(r).hash = RequestHash[r]
           /\ MyRow(r).response = r => MyRow(r).hash = RequestHash[r]

\* The inductive invariant of the protocol.
IInv == /\ TypeOK
        /\ StoredInv
        /\ AnswersAgree
        /\ OwnerInv
        /\ HashInv
        /\ AnswerFitsRequest

-----------------------------------------------------------------------------
\* CONTRACT.md:71-72 "Concurrent duplicate work returns REQUEST_IN_PROGRESS
\* rather than starting another inference": two requests with the same key
\* and body never work at the same time.  The unlocked UPDATE breaks it.
NoConcurrentDuplicateWork ==
    \A a, b \in Requests :
        /\ Working(a) /\ Working(b)
        /\ RequestKey[a] = RequestKey[b]
        /\ RequestHash[a] = RequestHash[b]
        => a = b
=============================================================================

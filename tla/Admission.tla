------------------------------ MODULE Admission ------------------------------
(***************************************************************************)
(* How a core admits a request: a slot of the process, its credentials, a  *)
(* slot of its integration (scope) in that process, and one count of the   *)
(* integration's quota in the database that all processes share.  Every    *)
(* step that touches the database borrows one connection of the process's  *)
(* pool.  The Go core counts in variables it must decrement, the Rust core *)
(* holds permits that are dropped with the request.                        *)
(***************************************************************************)
EXTENDS Integers, FiniteSets

CONSTANTS Requests, Processes, Scopes,
          Rust,          \* the processes that run the Rust core
          Home,          \* the process each request is sent to
          ScopeOf,       \* the integration of its service key
          Invalid,       \* requests with a bad key or contract version
          GlobalLimit,   \* 128 in the code
          ScopeLimit,    \* 16
          PoolSize,      \* 16
          Quota,         \* 600 per window
          Burst,         \* 20 per second in limits.yaml
          Second,        \* ticks of a window that are one second
          Windows,       \* bound of the model: windows 0..Windows-1
          None

ASSUME AdmissionAssumption ==
    /\ IsFiniteSet(Requests) /\ None \notin Nat
    /\ Rust \subseteq Processes /\ Invalid \subseteq Requests
    /\ Home \in [Requests -> Processes] /\ ScopeOf \in [Requests -> Scopes]
    /\ {GlobalLimit, ScopeLimit, PoolSize, Quota, Burst, Second, Windows} \subseteq Nat \ {0}

VARIABLES pc,        \* where each request is
          conn,      \* requests that hold a connection
          global,    \* slots taken in each process (a.global)
          inflight,  \* slots taken by each scope in each process (a.inflight)
          used,      \* tg.quota_windows: counts of each scope and window
          clock,     \* a window and a second in it, numbered through
          answer,    \* the status each request was answered with
          passed     \* ghost: when each request passed the quota

vars == <<pc, conn, global, inflight, used, clock, answer, passed>>

Window == clock \div Second
Bound(scope, p) == {r \in Requests : Home[r] = p /\ ScopeOf[r] = scope}
\* Inside the process, inside the scope's limit, and where a connection is needed.
Inside == {"auth", "limit", "quota", "work", "cleanup"}
Limited == {"quota", "work", "cleanup"}
Querying == {"auth", "quota", "work", "cleanup"}

TypeOK ==
    /\ pc \in [Requests -> Inside \cup {"new", "done"}]
    /\ conn \in SUBSET Requests
    /\ global \in [Processes -> Int]
    /\ inflight \in [Processes -> [Scopes -> Int]]
    /\ used \in [Scopes -> [0..Windows - 1 -> Nat]]
    /\ clock \in Nat
    /\ answer \in [Requests -> {200, 401, 429, 500, 503, 504, None}]
    /\ passed \in [Requests -> Nat \cup {None}]

Init == /\ pc = [r \in Requests |-> "new"]
        /\ conn = {}
        /\ global = [p \in Processes |-> 0]
        /\ inflight = [p \in Processes |-> [s \in Scopes |-> 0]]
        /\ used = [s \in Scopes |-> [w \in 0..Windows - 1 |-> 0]]
        /\ clock = 0
        /\ answer = [r \in Requests |-> None]
        /\ passed = [r \in Requests |-> None]
-----------------------------------------------------------------------------
\* Seeded fault: a refusal after the slot was taken keeps it.
LeaveKeeping(r, status) ==
    /\ pc' = [pc EXCEPT ![r] = "done"]
    /\ answer' = [answer EXCEPT ![r] = status]
    /\ conn' = conn \ {r}
    /\ global' = [global EXCEPT ![Home[r]] = @ - 1]
    /\ inflight' = [inflight EXCEPT ![Home[r]][ScopeOf[r]] =
                      @ - IF pc[r] = "work" THEN 1 ELSE 0]
\* process() returns: its deferred functions give back what it holds.
Leave(r, status) ==
    /\ pc' = [pc EXCEPT ![r] = "done"]
    /\ answer' = [answer EXCEPT ![r] = status]
    /\ conn' = conn \ {r}
    /\ global' = [global EXCEPT ![Home[r]] = @ - 1]
    /\ inflight' = [inflight EXCEPT ![Home[r]][ScopeOf[r]] =
                      @ - IF pc[r] \in Limited THEN 1 ELSE 0]

Go(r, place) == pc' = [pc EXCEPT ![r] = place] /\ conn' = conn \ {r}

\* There is no queue: a request that finds no slot is refused.
Arrive(r) ==
    /\ pc[r] = "new"
    /\ IF global[Home[r]] >= GlobalLimit
       THEN /\ pc' = [pc EXCEPT ![r] = "done"]
            /\ answer' = [answer EXCEPT ![r] = 503]
            /\ UNCHANGED global
       ELSE /\ pc' = [pc EXCEPT ![r] = "auth"]
            /\ global' = [global EXCEPT ![Home[r]] = @ + 1]
            /\ UNCHANGED answer
    /\ UNCHANGED <<conn, inflight, used, clock, passed>>

\* The pool lends a connection, or its 250 ms are over: 503 in the Rust core; in
\* the Go core the error is the budget's own and becomes a 504.  A request that has
\* reserved its key by then releases it.
Acquire(r) ==
    /\ pc[r] \in Querying /\ r \notin conn
    /\ Cardinality({q \in conn : Home[q] = Home[r]}) < PoolSize
    /\ conn' = conn \cup {r}
    /\ UNCHANGED <<pc, global, inflight, used, clock, answer, passed>>
AcquireTimeout(r) ==
    /\ pc[r] \in Querying \ {"cleanup"} /\ r \notin conn
    /\ \/ Leave(r, IF Home[r] \in Rust THEN 503 ELSE 504)
       \/ pc[r] = "work" /\ Go(r, "cleanup") /\ UNCHANGED <<global, inflight, answer>>
    /\ UNCHANGED <<used, clock, passed>>

\* The key's verifier and binding, then the contract version.
Authenticate(r) ==
    /\ pc[r] = "auth" /\ r \in conn
    /\ IF r \in Invalid THEN Leave(r, 401)
                        ELSE Go(r, "limit") /\ UNCHANGED <<global, inflight, answer>>
    /\ UNCHANGED <<used, clock, passed>>

\* The test and the increment are under one lock (Go), one try_acquire (Rust).
FullGo(p, s) == inflight[p][s] >= ScopeLimit
FullRust(p, s) == LET permits == ScopeLimit - inflight[p][s] IN permits = 0

EnterScope(r) ==
    LET p == Home[r]
        s == ScopeOf[r]
    IN /\ pc[r] = "limit"
       /\ IF IF p \in Rust THEN FullRust(p, s) ELSE FullGo(p, s)
          THEN Leave(r, 429)
          ELSE /\ inflight' = [inflight EXCEPT ![p][s] = @ + 1]
               /\ Go(r, "quota")
               /\ UNCHANGED <<global, answer>>
       /\ UNCHANGED <<used, clock, passed>>

\* Seeded fault: the limit is compared with the count before this request.
OverQuotaBefore(n) == n - 1 > Quota
OverQuota(n) == n > Quota

\* The upsert returns the count that includes this request, whether the request
\* is good or not.  The COMMIT may fail, before or after taking effect.
CountQuota(r) ==
    LET counted == used[ScopeOf[r]][Window] + 1
        count == used' = [used EXCEPT ![ScopeOf[r]][Window] = counted]
    IN /\ pc[r] = "quota" /\ r \in conn
       /\ \/ /\ count
             /\ IF OverQuota(counted)
                THEN Leave(r, 429) /\ UNCHANGED passed
                ELSE /\ Go(r, "work")
                     /\ passed' = [passed EXCEPT ![r] = clock]
                     /\ UNCHANGED <<global, inflight, answer>>
          \/ (count \/ UNCHANGED used) /\ Leave(r, 500) /\ UNCHANGED passed
       /\ UNCHANGED clock

\* Seeded fault: the catalog is looked up with a connection of its own while
\* the operation's transaction holds one.
WorkNested(r) ==
    /\ pc[r] = "work" /\ r \in conn
    /\ Cardinality({q \in conn : Home[q] = Home[r]}) < PoolSize
    /\ \/ Leave(r, 200)
       \/ Go(r, "cleanup") /\ UNCHANGED <<global, inflight, answer>>
    /\ UNCHANGED <<used, clock, passed>>
\* The rest of the request, on one connection at a time: a response, or an error
\* that first releases the reservation of its key.
Work(r) ==
    /\ pc[r] = "work" /\ r \in conn
    /\ \/ Leave(r, 200)
       \/ Go(r, "cleanup") /\ UNCHANGED <<global, inflight, answer>>
    /\ UNCHANGED <<used, clock, passed>>

\* release() of the reservation, on a budget of its own; its errors are ignored.
Cleanup(r) ==
    /\ pc[r] = "cleanup"
    /\ Leave(r, 500)
    /\ UNCHANGED <<used, clock, passed>>

\* The 3 s are over at any await.  The Go core still releases the reservation,
\* the Rust core drops the future and all it holds.
Deadline(r) ==
    /\ pc[r] \in Inside \ {"cleanup"}
    /\ IF pc[r] = "work" /\ Home[r] \notin Rust
       THEN Go(r, "cleanup") /\ UNCHANGED <<global, inflight, answer>>
       ELSE Leave(r, 504)
    /\ UNCHANGED <<used, clock, passed>>

\* A process dies: its slots and connections go with it, the counts stay.
Crash(p) ==
    LET lost == {r \in Requests : Home[r] = p /\ pc[r] \in Inside} IN
    /\ lost # {}
    /\ pc' = [r \in Requests |-> IF r \in lost THEN "done" ELSE pc[r]]
    /\ conn' = conn \ lost
    /\ global' = [global EXCEPT ![p] = 0]
    /\ inflight' = [inflight EXCEPT ![p] = [s \in Scopes |-> 0]]
    /\ UNCHANGED <<used, clock, answer, passed>>

Tick == /\ clock + 1 < Windows * Second
        /\ clock' = clock + 1
        /\ UNCHANGED <<pc, conn, global, inflight, used, answer, passed>>

Progress(r) == Authenticate(r) \/ EnterScope(r) \/ CountQuota(r) \/ Work(r) \/ Cleanup(r)

Next == \/ \E r \in Requests : \/ Arrive(r) \/ Acquire(r) \/ AcquireTimeout(r) \/ Deadline(r)
                               \/ Authenticate(r) \/ EnterScope(r) \/ CountQuota(r)
                               \/ Work(r) \/ Cleanup(r)
        \/ \E p \in Processes : Crash(p)
        \/ Tick

\* Goroutines and tasks run and the pool lends what it has; no timer is needed.
Fairness == \A r \in Requests : WF_vars(Acquire(r)) /\ WF_vars(Progress(r))

Spec == Init /\ [][Next]_vars
LiveSpec == Spec /\ Fairness
-----------------------------------------------------------------------------
(* Properties *)

\* The counters are the requests that are there, after every refusal, error,
\* timeout and crash: no slot is lost and none is given back twice, and no more
\* requests of a scope are at work in a process than its limit.
SlotsAreHeld ==
    \A p \in Processes :
        /\ global[p] = Cardinality({r \in Requests : Home[r] = p /\ pc[r] \in Inside})
        /\ \A s \in Scopes :
              /\ inflight[p][s] = Cardinality({r \in Bound(s, p) : pc[r] \in Limited})
              /\ inflight[p][s] <= ScopeLimit

\* Whatever the processes do, at most Quota requests of a scope pass in one
\* window, those included whose process died.
QuotaHolds ==
    \A s \in Scopes, w \in 0..Windows - 1 :
        Cardinality({r \in Requests : /\ ScopeOf[r] = s /\ passed[r] # None
                                      /\ passed[r] \div Second = w}) <= Quota

\* A request that holds a connection waits for nothing another request holds:
\* every request leaves without the help of a timer, however small the pool.
EveryRequestLeaves == \A r \in Requests : (pc[r] = "auth") ~> (pc[r] = "done")

\* shared/limits.yaml: at most burst_per_second of a scope's requests pass in one
\* second.  No code counts seconds.
BurstHolds ==
    \A s \in Scopes, t \in 0..Windows * Second - 1 :
        Cardinality({r \in Requests : ScopeOf[r] = s /\ passed[r] = t}) <= Burst
=============================================================================

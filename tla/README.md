# Verification of Toolgate

Toolgate turns an intent into one checked tool call.  A *core* (a Go service and
a Rust service with one contract, over PostgreSQL) selects a tool from an
uploaded catalog, validates its arguments and issues, for each operation, one
short-lived *execution decision*.  A *provider* uses the TypeScript SDK to keep
snapshots of its operations, to ask for decisions and to run the tool's handler
at most once per decision.  This directory models the parts of it that carry its
promises in TLA+, checks them with TLC and proves the most important properties
with TLAPS.  All paths below are relative to `src/`.

## Inventory

| Part | State | Operations | What makes it correct |
|---|---|---|---|
| Idempotent reservation (`shared/migrations/001_core.sql`, `backend-go/internal/core/{store,app}.go`, `backend-rust/src/runtime/{store,mod}.rs`) | `tg.idempotency`: hash, fence, lease, response | `tg.reserve`, finish, release | one request per key takes effect, every answer under the key is its result |
| Operation state machine (`core/app.go` prepare, ready, mutate; `core/store.go` loadOperation, persistView) | `tg.operations`, `tg.receipts` | prepare, resolve, execution-decisions, cancel, receipts, inspect | one decision, of its owner, within its validity; revisions name contents; outcomes stay |
| Provider execution ledger (`sdk-typescript/packages/sdk/src/{provider,store}.ts`, `sdk-typescript/sql/001_ledger.sql`) | `sdk.executions` | execute, replay, claim, dispatch, terminal | at most one handler run; the ledger and the callers are never misled |
| SDK snapshots and protocol (`provider.ts`, `store.ts` put/get) | `sdk.preparations` | prepare, resolve, execute, put | the snapshot is always a view the core had |
| Remote client (`remote.ts`) | one call's deadline, key, attempts | call with one retry, abort, close | one effect per key, nothing sent after the end, every call answered |
| Admission (`app.go` 120-210, `runtime/mod.rs`) | global slots, per-scope counter or permits, quota rows, connection pool | admit, count, release | every slot is given back once, limits hold across processes, nobody waits in a circle |
| Selector worker pool (`core/parallel.go`, `runtime/selection.rs`) | shared semaphore, results, activity counters | ask, gather, cancel | partial answers select nothing, no work outlives the request |
| Retrieval and selection (`core/selection.go`, `parallel.go`) | none | rank, ask, judge, reduce | what is selected earned it, the best is never cut off |
| Workflow preparation (`core/workflow.go`) | trace, child operations | pool, decode, expose | the provider takes every workflow a core returns |
| Catalog (`app.go` 213-275, `store.go`) | `tg.catalogs`, compiled schemas | upload, read, prepare, bootstrap | a version is one body for ever |
| Benchmark runners (`tools/{v2,v3,v3p2}/run.mjs`) | report, cell files, conversation | session, cell, checkpoint, resume | no cell twice, none missing, spending bounded |
| Tool call scheduling (`tools/v3/calls.mjs`) | call list | batches of reads, single writes | order of effects |
| Graders and tool losses (`tools/{v2,v3}/{metrics,state}.mjs`, `tools/v3p2/{evaluate,final-evaluation,analysis}.mjs`) | none; the record of a cell | grade, verify, locate losses | a verdict says what the agent did, a loss where it happened |
| JSON profile, schemas, HTTP, TLS, authentication, RLS, reports, recorded data | none that changes across calls, or I/O | | |

How they interact.  Every core handler runs inside one idempotent reservation:
it reserves its key in one transaction, works, and publishes effect and response
in a second.  `mutate` locks the operation's row, so handlers on one operation
are serial, and handlers on different operations share nothing.  The SDK calls
the core over HTTP, stores each view it is answered with in `sdk.preparations`
and, for an execution, alternates between remote calls, its own database and the
provider's callbacks (`authorize`, `approve`, the handler); other attempts of
the same operation, in the same or in another process, interleave at every
`await`. Before its reservation a request passes admission, whose slots and
connections all requests of a process share; a preparation then asks the
selector through a semaphore that all preparations of the process share.  The
runners drive a model against a provider over MCP and know of its work only what
it has recorded.

What is hard: statements of `tg.reserve` interleaving under READ COMMITTED;
leases against deadlines; a COMMIT that took effect but is reported as failed;
processes that die between two transactions; late, repeated and lost responses;
two attempts with different arguments; permissions revoked between two awaits;
expiry between any two steps; slots and connections held on every way out of a
request; calls that go on after their caller has gone; a limit computed from
records that a crash may have lost.  `PROJECT.json` lists these hazards at the
lines where they bite, with the properties that cover them.

## Modules

| Module | Models |
|---|---|
| `OnceStore` | what the idempotency store promises, without leases, fences or crashes |
| `Reservation` | `tg.reserve`, finish, release and the request around them, statement by statement |
| `Operation` | one operation of the core: one action per handler outcome |
| `AtMostOnce` | what the execution ledger promises: one run, one durable result, told to all |
| `Ledger` | `execute()` with one place per await, and the row of `sdk.executions` |
| `Toolgate` | `Operation` extended by the SDK: its calls, the snapshots and the network between them, composed with `Ledger` |
| `RemoteCall` | one client's calls: key, attempts, retry, deadline, abort, over a service that keeps `OnceStore`'s promise |
| `Admission` | the limits that a request passes in a Go and in a Rust process, and the pool of connections |
| `SelectorPool` | the concurrent questions of selections and workflows in one process |
| `Sorting` | what the sorts of the registries and the cores leave, as one operator |
| `Ranking` | retrieval, decoding, thresholds, reduction and exposure as operators |
| `Selection` | one preparation over `Ranking`, with a selector that answers anything, and the provider's checks |
| `Catalog` | uploads, reads, preparations and bootstraps of catalog versions, three schema compilers, the schema caches |
| `Grading` | the graders of v2, v3 and part 2 and the attribution of losses, as operators |
| `Evaluation` | a cell of the benchmark over `Selection` and `Grading`: preparations whose answers may be lost, or an agent's calls on the business, and the record that is graded |
| `Runner` | the sessions, cells and conversations of the benchmark runners |
| `MC*` | the instances that TLC checks; `MCService` has `Operation` and `Catalog` |
| `ReservationProofs`, `LedgerProofs` | the theorems of these modules, with the refinements of `OnceStore` and `AtMostOnce` |
| `ToolgateProofs` | the theorems of `Operation`, the refinements of `Operation` and `Ledger` by their composition, and what follows |
| `RemoteProofs`, `AdmissionProofs`, `SelectorPoolProofs`, `RunnerProofs` | the theorems of `RemoteCall`, `Admission`, `SelectorPool` and `Runner` |
| `PreparationProofs` | the theorems of `Catalog` and of `Evaluation`, and through it of `Ranking`, `Selection` and `Grading`, over lemmas about `Sorting` |

Operators named "Seeded fault" in the comments are not part of any
specification.  They are plausible errors of the code beside the operator they
would replace; `PROJECT.json` "mutants" pairs each property with one that
violates it, so that no property holds for trivial reasons.

### Reservation

`row` is `tg.idempotency`; `pc` is where a request is.  `tg.reserve` is three
statements: INSERT ("insert"), SELECT ... FOR UPDATE ("lock") and, when that
SELECT found nothing, the UPDATE ("absent").  Once a row is locked, the rest of
the function cannot be interleaved with and is part of the same action:
`KeyReused`, `ReplayRow`, `InProgress` and `TakeOver` are the branches of lines
70 to 74.  `Publish` is the second transaction with the fence test of finish; its
commit may be reported as failed although it took effect, after which `Release`
runs as the deferred release of the code does.  `Crash` stands for a dead
process and for the Rust timeout, which drops the future without releasing.
`via`, `committed` are ghosts.  The Go and the Rust core differ only in what
releases: both are covered by the same actions.

### Operation

`view` is the stored view (`None` before prepare), `owner` the ownership columns
with the allowed tools of prepare.  Handlers lock the row, so each is one
action. A request that is refused changes nothing and is no step.  What
retrieval and the selector answer is any tool or any choice of tools the actor
is allowed to use.  `Replay` is the answer of the idempotency store to a request
that is repeated under its key: it passes the guard of `app.go:349-362`, which
looks at the owner and the operation's expiry, and no handler.  `grants` and
`authors` are ghosts: every answer that held a decision, whether it was
replayed and when, and everyone who changed the view.

### Ledger

`pc` names the await an attempt is at; actions follow `execute()` from its
snapshot read to its answer.  Every store call takes effect, fails without
effect, or takes effect and is seen to fail (`Stored`).  `issued` says whether
the stored snapshot carries the decision, `notAfter` is the decision's end once
the core issued it.  Attempts are calls whose arguments validate and match the
decision (others never leave the first steps; `Toolgate` has them).  The
document `shared/STATE_MACHINE.md:17` names a ledger state "prepared": the code
never writes it and the table does not admit it, so it is not in `RowStates`.

### Toolgate

`Toolgate` extends `Operation`, whose handlers it calls, and instantiates `Ledger`
with `issued` and `notAfter` computed from the snapshot and from the core's view.
`mail` holds the views the core answered with; any of them can reach `put()` at any
later time, any number of times, or never. `asked`, `answered` and `cached` are the
decision requests sent, answered, and the idempotency keys that are answered from
the store; the core may handle a request after its caller failed. The core's
reservation appears as what `Reservation` shows it to be: a key that was answered is
answered again with the same (`Operation`'s `Replay`). `input` gives the arguments
of each attempt, which may differ. A call that the SDK refuses locally, or that the
network fails, is `Ledger`'s `CallFails`.

### RemoteCall

`pc` is the await `call()` is at; `Bounded` are those that `bounded` races
against the signal, which is the deadline, the caller's and the client's
together. Time is the call's own (`elapsed`).  The service (`Work`, `Refuse`)
may take effect and lose the answer, refuse before or after the effect, or
answer a request whose caller has gone; what it stores under a key is what
`Reservation` implements.  A call is of an endpoint that takes a key, of one
that takes none, or the negotiation of `createClient`, which is one request
without a retry under the same deadline and abort.

### Admission

One module for both cores: the Go core counts in variables that deferred
functions decrement, the Rust core holds permits; `Leave` is what either gives
back.  Every step in `Querying` needs a connection of the process's pool and
gives it back before it asks for another.  `CountQuota` is the upsert that all
processes share and whose commit may be in doubt.

### SelectorPool

`at` follows each candidate from the channel to the results; `Enter`, `LoadPeak`
and `SwapPeak` are the atomic instructions of `binaryActivity.enter`, and
`EnterRust` its counterpart where futures are polled one at a time.  The Go
core's deadline cancels calls and leaves the workers to post, the Rust core's
drops all futures.

### Ranking and Selection

`Ranking` is pure, and every sort in it and in `Catalog` is `Arranged` of `Sorting`:
by a first number, then by a second one that no two members share. That is the order
the comparators of the code define; an element's place is the number of those that
go before it. A tool is its position in the sorted catalog, a text its set of
tokens, a probability a percentage. `Selection` runs one request through the checks,
the one or two questions and the reduction, and adds what the provider checks of a
workflow and its trace.

### Catalog

`writer` is the uncommitted row of a version, for which other inserts wait; a
SELECT sees what was committed when it starts, or the own row.  `known` is a
ghost: what anybody had been told of the version when the request set out.  A
body that collides with another's digest is among the inputs, because the code
compares bodies and not only digests.

Three compilers check the schemas, and they do not take the same ones: the SDK's
profile with Ajv, which sees the inputs only, Go's (`validation.go:71-81`), which
follows `$schema` and resolves `$id`, and Rust's (`validation.rs:78-86`), which
reads each as Draft 2020-12.  `Compiles` has a set of schemas for each, with
nothing assumed between them, `Language` says which core a process runs, and
`Clashes` are the pairs of one `$id`, which one Ajv does not compile both.  Go and
Rust share `tg.catalogs`, so a preparation (`Lookup`, `Build`) may select a
tool whose schema its own core refuses; Rust answers 422 and Go 500.

### Grading and Evaluation

`Grading` is pure: `Matched`, `GroundedIds`, `VerifyState`, the three verdicts
and `LossAt` are functions of a record and a case.  A record has two lists of
calls, which need not agree: the trace, which the business keeps, and the calls
that the provider's handlers push; sequence, identifiers and evidence are read
from the first, wrong mutations from the second.  Which patterns an answer
matches is a choice; `Answers` restricts it by what the clarifications do with
the patterns of the case: they keep them, take one away (V3-08) or put others in
their place (V3-15, V3-20), which may reject what the old ones found.
`Evaluation` produces what they are applied to.  In a joint mode the core's
answers and diagnostics may be lost, the client tries once more and the agent
may prepare a second time; `host` is the provider's record and `history` a ghost
of what the core did, whoever learned of it.  In the direct mode an agent calls
the tools, some at once, and may give one call up that goes on, or begin while a
write of the cell before still runs (`Stray`); `late` counts both.  `desk` is
the business with its trace and the provider's calls, and `shown`, `done` are
ghosts of what the agent knew and did.  The runner takes the record, then the
trace, then the state, in three requests, and a late call may end between them
and be in one but not in the others.  The business is not part of the repository
and is modelled from how `tools/v3p2/provider.mjs` uses it.

### Runner

One module for v2, v3 and v3 part 2, which differ in batches, cell files, the
active mark and repetitions.  `report` dies with the session, `disk` stays.
`host` is the provider's record and the handlers it runs, which survive a
session's end; a handler whose call was given up goes on (`past.stray`) and may
raise the flag `uncertain` in the record of a later cell, as the code does; the
calls that it pushes there are in `Evaluation`.
`past` holds ghosts: all model calls, the sessions, how often each cell began.
`RepeatedSchedule` and `Schedule` are the orders in which the cells are visited,
with the rotations of the code.

## Runs

| Run | Instance | Question |
|---|---|---|
| `reservation` | three requests under one key, one with another body; lease 2, deadline 1, time 0..3; fair | does at most one commit, does every answer agree, is every request answered unless its process dies? |
| `reservation_duplicate` | three copies of one request | may two copies work at the same time? (yes: see below) |
| `service` | an operation: two tools, two arguments, an owner and a stranger, two authorization revisions, every subset of allowed tools; 4 revisions, time 0..3; and a catalog: three requests, a Go and a Rust process, schemas that only some compilers take, a cache of one schema, a crash | can the core ever answer with a wrong decision, or rewrite one? is a version one body for ever, and is nothing kept that was not checked? |
| `ledger` | two attempts, a successful and an error result, time 0..3; fair | does the handler run at most once, is nobody misled, and does a claimed execution come to an end? |
| `toolgate` | two attempts with any of two arguments, one pair of which only the core refuses; 3 revisions, time 0..1 | does the SDK's copy follow the core, and does only what was decided run? |
| `remote_call` | two calls with one key, or a negotiation beside a call without one, deadline 2, two kinds of refusal; fair | one effect per key, nothing sent late, every call answered? |
| `admission` | three requests at a Go and one at a Rust process, one scope; two global slots, one scope slot, one connection, a quota of one in two windows; fair | do slots and quota hold, and does every request leave? |
| `admission_burst` | the same with a quota of two in one window of two seconds | is the burst limit of `limits.yaml` enforced? (no: see below) |
| `selector_pool` | a selection of three candidates and a workflow of one, two workers, two permits, either core; fair | can partial answers, a deadline or the other batch spoil a result? |
| `selection` | four tools, scoring above two, three kept, two asked first, two shown and exposed; every distribution over a grid of percentages; two preparations; up to three calls of an agent, two at once, one of them given up or one write of the cell before still running, on two records | is a selection earned, is the best kept, does order matter, does the provider take it, is a loss where it happened, is a grade earned? |
| `runner` | one case, two modes, two repetitions, two turns, batches of two, a limit of four model calls, two sessions | do interrupted and resumed sessions cover each cell once, within the budget and in order? |
| `runner_join` | the same | is all admitted work joined before the next case? (no: see below) |

The bounds. The numbers of the code (128, 16, 600, 256, 22, 64, 32, 8, 5, 20) are
constants, and the instances make them one or two so that each limit is met. Rows of
different keys, operations and execution keys never meet, so one of each is enough.
Three requests are what the race of `tg.reserve` takes (a holder that releases, one
that has conflicted, one that inserts anew) and two attempts are one that runs and
one that races with it or comes later. A second request of a scope is what its limit
turns away, a third queues for the connection, and the Rust process counts in the
same quota row. A window and the next one show that counts do not carry over. Two
sessions are an interrupted one and its resumption; four cells and four model calls
let a report be completed by one session or cut short in any cell of it. `MaxStray`
bounds the calls a client gives up one at a time; an expired case or a dead session
gives up all of its own. `MaxCalls` and `MaxAtOnce` bound an agent: three calls
find, read and write, in each order, and two overlap; `MaxLate` lets one call run on
that nobody waits for. A list of three reads is one more than a batch of two takes.
The operation and the catalog of `service` share nothing but immutable rows, so each
is explored from the initial state of the other. The second preparation is about one
tool, which is enough for a tool to be lost twice in different places. The longest
chain of revisions is needs_choice, ready, needs_arguments, decision_issued, which
is 4; `toolgate` has every part of it that is 3 long. In every run the clock passes
each lifetime at least once (lease, deadline, operation, decision, receipt and
result); in `toolgate` an operation prepared at once expires at 1 and one prepared
at 1 does not, and `service` has the lifetimes that differ. `MaxClock`,
`MaxRevision`, `Windows`, `MaxCrashes`, `MaxSessions`, `MaxStray`, `MaxCalls`,
`MaxAtOnce` and `MaxLate` are the only bounds in the guards. `CHECK_DEADLOCK FALSE`
is set throughout because every system here is finite: it stops when all requests or
attempts have ended and the clock has reached its bound.

Fairness.  `WF(Serve(r))` and `WF(Proceed(a))` say that a process that is not
dead continues its goroutine, future or promise: each statement runs under a
context with a deadline and remote calls time out, so the step after it does
happen.  For the handler it assumes a handler that returns.  `RemoteCall`
assumes that timers fire and settled promises are continued, and nothing of
`apiKey()`, the transport or the service.  `Admission` assumes that a free
connection is lent and that a request which has what it needs goes on; its
timeouts are not assumed, so that `EveryRequestLeaves` excludes waiting in a
circle.  `SelectorPool` assumes that workers run and deadlines fire, and no
answer of the selector.  Nothing is assumed about crashes, the clock or the
network, and `Selection`, `Evaluation`, `Catalog`, `Operation`, `Toolgate` and
`Runner` are checked for safety only.

## What the runs show

Reservation.  `CommitOnce` and `AnswersAgree` hold through takeovers, lost
commits, late releases and the unlocked UPDATE, and `ImplementsOnceStore` shows
that callers see a store which applies each key once. `OwnersExclusive` and
`AnswerFitsRequest` are stated for keys under which no request took the unlocked
branch, because there they fail:

*The unlocked UPDATE (a divergence from the contract).*  Between the INSERT that
conflicts (`001_core.sql:65`) and the SELECT FOR UPDATE (line 69) the holder can
release its row.  The SELECT then finds nothing, the comparisons with NULL are
not true, the UPDATE changes nothing and the function returns `owned`.  The
request works without a row, and another copy can insert one and work at the
same time, although `shared/CONTRACT.md:71` says "Concurrent duplicate work
returns REQUEST_IN_PROGRESS rather than starting another inference".  The fence
test of finish still lets only one of them publish.  The run
`reservation_duplicate` exhibits it with `NoConcurrentDuplicateWork`.

Operation.  `GrantsAreValid`: whatever the sequence of calls, each decision the
core answers with, as the first, again or out of the idempotency store, is the
stored one, given to its owner while the operation lives, no longer than the
operation and between MinLife and DecisionLife in all.  What the handler answers
is also within its window at that moment.  A replay need not be: the guard before
the store (`app.go:359`) looks at the operation's 15 minutes and never at the
decision's 60 seconds, so a request that is repeated under its key can be answered
with a decision that is over.  The SDK looks at `not_after` itself
(`provider.ts:541-556`).
`DecisionIsAuthorised`, `SettledForever` and `RevisionNamesView` say who can
bring an operation where, and what can never change again.

Ledger.  `AtMostOneRun`, `CallersAreWarned`, `AnswersAreTheRuns` and
`RevocationHolds` relate runs, row, callers and the time of a revocation;
`ImplementsAtMostOnce` shows the attempts to be one handler that runs at most
once.  `RowSettles` is as strong as the code allows: a row whose process dies
after the claim stays claimed for ever (nothing takes it over), and so does one
whose store call fails.  Two behaviours worth knowing which the model shows and
no document contradicts: after `failed_before_dispatch` every later attempt is
told EXECUTION_UNKNOWN, although nothing ran; and the last look at `not_after`
precedes the dispatch transaction, so a handler can start after it.

Toolgate.  `SnapshotFollowsCore` holds because a revision names one content
(`RevisionNamesView`) and `put()` compares revisions.  The
snapshot may lag: when the answer of a needs_arguments request is lost, a call
with other arguments meets REVISION_CONFLICT until the same arguments are sent
again and the core's stored response arrives.  `OnlyTheDecidedRuns` joins both
sides: what runs is the decided tool with the decided arguments, once, and
nobody is given its result for other arguments.  `ImplementsLedger` discharges
what `Ledger` assumes of its environment: its `Issue` is the core's `Decide`, a
decision reaches an attempt only afterwards, and a decided snapshot stays
decided, so the theorems about `Ledger` speak of the composed system.

Remote client.  `OneEffectPerKey` holds through lost answers, refusals after an
effect and calls that share a key;
`NothingSentAfterTheEnd` is about the gap between the key's arrival and the
request, and `EveryCallSettles` shows that no promise of the caller, the
transport or the service can hold a call.

Admission.  `SlotsAreHeld` equates counters and permits with the requests that
are there, through every refusal, timeout, doubtful commit and crash;
`QuotaHolds` is across processes and crashes; `EveryRequestLeaves` needs one
connection and no timer.

*The burst limit (a divergence from the limits file).*  `shared/limits.yaml:52`
lists `burst_per_second: 20` and lines 54-55 ask that limits are never silently
disabled.  Both cores count by the minute only, so a scope may spend its whole
quota within one second: `admission_burst` exhibits it with `BurstHolds`.

Selector pool.  `NothingFromPartialAnswers` holds because a batch joins all its
candidates before it concludes, and makes the reported error independent of
timing; `NothingOutlivesTheBatch`, `MetricsAreTrue` and `EveryBatchReturns` hold
for both ways of cancelling.

Selection.  `SelectionIsEarned`, `BestIsNeverHidden`, `OrderDoesNotDecide` and
`WorkflowIsTaken` state the result without the ranking operators that compute
it.  Two observations the instance gives: with one question for all candidates
the margin never decides, since 70 of 100 percent lead by 40 already, and
matters only where each candidate has its question; and the Rust core retrieves
and traces a workflow with no allowed tool, where the Go core returns at once.

Evaluation.  `LossIsWhereItHappened` compares the label of each tool with what
the core did in the attempts whose answers arrived: nothing is guessed of an
attempt that is not known, and a tool is called exposed if and only if the agent
was offered it.  `GradeIsEarned` states the verdicts without the graders.  Where
every call was waited for, part 2's success is exactly a complete answer to what
was written, attempted, known and shown, whatever was reported of the calls.  The
clarifications give no success that was not earned; they can take one away, and
only where they replaced the patterns of the case.  For example V3-20's old
`/15550103030/` finds `0015550103030`, which the new pattern rejects, and V3-15's old
`/0 events/` finds "10 events" (`final-evaluation.mjs:43-49`).  The greedy matching of
reference steps finds every match there is, because the dependencies of a step
precede it, and what v3 calls a success of a write has the change that v2 looks
for and no write it calls wrong, also with late calls.  With a late call a
success need not be earned in this sense: an attempted write that ends after the
record was taken is in none of its calls, and a read that the trace misses is in no
check of identifiers.  The instance reaches such successes; the property claims
nothing of them.

Catalog.  `VersionsAreImmutable` and `OnlyTheCheckedIsKept` hold for concurrent
uploads of equal and of colliding bodies; an upload answered with an error may
have stored its body, which a repeated upload then confirms.  Since the compilers
differ, what a registry built can be refused by a core (for one of its schemas,
and for nothing else), and what one core stored can be refused by a preparation
in the other; no process refuses to prepare from what its own kind of core stored.

Runner.  `EveryCellOnce` holds for each version as strongly as its files allow: part
2 refuses to resume an interrupted cell and so never runs one twice; v2 and v3 run
it again, and what its first run had spent is in no record.  That is why
`SpendingIsBounded` has a cell's turns for each interruption before part 2 and for
one cell in it.  `CallsKeepTheirOrder` is about the calls the runner still awaits.

*The join before the next case (a divergence from the documents).*
`docs/V3-WORKFLOWS.md:62-63` says "All admitted work is joined before the next
case" and `tools/v3/calls.mjs:13` "Join all admitted work before propagating a host
failure or resetting state".  What `executeCalls` joins is `client.callTool`, which
settles with an error at its own request timeout or when the cell's signal aborts
(`tools/v3/run.mjs:311-321`); the handler goes on in the provider, past the turn, the
record and the reset.  The run `runner_join` exhibits it with
`JoinedBeforeTheNextCase`.  What follows from it for the grades is in `Evaluation`: the
handler pushes its call into the record that is current when it ends, and its write
is in the next cell's state if that is read later.

## What is proved

Every safety property of the passing runs is proved for all values of the constants.
The theorems hold for any number of requests, keys, attempts, batches, tools, cells,
principals, and any durations and limits that satisfy the named assumptions in the
modules. The assumptions are typing, that `None` is none of the values it stands in
for, that the requests of `Admission` and the batches of `SelectorPool` are finite
sets, and two that matter: `Deadline < Lease` (3 s and 10 s in the code) for
`OwnersExclusive`, and `MinLife > 0`. `Ranking` assumes that scoring starts at no
more tools than are kept and that a choice shows at least two; `Evaluation` that the
effect of a tool is that of what it does and that a case is one the corpus could
have: its steps depend on earlier ones ("acyclic dependencies",
`tools/tests/v3.test.mjs`), its tool does what its goal names, and a write is of a
record that is there (`tools/v3/state.mjs` throws otherwise) and for a content that
it has not; the writes that a cell leaves running are finitely many and well-formed.
`Toolgate` assumes what its two components assume. The bounds on time, revisions,
sessions and stray handlers are any naturals, so they restrict nothing that a proof
uses.

Each `*Proofs` module has an inductive invariant (`IInv`; `PreparationProofs` has one
for each of its subjects), shows that it holds initially and is kept by every action,
and derives the properties.  What the invariants add, and why:

`ReservationProofs`.  `IInv` adds to the properties that committed work and
stored responses are the same thing (`StoredInv`), that a request at work within
its deadline holds the fence under a lease that outlives the deadline
(`OwnerInv`), and that a row's hash is that of the request whose fence or
response it carries (`HashInv`).  `CommitOnce` alone is not inductive: a second
commit is excluded only because the first one left its response in the row.  The
refinement to `OnceStore` maps `Publish` to TakeEffect, `ReplayRow` to Replay
and all else to stuttering.

`PreparationProofs`, the catalog. `IInv` adds how far the checks of a body have come
at each place (`BodyInv`), that an uncommitted row excludes every other of its
version (`RowInv`) and that a transaction behind its INSERT has a row to find, which
stays the one it found (`FoundInv`). `VersionsAreImmutable` needs all three: an
answer 200 speaks of the row that was found, and no second row replaces it.
`OnlyTheCheckedIsKept` needs that the registry's sort ascends (`SortedIsSorted`),
that a row was compiled by the process of the request that inserted it, which has
ended and stays what it was, and that what a preparation has found is still stored.
Nothing is assumed of `Digest`, which may collide, nor of the three compilers.

`PreparationProofs`, sorting.  `ArrangedIsSorted` says that what a sort leaves has every
member once and in order: the numbers of members that precede a member are distinct
and less than the size of the set, so each place is taken, by the pigeonhole theorem
and without an induction.  `ArrangedIsUnique` says that it is the only such list, which
is what makes a result independent of the order it is computed from.

`PreparationProofs`, preparations. `SelectionInv` says that the candidates are what
retrieval gives for the request (`CandidatesInv`), that a view is what the last
answers give, or nobody was asked (`ViewInv`), and that the header tells of those
candidates and that view (`TraceInv`); it is an invariant of `EvaluationSpec`,
through retries and second preparations. The four properties of `Selection` are then
statements about operators, proved from lemmas on what each returns: retrieval, one
per sort (`RetrieveReturns`), the judgement of a distribution (`JudgeSelects`,
`ChoiceShowsBest`), the reduction of single answers (`ReduceSelects`) and the
exposure of a workflow (`ExposeReturns`). `OrderDoesNotDecide` is the only one that
needs a bijection: the positive answers in the other order are the same sort of the
same set, seen through it (`PositivesAreTheSame`).

`PreparationProofs`, losses.  `LossInv` says that the provider's record tells of every
attempt whose answer arrived and of no other (`RecordInv`), that each event points at
the diagnostics of its own preparation (`EventsInv`), and that a preparation which ended
leaves nothing under way (`JointInv`).  It needs `SelectionInv`, because the stages in the
header are those of the view.  `LossIsWhereItHappened` follows case by case of the label.

`PreparationProofs`, grades. `DeskInv` types the desk, and says for an agent all of
whose calls are waited for (`JoinedInv`) that the provider's calls are those of the
trace, that what it knows of a record is what the trace had shown of it when the
call began (`KnownInv`), and what the records are as a function of what was done:
after updates of one record what the last of them wrote (`UpdateInv`), after
deletions of one record that there was one of them (`DeleteInv`), after creations as
many new records as there were creations, each with its content (`CreateInv`). The
hypotheses of these three are what an empty list of improper mutations means, so the
state check of the graders and `Earned` agree on each goal (`StateIsAsAsked`), and
with them a verdict and what was earned (`VerdictIsEarned`). The clauses that hold
with late calls too need none of this: `OnlyPatternsTake` compares the two verdicts
of one record, and `SuccessIsPersisted` follows from what v3 reads of the state and
of the calls. That the greedy matching finds every match is `FirstMatchesSuffice`:
in the first step where it would find none, or a later call than another matching
does, the earlier steps are matched no later, so the other one's call fits. The
recursive function of the matching exists by the same least counterexample
(`MatchesExist`).

`ToolgateProofs`, the core. `Operation`'s `IInv` adds that the parts of a view fit
its status (`ViewInv`), that nothing precedes prepare, the window of the stored
decision (`DecisionWindow`, which a repeated grant inherits) and that a receipt
needs a decision. The action properties follow from it, step by step.

`LedgerProofs`.  `IInv` adds what each place implies of the row and the runs
(`OwnerInv`), that only a terminal row has a result and whose it is
(`ResultInv`), what callers have been told (`AnswerInv`) and where an attempt
can still get to after a revocation (`StandingInv`).  `AtMostOneRun` needs
`OwnerInv`: an attempt past its claim is the fence of the row, and the fence is
never rewritten.  The refinement to `AtMostOnce` maps `Invoke` to Run, `Record`
to Keep, `Replay` and `Repermit` to Tell.

`ToolgateProofs`, the composition.  The system implements `Operation` (`ImplementsCore`)
and `Ledger` (`LedgerRefined`), each step being a step of the component or a
stutter; the theorems about `Operation` and, instantiated, those of `LedgerProofs` then
hold of it (`PromisesHold`).  Its own `JoinInv` says that every copy of a view (in
the mail, in a response that is kept, in the snapshot) is the core's view of its
revision or of an older one (`CopiesInv`), what an attempt has read and was
answered (`ReadInv`, `AnsweredInv`) and that an attempt which holds the decision
has the decided arguments (`FittedInv`).  Both components' invariants are needed
beside it: `Ledger`'s step `Issue` is possible only because the core decides once.

`RemoteProofs`.  `IInv` says that the effects under a key and the stored answer
are of one request (`StoreInv`), which attempt may still reach the service and
what it carries (`AttemptInv`), and what has been answered (`AnswerInv`).
`OneEffectPerKey` needs the first: a second request of a key meets the stored
answer.  `OneAnswer` (calls of one key are answered alike) and `TwoAttempts` (at
most two requests, all of them reported) are proved and have no run of their own.

`AdmissionProofs`.  `SlotsAreHeld` is inductive with the types, by cardinalities
of the sets of requests that hold a slot.  `QuotaInv` adds to `QuotaHolds` that
the row counts at least the requests which have passed in its window, and that a
count in doubt is never below what was admitted.

`SelectorPoolProofs`.  The invariant is one of the semaphore (`SlotsInv`: its
places are those of the calls that run) and one of each batch (`BatchInv`: where
every candidate is, that activity counts the calls, that the peak is at least
what a compare-and-swap has seen and is one that was reached, and when a batch
may conclude).  Batches meet only at the semaphore, so a step of one keeps the
invariant of the others by a frame lemma.

`RunnerProofs`.  `WalkInv` says that a session has recorded every cell before
the one it is at, not yet this one, and knows exactly what the disk holds;
`DiskInv` that a report is sound and complete only when it says so; `OnceInv`
that, in part 2, a cell which has begun is recorded or marked on disk.  From
these follows `EveryCellOnce`, with the lemma that the schedules visit every case
in every mode and repetition (`PlanIsFull`): the rotations by 7 and by position
are undone by quotients and remainders.  `CallsInv` equates the handlers that run
with the calls that are awaited or were given up, and orders them behind the
session's position, so that a new call is none of them.  `SpendInv` bounds all
calls ever made by what the disk accounts for and what was lost, and gives
`SpendingIsBounded`; that a report's sum grows by its last record is an
induction over the sequence, in the form of a least counterexample.

`StoredResponseIsFinal`, `ReceiptIsFinal`, `RowIsFinal`, `LedgerIsHonest`, the
type invariants and the inductive invariants of `RunnerProofs` and `PreparationProofs`
are proved and have no run of their own.

Only model-checked: the liveness properties (`EveryRequestEnds`, `RowSettles`,
`EveryCallSettles`, `EveryRequestLeaves`, `EveryBatchReturns`), since neither fairness
nor ENABLED is in the reach of the prover, and the three runs that expect a violation.

## Abstractions

- Digests and HMACs are injective: a value stands for its digest.  A `Valid` set
  of tool and argument pairs stands for the schema validators, and `LocallyValid`
  for the SDK's, which need not agree.
- One clock is shared by core, provider and databases; `Tick` can happen between
  any two steps, so delays are covered, differing clocks are not.
- Rows whose lifetime has ended are never deleted: no code does.
- Intermediate answers that change no state (inspect, refusals) are no steps.
- Tokenising, hashing and the selector's wire format are left out: `Replies` are the
  answers as they are read.  Percentages stand for binary fractions, so a
  comparison at a threshold is exact here.
- The children of a workflow are stored in the transaction of its request, so
  they appear together; each is an `Operation`.
- Costs in dollars and calls of the selector are limits of the runners beside that
  on model calls, computed and tested in the same place; one stands for all.
- In `Toolgate` all calls are of one actor; strangers are in `Operation`.

## Not modelled

JSON parsing, canonical JSON and JSON Schema are conversions over unbounded
inputs without state.  Configuration does not change after start-up.
The first driver, `tools/run-experiment.mjs`, starts a
process per cell and rewrites its report in place; the runners modelled here
replaced it. HTTP, TLS, health checks and process start-up are I/O.
Authentication and row-level security select the scope that every module works
in.  The statistics, reports and conformance scripts and the recorded experiments are
offline.  What the patterns of an answer match is an input of `Grading`, and the
answer's wording is not modelled.  Which schemas each compiler takes is a constant of
`Catalog`.

## Status

Every module of the list above is written, every safety property of a passing run is
proved, and the three divergences are exhibited by runs.  What could follow: the rest of
the runners' tools and the conformance scripts, if they come to keep state, and the
liveness properties, once the prover has fairness.

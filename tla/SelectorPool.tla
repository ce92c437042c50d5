----------------------------- MODULE SelectorPool -----------------------------
(***************************************************************************)
(* One request of a core asks the selector one yes/no question per         *)
(* candidate (binary-parallel-v1): selectBinary, and the same pool in      *)
(* workflow.  A batch is such a request; the batches of one process share  *)
(* the selector's `inflight` semaphore.  In the Go core a few workers take *)
(* the candidates from a channel and post results to another, which the    *)
(* request gathers; the batch's deadline cancels the calls but not the     *)
(* workers.  In the Rust core each candidate is a future of one join_all   *)
(* and the deadline drops all of them.                                     *)
(***************************************************************************)
EXTENDS Naturals, FiniteSets, FiniteSetsExt

CONSTANTS Batches,
          Size,            \* how many candidates each has
          Workflows,       \* the batches that prepare workflows
          Cores,           \* the cores the process may be: "go", "rust"
          Workers,         \* goroutines of a batch: at most 22
          Inflight,        \* capacity of the semaphore: 22
          Replies,         \* what the selector's answers are read as
          None

ASSUME PoolAssumption == /\ {Workers, Inflight} \subseteq Nat \ {0} /\ Size \in [Batches -> Nat \ {0}]
                         /\ Workflows \subseteq Batches /\ Cores \subseteq {"go", "rust"}
                         /\ Replies \subseteq {"yes", "no", "unavailable", "invalid"}
                         /\ None # [kind |-> "error", code |-> "deadline"]

VARIABLES core,      \* which of the two this process is
          at,        \* where each candidate of each batch is
          slots,     \* the semaphore: who holds it
          active, peak,   \* binaryActivity of each batch
          local,     \* n and old of enter(), on the stack of a worker
          answer,    \* the result of each candidate's call
          dead,      \* batches whose deadline has passed
          calls,     \* metrics.Calls of each batch
          outcome,   \* what each batch returned
          started, highest   \* ghosts: calls made, and the most at once

vars == <<core, at, slots, active, peak, local, answer, dead, calls, outcome,
          started, highest>>

Candidates(b) == 1..Size[b]
Busy == {"acquire", "enter", "load", "swap", "call"}   \* a worker is at it
Rust == core = "rust"
Verdicts == {"yes", "no"}
Errors == {"unavailable", "invalid", "deadline"}

Places == Busy \cup {"queued", "posted", "gathered"}
TypeOK ==
    /\ core \in Cores
    /\ DOMAIN at = Batches /\ \A b \in Batches : at[b] \in [Candidates(b) -> Places]
    /\ DOMAIN local = Batches /\ \A b \in Batches : local[b] \in [Candidates(b) -> Nat \X Nat]
    /\ DOMAIN answer = Batches
    /\ \A b \in Batches : answer[b] \in [Candidates(b) -> Verdicts \cup Errors \cup {None}]
    /\ slots \subseteq UNION {{b} \X Candidates(b) : b \in Batches} /\ IsFiniteSet(slots)
    /\ {active, peak, calls, started, highest} \subseteq [Batches -> Nat]
    /\ dead \in SUBSET Batches /\ DOMAIN outcome = Batches

Init == /\ core \in Cores
        /\ at = [b \in Batches |-> [i \in Candidates(b) |-> "queued"]]
        /\ slots = {}
        /\ active = [b \in Batches |-> 0] /\ peak = [b \in Batches |-> 0]
        /\ local = [b \in Batches |-> [i \in Candidates(b) |-> <<0, 0>>]]
        /\ answer = [b \in Batches |-> [i \in Candidates(b) |-> None]]
        /\ dead = {}
        /\ calls = [b \in Batches |-> 0]
        /\ outcome = [b \in Batches |-> None]
        /\ started = [b \in Batches |-> 0] /\ highest = [b \in Batches |-> 0]

Move(b, i, place) == at' = [at EXCEPT ![b][i] = place]
\* The results channel has room for all: posted candidates are in it.
Post(b, i, result) == /\ Move(b, i, "posted")
                      /\ answer' = [answer EXCEPT ![b][i] = result]
-----------------------------------------------------------------------------
(* The workers *)

\* A free worker takes the next candidate from the channel; past the deadline it
\* does not ask.  A future of the Rust core needs no worker.
Take(b, i) ==
    /\ at[b][i] = "queued" /\ outcome[b] = None
    /\ ~Rust => /\ \A j \in 1..i - 1 : at[b][j] # "queued"
                /\ Cardinality({j \in Candidates(b) : at[b][j] \in Busy}) < Workers
    /\ IF b \in dead /\ ~Rust
       THEN Post(b, i, "deadline")
       ELSE Move(b, i, "acquire") /\ UNCHANGED answer
    /\ UNCHANGED <<core, slots, active, peak, local, dead, calls, outcome, started, highest>>

Acquire(b, i) ==
    /\ at[b][i] = "acquire"
    /\ Cardinality(slots) < Inflight
    /\ slots' = slots \cup {<<b, i>>}
    /\ Move(b, i, "enter")
    /\ UNCHANGED <<core, active, peak, local, answer, dead, calls, outcome, started, highest>>

\* ctx.Done() while waiting for the semaphore.
GiveUp(b, i) ==
    /\ at[b][i] = "acquire" /\ b \in dead /\ ~Rust
    /\ Post(b, i, "deadline")
    /\ UNCHANGED <<core, slots, active, peak, local, dead, calls, outcome, started, highest>>

\* enter(), statement by statement: active.Add(1) ...
Enter(b, i) ==
    /\ at[b][i] = "enter" /\ ~Rust
    /\ active' = [active EXCEPT ![b] = @ + 1]
    /\ local' = [local EXCEPT ![b][i] = <<active[b] + 1, 0>>]
    /\ highest' = [highest EXCEPT ![b] = IF active[b] + 1 > @ THEN active[b] + 1 ELSE @]
    /\ Move(b, i, "load")
    /\ UNCHANGED <<core, slots, peak, answer, dead, calls, outcome, started>>

Send(b, i) == /\ Move(b, i, "call")
              /\ started' = [started EXCEPT ![b] = @ + 1]

\* ... peak.Load() ...
LoadPeak(b, i) ==
    /\ at[b][i] = "load"
    /\ local' = [local EXCEPT ![b][i] = <<local[b][i][1], peak[b]>>]
    /\ IF peak[b] >= local[b][i][1] THEN Send(b, i) ELSE Move(b, i, "swap") /\ UNCHANGED started
    /\ UNCHANGED <<core, slots, active, peak, answer, dead, calls, outcome, highest>>

\* Seeded fault: a plain store in place of the compare-and-swap.
StorePeak(b, i) ==
    /\ at[b][i] = "swap"
    /\ peak' = [peak EXCEPT ![b] = local[b][i][1]]
    /\ Send(b, i)
    /\ UNCHANGED <<core, slots, active, local, answer, dead, calls, outcome, highest>>
\* ... and peak.CompareAndSwap, which goes round when another call raised it.
SwapPeak(b, i) ==
    /\ at[b][i] = "swap"
    /\ IF peak[b] = local[b][i][2]
       THEN peak' = [peak EXCEPT ![b] = local[b][i][1]] /\ Send(b, i)
       ELSE Move(b, i, "load") /\ UNCHANGED <<core, peak, started>>
    /\ UNCHANGED <<core, slots, active, local, answer, dead, calls, outcome, highest>>

\* The Rust core polls its futures one at a time: counted when it is sent.
EnterRust(b, i) ==
    LET n == active[b] + 1 IN
    /\ at[b][i] = "enter" /\ Rust
    /\ calls' = [calls EXCEPT ![b] = @ + 1]
    /\ active' = [active EXCEPT ![b] = n]
    /\ peak' = [peak EXCEPT ![b] = IF n > @ THEN n ELSE @]
    /\ highest' = [highest EXCEPT ![b] = IF n > @ THEN n ELSE @]
    /\ Send(b, i)
    /\ UNCHANGED <<core, slots, local, answer, dead, outcome>>

\* leave(), the semaphore, and the result: the deferred calls of choose().
Finish(b, i, result) ==
    /\ at[b][i] = "call"
    /\ Post(b, i, result)
    /\ active' = [active EXCEPT ![b] = @ - 1]
    /\ slots' = slots \ {<<b, i>>}
    /\ UNCHANGED <<core, peak, local, dead, calls, outcome, started, highest>>

\* The selector answers, well or not, or the connection fails.
Reply(b, i) == \E result \in Replies : Finish(b, i, result)
\* Seeded fault: the call is made without the batch's context.
NeverCancelled(b, i) == FALSE /\ Finish(b, i, "deadline")
\* The deadline cancels the call.
Cancelled(b, i) == b \in dead /\ ~Rust /\ Finish(b, i, "deadline")
-----------------------------------------------------------------------------
(* The request *)

\* The Go core adds the metrics of a candidate when it receives its result.
Gather(b) ==
    /\ outcome[b] = None
    /\ \E i \in Candidates(b) :
          /\ at[b][i] = "posted"
          /\ Move(b, i, "gathered")
          /\ calls' = [calls EXCEPT ![b] =
                          @ + IF ~Rust /\ local[b][i] # <<0, 0>> THEN 1 ELSE 0]
    /\ UNCHANGED <<core, slots, active, peak, local, answer, dead, outcome, started, highest>>

Failed(b) == {i \in Candidates(b) : answer[b][i] \in Errors}

\* Seeded fault: the request returns with its first error.
JoinedOrFailed(b) == \/ \A i \in Candidates(b) : at[b][i] = "gathered"
                     \/ \E i \in Failed(b) : at[b][i] = "gathered"
Joined(b) == \A i \in Candidates(b) : at[b][i] = "gathered"

\* Seeded fault: the error that is at hand when the request looks.
ConcludeAnyError(b) ==
    IF Failed(b) # {} THEN [kind |-> "error", code |-> answer[b][Max(Failed(b))]]
    ELSE IF b \in Workflows THEN [kind |-> "set", tools |-> {i \in Candidates(b) : answer[b][i] = "yes"}]
    ELSE [kind |-> "answers", of |-> answer[b]]
\* The first error in the order of the candidates; else reduceBinary is given all
\* answers, and a workflow the included tools.
Conclude(b) ==
    IF Failed(b) # {} THEN [kind |-> "error", code |-> answer[b][Min(Failed(b))]]
    ELSE IF b \in Workflows THEN [kind |-> "set", tools |-> {i \in Candidates(b) : answer[b][i] = "yes"}]
    ELSE [kind |-> "answers", of |-> answer[b]]

Return(b) ==
    /\ outcome[b] = None
    /\ Joined(b)
    /\ outcome' = [outcome EXCEPT ![b] = Conclude(b)]
    /\ UNCHANGED <<core, at, slots, active, peak, local, answer, dead, calls, started, highest>>

Deadline(b) ==
    /\ b \notin dead /\ outcome[b] = None
    /\ dead' = dead \cup {b}
    /\ UNCHANGED <<core, at, slots, active, peak, local, answer, calls, outcome, started, highest>>

\* The Rust core's timeout drops every future with its permit and its span.
Drop(b) ==
    /\ Rust /\ b \in dead /\ outcome[b] = None
    /\ outcome' = [outcome EXCEPT ![b] = [kind |-> "error", code |-> "deadline"]]
    /\ at' = [at EXCEPT ![b] = [i \in Candidates(b) |-> "gathered"]]
    /\ slots' = {s \in slots : s[1] # b}
    /\ active' = [active EXCEPT ![b] = 0]
    /\ UNCHANGED <<core, peak, local, answer, dead, calls, started, highest>>

WorkerStep(b, i) == \/ Take(b, i) \/ Acquire(b, i) \/ GiveUp(b, i) \/ Enter(b, i)
                    \/ LoadPeak(b, i) \/ SwapPeak(b, i) \/ EnterRust(b, i) \/ Cancelled(b, i)

Next == \E b \in Batches :
           \/ \E i \in Candidates(b) : WorkerStep(b, i) \/ Reply(b, i)
           \/ Gather(b) \/ Return(b) \/ Deadline(b) \/ Drop(b)

\* Goroutines and tasks run and timers fire; the selector owes no answer.
Fairness == \A b \in Batches :
    /\ WF_vars(Gather(b)) /\ WF_vars(Return(b)) /\ WF_vars(Deadline(b)) /\ WF_vars(Drop(b))
    /\ \A i \in Candidates(b) : WF_vars(WorkerStep(b, i))

Spec == Init /\ [][Next]_vars
LiveSpec == Spec /\ Fairness
-----------------------------------------------------------------------------
(* Properties *)

\* "Partial successful responses never authorize selection": a batch that decides
\* has an answer of every candidate and decides on all of them; one that fails
\* reports the first failure in catalog order, not the first to arrive.
NothingFromPartialAnswers ==
    \A b \in Batches : outcome[b] # None =>
        \/ /\ outcome[b].kind = "answers"
           /\ outcome[b].of \in [Candidates(b) -> Verdicts]
        \/ /\ outcome[b].kind = "set"
           /\ answer[b] \in [Candidates(b) -> Verdicts]
           /\ outcome[b].tools = {i \in Candidates(b) : answer[b][i] = "yes"}
        \/ /\ outcome[b].kind = "error"
           /\ \/ Rust /\ outcome[b].code = "deadline"
              \/ \E i \in Failed(b) : /\ outcome[b].code = answer[b][i]
                                      /\ \A j \in 1..i - 1 : answer[b][j] \in Verdicts

\* "It joins cancelled requests before returning": a batch that has returned has
\* no call under way and holds nothing of the semaphore, which never lends more than
\* it has.
NothingOutlivesTheBatch ==
    /\ Cardinality(slots) <= Inflight
    /\ \A b \in Batches : outcome[b] # None =>
          /\ active[b] = 0
          /\ \A i \in Candidates(b) : at[b][i] \notin Busy /\ <<b, i>> \notin slots

\* The peak that is reported is the most calls that were under way at once, and
\* the calls reported are those that were made, cancelled ones included.
MetricsAreTrue ==
    \A b \in Batches : outcome[b] # None =>
        peak[b] = highest[b] /\ calls[b] = started[b]

\* Every batch returns, even when the selector never answers and other batches
\* hold the semaphore.
EveryBatchReturns == \A b \in Batches : <>(outcome[b] # None)
=============================================================================

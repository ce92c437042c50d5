------------------------------ MODULE RemoteCall ------------------------------
(***************************************************************************)
(* The HTTP clients of the SDK.  A call of RemoteClient makes one attempt  *)
(* and, when the service answers that trying again may help, a second one  *)
(* under the same Idempotency-Key, all of it inside one deadline; the      *)
(* negotiation client of createClient makes one.  The calls of a client    *)
(* share close().  The service is what OnceStore promises of a keyed       *)
(* store; the network may lose, delay and garble answers, and the service  *)
(* may work on a request its caller has given up.                          *)
(***************************************************************************)
EXTENDS Naturals, FiniteSets

CONSTANTS Calls,
          CallKey,   \* the Idempotency-Key each call is made with
          Aims,      \* the endpoints that the calls may be about, [Calls -> Endpoints]
          Timeout,   \* timeoutMs, in ticks
          Pause,     \* the 50 ms between attempts, in ticks
          Refusals,  \* error answers of the service
          None

\* A refusal is an HTTP status, the retryable flag of its body and the pause
\* its Retry-After header asks for (None without the header).
Refusal == [status : Nat, retryable : BOOLEAN, after : Nat \cup {None}]

\* The methods of RemoteClient, by their HTTP method, and that of createClient.
Methods == [getCapabilities |-> "GET", putCatalog |-> "PUT", getCatalog |-> "GET",
            prepareWorkflow |-> "POST", prepare |-> "POST", resolve |-> "POST",
            createExecutionDecision |-> "POST", inspect |-> "POST", cancel |-> "POST",
            receipt |-> "POST", negotiate |-> "GET"]
Endpoints == DOMAIN Methods

ASSUME CallAssumption == /\ Timeout \in Nat \ {0} /\ Pause \in Nat
                         /\ Refusals \subseteq Refusal
                         /\ DOMAIN CallKey = Calls
                         /\ Aims \subseteq [Calls -> Endpoints]

VARIABLES endpoint,  \* what each call is about
          pc,        \* new, key, keyed, sent, read, pause, done
          attempts,  \* its `attempts`
          elapsed,   \* performance.now() - started
          wake,      \* when its pause ends
          fired,     \* calls whose deadline timer has fired
          aborted,   \* calls whose caller aborted its signal
          closed,    \* clients whose close() has been called
          sent,      \* requests handed to the transport, <<call, attempt>>
          effects,   \* the service's store: what took effect, [key, by]
          reply,     \* the service's answer to each request
          outcome,   \* what each call was answered with
          metric     \* what onRequest was told of each call

client == <<endpoint, pc, attempts, elapsed, wake, fired, aborted, closed, outcome, metric>>
vars == <<endpoint, pc, attempts, elapsed, wake, fired, aborted, closed, sent, effects,
          reply, outcome, metric>>

Attempts == 1..2
Requests == Calls \X Attempts
Ok(v) == [kind |-> "ok", value |-> v]
Refused(f) == [kind |-> "refused", failure |-> f]
Garbled == [kind |-> "garbled"]
Lost == [kind |-> "lost"]
Codes == {"CLIENT_CLOSED", "REQUEST_ABORTED", "DEADLINE_EXCEEDED", "INVALID_CREDENTIAL",
          "INVALID_RESPONSE", "TRANSPORT_ERROR", "RETRY_EXHAUSTED"}
Error(code) == [kind |-> "error", code |-> code]

Init == /\ endpoint \in Aims
        /\ pc = [c \in Calls |-> "new"]
        /\ attempts = [c \in Calls |-> 0]
        /\ elapsed = [c \in Calls |-> 0]
        /\ wake = [c \in Calls |-> None]
        /\ fired = {} /\ aborted = {} /\ closed = {}
        /\ sent = {} /\ effects = {}
        /\ reply = [r \in Requests |-> None]
        /\ outcome = [c \in Calls |-> None]
        /\ metric = [c \in Calls |-> None]
-----------------------------------------------------------------------------
(* The helpers of call() *)

ClientOf(c) == IF endpoint[c] = "negotiate" THEN "negotiation" ELSE "remote"
Closed(c) == ClientOf(c) \in closed

\* AbortSignal.any: the deadline, the client's lifecycle, the caller's signal.
Signal(c) == Closed(c) \/ c \in aborted \cup fired

AbortCode(c) == IF Closed(c) THEN "CLIENT_CLOSED"
                ELSE IF c \in aborted THEN "REQUEST_ABORTED" ELSE "DEADLINE_EXCEEDED"

\* catch and finally: an abort outranks the error at hand; onRequest is told, which
\* the negotiation client does not have.
Settle(c, answer) ==
    /\ pc' = [pc EXCEPT ![c] = "done"]
    /\ outcome' = [outcome EXCEPT ![c] =
                     IF answer.kind # "ok" /\ Signal(c) THEN Error(AbortCode(c)) ELSE answer]
    /\ metric' = IF ClientOf(c) = "remote" THEN [metric EXCEPT ![c] = attempts[c]] ELSE metric

\* Seeded fault: a new key for every attempt.
FreshKey(c, n) == <<CallKey[c], n>>
\* The Idempotency-Key header of attempt n.
HeaderKey(c, n) == CallKey[c]
\* It is sent with what changes an operation; a catalog version is its own key.
Keyed(c) == Methods[endpoint[c]] = "POST" /\ endpoint[c] # "inspect"

Stored(key) == {e \in effects : e.key = key}

\* The refusal may be answered by another attempt.
MayRetry(c, f) ==
    /\ attempts[c] = 1
    /\ f.retryable
    /\ f.status \in {409, 429, 503, 504}

Delay(f) == IF f.after = None THEN Pause ELSE f.after

InTime(c, f) == elapsed[c] + Delay(f) < Timeout
-----------------------------------------------------------------------------
(* The call *)

\* What is wrong with the caller's arguments, or nothing.
Rejections(c) == {None, "INVALID_REQUEST"}
    \cup (IF Methods[endpoint[c]] = "GET" THEN {} ELSE {"PAYLOAD_TOO_LARGE"})

\* The checks before the deadline is armed; a call refused here has no metric.
Begin(c) ==
    /\ pc[c] = "new" /\ ClientOf(c) = "remote"
    /\ \E code \in IF Closed(c) \/ c \in aborted THEN {AbortCode(c)} ELSE Rejections(c) :
          IF code = None THEN pc' = [pc EXCEPT ![c] = "key"] /\ UNCHANGED outcome
          ELSE /\ pc' = [pc EXCEPT ![c] = "done"]
               /\ outcome' = [outcome EXCEPT ![c] = Error(code)]
    /\ UNCHANGED <<endpoint, attempts, elapsed, wake, fired, aborted, closed, sent, effects, reply, metric>>

BeginNegotiation(c) ==
    /\ pc[c] = "new" /\ ClientOf(c) = "negotiation"
    /\ IF Closed(c) \/ c \in aborted
       THEN /\ pc' = [pc EXCEPT ![c] = "done"]
            /\ outcome' = [outcome EXCEPT ![c] = Error(AbortCode(c))]
       ELSE pc' = [pc EXCEPT ![c] = "key"] /\ UNCHANGED outcome
    /\ UNCHANGED <<endpoint, attempts, elapsed, wake, fired, aborted, closed, sent, effects, reply, metric>>

\* apiKey() has answered, before anything aborted the wait.
KeyRead(c) ==
    /\ pc[c] = "key"
    /\ ~Signal(c)
    /\ \/ pc' = [pc EXCEPT ![c] = "keyed"] /\ UNCHANGED <<outcome, metric>>
       \/ Settle(c, Error("INVALID_CREDENTIAL"))
    /\ UNCHANGED <<endpoint, attempts, elapsed, wake, fired, aborted, closed, sent, effects, reply>>

\* Seeded fault: no throwIfAborted between the key and the request.
SendAnyway(c) ==
    /\ pc[c] = "keyed"
    /\ pc' = [pc EXCEPT ![c] = "sent"]
    /\ attempts' = [attempts EXCEPT ![c] = @ + 1]
    /\ sent' = sent \cup {<<c, attempts[c] + 1>>}
    /\ UNCHANGED <<endpoint, outcome, metric, elapsed, wake, fired, aborted, closed, effects, reply>>
\* throwIfAborted, and the request goes to the transport.
Send(c) ==
    /\ pc[c] = "keyed"
    /\ IF Signal(c)
       THEN Settle(c, Error(AbortCode(c))) /\ UNCHANGED <<attempts, sent>>
       ELSE /\ pc' = [pc EXCEPT ![c] = "sent"]
            /\ attempts' = [attempts EXCEPT ![c] = @ + 1]
            /\ sent' = sent \cup {<<c, attempts[c] + 1>>}
            /\ UNCHANGED <<outcome, metric>>
    /\ UNCHANGED <<endpoint, elapsed, wake, fired, aborted, closed, effects, reply>>

\* The answer has been read to its end, before anything aborted the wait.
Receive(c) ==
    /\ pc[c] = "sent"
    /\ ~Signal(c)
    /\ reply[<<c, attempts[c]>>] # None
    /\ pc' = [pc EXCEPT ![c] = "read"]
    /\ UNCHANGED <<endpoint, attempts, elapsed, wake, fired, aborted, closed, sent, effects, reply,
                   outcome, metric>>

\* The answer is the result, an error, or a reason to pause and try again.
Evaluate(c) ==
    LET answer == reply[<<c, attempts[c]>>] IN
    /\ pc[c] = "read" /\ ClientOf(c) = "remote"
    /\ IF /\ answer.kind = "refused"
          /\ MayRetry(c, answer.failure)
          /\ InTime(c, answer.failure)
       THEN /\ pc' = [pc EXCEPT ![c] = "pause"]
            /\ wake' = [wake EXCEPT ![c] = elapsed[c] + Delay(answer.failure)]
            /\ UNCHANGED <<outcome, metric>>
       ELSE /\ Settle(c, CASE answer.kind = "lost" -> Error("TRANSPORT_ERROR")
                           [] answer.kind = "garbled" -> Error("INVALID_RESPONSE")
                           [] OTHER -> answer)
            /\ UNCHANGED wake
    /\ UNCHANGED <<endpoint, attempts, elapsed, fired, aborted, closed, sent, effects, reply>>

\* The negotiation client looks at its signal again before it decodes, and reports any
\* other status as it is.
Negotiate(c) ==
    LET answer == reply[<<c, attempts[c]>>] IN
    /\ pc[c] = "read" /\ ClientOf(c) = "negotiation"
    /\ Settle(c, IF answer.kind = "lost" THEN Error("TRANSPORT_ERROR")
                 ELSE IF answer.kind = "refused" THEN Error("HTTP_ERROR")
                 ELSE IF answer.kind = "garbled" \/ Signal(c) THEN Error("INVALID_RESPONSE")
                 ELSE answer)
    /\ UNCHANGED <<endpoint, attempts, elapsed, wake, fired, aborted, closed, sent, effects, reply>>

\* The pause is over: the loop goes round, or falls out of its end.
Wake(c) ==
    /\ pc[c] = "pause"
    /\ elapsed[c] >= wake[c]
    /\ ~Signal(c)
    /\ wake' = [wake EXCEPT ![c] = None]
    /\ IF attempts[c] < 2 THEN pc' = [pc EXCEPT ![c] = "key"] /\ UNCHANGED <<outcome, metric>>
                          ELSE Settle(c, Error("RETRY_EXHAUSTED"))
    /\ UNCHANGED <<endpoint, attempts, elapsed, fired, aborted, closed, sent, effects, reply>>

\* Seeded fault: the transport is awaited without the race against the signal.
InterruptedExceptSent(c) == pc[c] \in {"key", "pause"}
\* The places where `bounded` races the work against the signal.
Bounded(c) == pc[c] \in {"key", "sent", "pause"}

\* The signal aborted while the call waited.
Interrupt(c) ==
    /\ Bounded(c)
    /\ Signal(c)
    /\ Settle(c, Error(AbortCode(c)))
    /\ UNCHANGED <<endpoint, attempts, elapsed, wake, fired, aborted, closed, sent, effects, reply>>
-----------------------------------------------------------------------------
(* Time, the caller and the service *)

Elapse(c) ==
    /\ pc[c] \notin {"new", "done"}
    /\ elapsed[c] < Timeout
    /\ elapsed' = [elapsed EXCEPT ![c] = @ + 1]
    /\ UNCHANGED <<endpoint, pc, attempts, wake, fired, aborted, closed, sent, effects, reply, outcome, metric>>

\* Timers run in the order of their expiry, so a pause that ends first wakes first.
Deadline(c) ==
    /\ pc[c] \notin {"new", "done"}
    /\ elapsed[c] = Timeout
    /\ pc[c] = "pause" => wake[c] >= Timeout
    /\ fired' = fired \cup {c}
    /\ c \notin fired
    /\ UNCHANGED <<endpoint, pc, attempts, elapsed, wake, aborted, closed, sent, effects, reply, outcome, metric>>

Abort(c) ==
    /\ pc[c] # "done" /\ c \notin aborted
    /\ aborted' = aborted \cup {c}
    /\ UNCHANGED <<endpoint, pc, attempts, elapsed, wake, fired, closed, sent, effects, reply, outcome, metric>>

Close(k) ==
    /\ k \notin closed
    /\ closed' = closed \cup {k}
    /\ UNCHANGED <<endpoint, pc, attempts, elapsed, wake, fired, aborted, sent, effects, reply, outcome, metric>>

\* A keyed request takes effect unless its key has one already; its answer is what
\* took effect under the key, or any refusal (a 504 may follow the commit).
Work(r) ==
    /\ r \in sent /\ reply[r] = None
    /\ LET key == HeaderKey(r[1], r[2])
           now == IF Keyed(r[1]) /\ Stored(key) = {}
                  THEN effects \cup {[key |-> key, by |-> r]} ELSE effects
           by == IF Keyed(r[1]) THEN {e.by : e \in {x \in now : x.key = key}} ELSE {r}
       IN /\ effects' = now
          /\ reply' \in {[reply EXCEPT ![r] = a] :
                           a \in {Ok(b) : b \in by}
                                   \cup {Refused(f) : f \in {g \in Refusals : g.status = 504}}
                                   \cup {Lost, Garbled}}
    /\ UNCHANGED <<client, sent>>

\* A request is refused, or lost, before it has done anything.
Refuse(r) ==
    /\ r \in sent /\ reply[r] = None
    /\ reply' \in {[reply EXCEPT ![r] = a] : a \in {Refused(f) : f \in Refusals} \cup {Lost}}
    /\ UNCHANGED <<client, sent, effects>>

CallStep(c) == \/ Begin(c) \/ BeginNegotiation(c) \/ Negotiate(c) \/ KeyRead(c) \/ Send(c) \/ Receive(c) \/ Evaluate(c)
               \/ Wake(c) \/ Interrupt(c) \/ Elapse(c) \/ Deadline(c) \/ Abort(c)

Next == \/ \E c \in Calls : CallStep(c)
        \/ \E k \in {ClientOf(c) : c \in Calls} : Close(k)
        \/ \E r \in Requests : Work(r) \/ Refuse(r)

\* Time passes, timers fire and settled promises are continued; apiKey(), the
\* transport and the service owe nothing.
Fairness == \A c \in Calls :
    /\ WF_vars(Send(c)) /\ WF_vars(Evaluate(c)) /\ WF_vars(Negotiate(c)) /\ WF_vars(Wake(c)) /\ WF_vars(Interrupt(c))
    /\ WF_vars(Elapse(c)) /\ WF_vars(Deadline(c))

Spec == Init /\ [][Next]_vars
LiveSpec == Spec /\ Fairness
-----------------------------------------------------------------------------
(* Properties *)

\* However often calls made with one Idempotency-Key are attempted, given up
\* or answered late, one request's work takes effect.
OneEffectPerKey ==
    \A d, e \in effects : CallKey[d.by[1]] = CallKey[e.by[1]] => d = e

\* After close(), or after its own signal or deadline, a call sends nothing.
NothingSentAfterTheEnd ==
    [][\A c \in Calls : Signal(c) => {r \in sent' : r[1] = c} = {r \in sent : r[1] = c}]_vars

\* Every call that has begun is answered, whatever apiKey(), the network and
\* the service do.
EveryCallSettles == \A c \in Calls : (pc[c] = "key") ~> (pc[c] = "done")
=============================================================================

------------------------------ MODULE OnceStore ------------------------------
(***************************************************************************)
(* What the idempotency store of the core promises to its callers, with no *)
(* leases, fences, crashes or races: for every Idempotency-Key at most one *)
(* request's work takes effect, and every successful answer given under    *)
(* that key is the stored result of that one request.                      *)
(*                                                                         *)
(* Reservation.tla is shown to implement this module.                      *)
(***************************************************************************)
CONSTANTS Requests,     \* HTTP requests that carry an Idempotency-Key
          Keys,         \* reserved (scope, principal, workspace, path, key)
          RequestKey,   \* the key each request carries
          None          \* no result, no answer

VARIABLES result,       \* [Keys -> the request whose work took effect]
          answer        \* [Requests -> the result it was answered with]

onceVars == <<result, answer>>

OnceInit == /\ result = [k \in Keys |-> None]
            /\ answer = [r \in Requests |-> None]

\* The work of r takes effect, which no other work of its key ever did; the
\* caller may or may not learn of it.
TakeEffect(r) ==
    /\ result[RequestKey[r]] = None
    /\ result' = [result EXCEPT ![RequestKey[r]] = r]
    /\ answer' \in {answer, [answer EXCEPT ![r] = r]}

\* r is answered with what already took effect under its key.
Replay(r) ==
    /\ result[RequestKey[r]] # None
    /\ answer[r] = None
    /\ answer' = [answer EXCEPT ![r] = result[RequestKey[r]]]
    /\ UNCHANGED result

OnceNext == \E r \in Requests : TakeEffect(r) \/ Replay(r)

OnceSpec == OnceInit /\ [][OnceNext]_onceVars
=============================================================================

----------------------------- MODULE AtMostOnce -----------------------------
(***************************************************************************)
(* What the provider promises about a decided operation, with no ledger,   *)
(* races, crashes or lost commits: its business handler runs at most once, *)
(* and every caller that is given a result is given the one result that    *)
(* run left behind.  A run may leave none: its outcome is then unknown for *)
(* ever.                                                                   *)
(*                                                                         *)
(* Ledger.tla is shown to implement this module.                           *)
(***************************************************************************)
CONSTANTS Attempts,     \* calls of execute()
          Results,      \* what a handler can return
          None          \* no result

VARIABLES ran,          \* has the handler been entered?
          result,       \* the durable result of the run
          told          \* [Attempts -> the result each caller was given]

onceVars == <<ran, result, told>>

OnceInit == /\ ran = FALSE
            /\ result = None
            /\ told = [a \in Attempts |-> None]

Run == /\ ~ ran
       /\ ran' = TRUE
       /\ UNCHANGED <<result, told>>

\* The run's result becomes durable; its caller may or may not get it.
Keep(a, v) ==
    /\ ran
    /\ result = None
    /\ result' = v
    /\ told' \in {told, [told EXCEPT ![a] = v]}
    /\ UNCHANGED ran

Tell(a) ==
    /\ result # None
    /\ told[a] = None
    /\ told' = [told EXCEPT ![a] = result]
    /\ UNCHANGED <<ran, result>>

OnceNext ==
    \/ Run
    \/ \E a \in Attempts : Tell(a) \/ \E v \in Results : Keep(a, v)

OnceSpec == OnceInit /\ [][OnceNext]_onceVars
=============================================================================

------------------------------ MODULE MCLedger ------------------------------
(***************************************************************************)
(* A small instance of Ledger: two attempts, racing or one after the       *)
(* other; a handler that succeeds or reports an error.                     *)
(***************************************************************************)
EXTENDS Ledger

CONSTANTS e1, e2, ok, failed

MCAttempts == {e1, e2}
MCResults == {ok, failed}
MCErrorResults == {failed}
=============================================================================

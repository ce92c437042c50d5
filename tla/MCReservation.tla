---------------------------- MODULE MCReservation ----------------------------
(***************************************************************************)
(* Small instances of Reservation.  All requests share one key (rows of    *)
(* different keys never meet); r1 and r2 are the same request sent twice,  *)
(* r3 reuses the key with another body.                                    *)
(***************************************************************************)
EXTENDS Reservation, TLC

CONSTANTS r1, r2, r3, k1, sameBody, otherBody

MCRequests == {r1, r2, r3}
MCRequestKey == [r \in MCRequests |-> k1]
MCRequestHash == [r \in MCRequests |-> IF r = r3 THEN otherBody ELSE sameBody]

\* Three copies of one request: enough for release, reserve and insert to meet.
MCOneBody == [r \in MCRequests |-> sameBody]
MCSymmetry == Permutations(MCRequests)
=============================================================================

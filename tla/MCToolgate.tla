----------------------------- MODULE MCToolgate -----------------------------
(***************************************************************************)
(* A small instance of Toolgate: two tools and two arguments, one pair of  *)
(* which only the core's validator refuses; two attempts with any inputs.  *)
(***************************************************************************)
EXTENDS Toolgate, TLC

CONSTANTS t1, t2, a1, a2, e1, e2, ok, user, rev

MCTools == {t1, t2}
MCArgs == {a1, a2}
MCValid == {<<t1, a1>>, <<t2, a1>>, <<t2, a2>>}
MCLocallyValid == {<<t1, a1>>, <<t1, a2>>, <<t2, a1>>, <<t2, a2>>}
MCAttempts == {e1, e2}
MCResults == {ok}
MCCaller == [principal |-> user, revision |-> rev, allowed |-> MCTools]
MCSymmetry == Permutations(MCAttempts)
=============================================================================

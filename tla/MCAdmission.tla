----------------------------- MODULE MCAdmission -----------------------------
\* Requests of one integration: three at a Go process, of which r3 has no valid
\* key where Invalid says so, and r4 at a Rust process.
EXTENDS Admission
CONSTANTS g, h, r1, r2, r3, r4, s1

Requests_ == {r1, r2, r3, r4}
Home_ == [r \in Requests_ |-> IF r = r4 THEN h ELSE g]
ScopeOf_ == [r \in Requests_ |-> s1]
=============================================================================

---------------------------- MODULE MCRemoteCall ----------------------------
\* Two calls that a provider made with one key, on one client; or a negotiation and one
\* that has no key.  The refusals are
\* those of the cores: worth retrying without a Retry-After, and the reverse.
EXTENDS RemoteCall
CONSTANTS c1, c2, k1

Calls_ == {c1, c2}
Aim(first, second) == [c \in Calls_ |-> IF c = c1 THEN first ELSE second]
Aims_ == {Aim("prepare", "prepare"), Aim("negotiate", "inspect")}
CallKey_ == [c \in Calls_ |-> k1]
Answer(status, retryable, after) == [status |-> status, retryable |-> retryable, after |-> after]
Refusals_ == {Answer(503, TRUE, None), Answer(409, FALSE, 2)}
=============================================================================

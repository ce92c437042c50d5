------------------------------ MODULE MCRunner ------------------------------
\* Two modes of each version, and turns of up to three calls, of which two may overlap: three
\* reads are a full batch and one more.
EXTENDS Runner

MCModes == [v2 |-> <<"direct", "design-2">>, v3 |-> <<"design-1", "design-3">>,
            v3p2 |-> <<"direct", "joint-3">>]
MCCallLists == {<<"read", "read", "read">>, <<"write", "read">>, <<"read", "write">>}
=============================================================================

--------------------------- MODULE MCSelectorPool ---------------------------
\* A selection and a workflow in one process.
EXTENDS SelectorPool
CONSTANTS sel, wf
ThreeAndOne == [b \in {sel, wf} |-> IF b = sel THEN 3 ELSE 1]
=============================================================================

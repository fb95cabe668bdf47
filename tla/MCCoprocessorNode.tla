------------------------- MODULE MCCoprocessorNode -------------------------
(* Instances of CoprocessorNode for TLC. *)
EXTENDS CoprocessorNode

CONSTANTS j1, j1again, u

\* An Ordered job whose execution may fail and an Unordered one.
PairJobs == {j1, u}
PairNonce == [j \in PairJobs |-> IF j = j1 THEN 1 ELSE 2]

\* ... and the first nonce submitted a second time, with other content.
TrioJobs == {j1, j1again, u}
TrioNonce == [j \in TrioJobs |-> IF j = u THEN 2 ELSE 1]

Distinct == [j \in Job |-> j]
=============================================================================

-------------------------- MODULE MCAbandonedCalls --------------------------
(* An instance of AbandonedCalls for TLC. *)
EXTENDS AbandonedCalls

CONSTANTS j1, j2

NonceOf == [j \in {j1, j2} |-> IF j = j1 THEN 1 ELSE 2]
=============================================================================

---------------------------- MODULE MCExecClient ----------------------------
(* Instances of ExecClient for TLC. *)
EXTENDS ExecClient

CONSTANTS a, b, delegation, creation, blobs

\* A transfer from a to b that carries authorizations, a creation by b that takes
\* more than b has at first, and seven blobs from a to b.
Bodies == [tx \in {delegation, creation, blobs} |->
    CASE tx = delegation ->
            [sender |-> a, to |-> b, nonce |-> 0, value |-> 1, type |-> "eip7702", blobs |-> 0]
      [] tx = creation ->
            [sender |-> b, to |-> NoTo, nonce |-> 0, value |-> 1, type |-> "legacy", blobs |-> 0]
      [] tx = blobs ->
            [sender |-> a, to |-> b, nonce |-> 1, value |-> 1, type |-> "eip4844", blobs |-> 7]]

\* One allow list lets b send, the next one lets anyone send to b, with Prague
\* at the same time.
TwoLists == [t \in {1, 2} |->
    IF t = 1 THEN [all |-> FALSE, to |-> {}, sender |-> {b}]
    ELSE [all |-> FALSE, to |-> {b}, sender |-> {}]]

HardForks == [f \in {"cancun", "prague"} |-> IF f = "cancun" THEN 0 ELSE 2]
Blobs == [f \in {"cancun", "prague"} |-> IF f = "cancun" THEN 6 ELSE 9]
Balances == [x \in {a, b} |-> IF x = a THEN 1 ELSE 0]
=============================================================================

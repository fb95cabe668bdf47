---------------------------- MODULE OrderedRelay ----------------------------
(***************************************************************************)
(* What the node promises for the jobs of one consumer whose relay         *)
(* strategy is Ordered: their results are decided one after the other, in  *)
(* the order of their nonces and without a gap.  A nonce is first handed   *)
(* over to the relay side and then settled, once: its result reached the   *)
(* chain, or the relay side gave it up to the dead letter queue.           *)
(*                                                                         *)
(* ConsumerActors implements this specification.                           *)
(***************************************************************************)
EXTENDS Naturals, Sequences

CONSTANT FirstNonce   \* the nonce of the first job, read from the consumer

VARIABLES
    handedTo,   \* every nonce in FirstNonce .. handedTo - 1 was handed over
    settled     \* what became of each nonce handed over, in nonce order

orderedVars == <<handedTo, settled>>

Settlement == [nonce : Nat, landed : BOOLEAN]

\* The next nonce to settle.
NextToSettle == FirstNonce + Len(settled)

OrderedInit ==
    /\ handedTo = FirstNonce
    /\ settled = <<>>

HandOver ==
    /\ handedTo' = handedTo + 1
    /\ UNCHANGED settled

Settle ==
    /\ NextToSettle < handedTo
    /\ \E landed \in BOOLEAN :
          settled' = Append(settled, [nonce |-> NextToSettle, landed |-> landed])
    /\ UNCHANGED handedTo

OrderedNext == HandOver \/ Settle

OrderedSpec == OrderedInit /\ [][OrderedNext]_orderedVars

\* What is handed over is settled in the end; nothing obliges the execution
\* side to hand over a further nonce, whose job may never be submitted.
LiveOrderedSpec == OrderedSpec /\ WF_orderedVars(Settle)
=============================================================================

------------------------------- MODULE AppLog -------------------------------
(***************************************************************************)
(* What the CLOB server promises: requests are put in one order ("The      *)
(* request is guaranteed to be processed via ordering indicated by this    *)
(* index", examples/clob/core/src/api/mod.rs:44); an answer names the      *)
(* place of its request and the place never changes hands; the chain       *)
(* follows along the same order, request after request.                    *)
(***************************************************************************)
EXTENDS Naturals, Sequences

CONSTANT Request

VARIABLES
    log,        \* the processed requests, in their order
    answers,    \* <<index, request>> of what has been answered
    settled     \* the requests the chain has followed

vars == <<log, answers, settled>>

Init == log = <<>> /\ answers = {} /\ settled = <<>>

Process(req) == log' = Append(log, req) /\ UNCHANGED <<answers, settled>>

Answer(i) == answers' = answers \cup {<<i, log[i]>>} /\ UNCHANGED <<log, settled>>

SettleUpTo(k) == settled' = SubSeq(log, 1, k) /\ UNCHANGED <<log, answers>>

Next ==
    \/ \E req \in Request : Process(req)
    \/ \E i \in DOMAIN log : Answer(i)
    \/ \E k \in (Len(settled) + 1)..Len(log) : SettleUpTo(k)

Spec == Init /\ [][Next]_vars
=============================================================================

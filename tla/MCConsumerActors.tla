-------------------------- MODULE MCConsumerActors --------------------------
(* Instances of ConsumerActors for TLC. *)
EXTENDS ConsumerActors

CONSTANTS j1, j2, j2again, j3, u

\* Two Ordered nonces, the second submitted twice (one of them may fail), and
\* an Unordered job.
MixedJobs == {j1, j2, j2again, u}
MixedOrdered == {j1, j2, j2again}
MixedNonce == [j \in MixedJobs |-> CASE j = j1 -> 1 [] j \in {j2, j2again} -> 2 [] j = u -> 3]
MixedMayFail == {j2again, u}

\* Three Ordered jobs and an Unordered one, through channels of capacity one.
NarrowJobs == {j1, j2, j3, u}
NarrowOrdered == {j1, j2, j3}
NarrowNonce == [j \in NarrowJobs |-> CASE j = j1 -> 1 [] j = j2 -> 2 [] j = j3 -> 3 [] j = u -> 4]
=============================================================================

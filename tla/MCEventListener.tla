-------------------------- MODULE MCEventListener --------------------------
(* An instance of EventListener for TLC. *)
EXTENDS EventListener

CONSTANTS j1, u, p, q, good, bad

\* An Ordered job and an Unordered one.
PairJobs  == {j1, u}
PairNonce == [j \in PairJobs |-> IF j = j1 THEN 1 ELSE 2]
Distinct  == [j \in Job |-> j]

\* A good ELF; and one that no program can be made from, brought under its own
\* id and under the other.
BothIds   == [e \in {good, bad} |-> IF e = good THEN p ELSE q]
FourCalls == [c \in 1..4 |-> CASE c = 3 -> [id |-> p, elf |-> bad]
                               [] c = 4 -> [id |-> q, elf |-> bad]
                               [] OTHER -> [id |-> p, elf |-> good]]
AllOfP    == [j \in Job |-> p]

\* Two clients and no block; a request in the first of two blocks; or the
\* programs on their way with a job.
Installed == [id \in {p, q} |-> IF id = p THEN good ELSE NoRow]
NoBlocks  == <<>>
ThreeScenarios ==
    {[clients |-> Job, logs |-> NoBlocks, uploads |-> {}, installed |-> Installed],
     [clients |-> {}, logs |-> [b \in 0..1 |-> IF b = 0 THEN <<u>> ELSE <<>>],
      uploads |-> {}, installed |-> Installed],
     [clients |-> {j1}, logs |-> NoBlocks, uploads |-> 1..4,
      installed |-> [id \in {p, q} |-> NoRow]]}
=============================================================================

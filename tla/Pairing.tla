------------------------------ MODULE Pairing ------------------------------
(***************************************************************************)
(* What the matching game promises: at most one player waits at a number,  *)
(* who comes to a number where somebody waits is paired with them, and     *)
(* partners on chain are players who were paired.                          *)
(***************************************************************************)
EXTENDS Naturals

CONSTANTS Player, Number, Nobody

VARIABLES
    waiting,    \* number -> who waits there
    pairs,      \* <<who waited, who came>>
    partner     \* on chain: player -> partner

vars == <<waiting, pairs, partner>>

Init ==
    /\ waiting = [n \in Number |-> Nobody]
    /\ pairs = {}
    /\ partner = [p \in Player |-> Nobody]

Come(p, n) ==
    /\ waiting[n] = Nobody
    /\ waiting' = [waiting EXCEPT ![n] = p]
    /\ UNCHANGED <<pairs, partner>>

Meet(p, n) ==
    /\ waiting[n] # Nobody
    /\ pairs' = pairs \cup {<<waiting[n], p>>}
    /\ waiting' = [waiting EXCEPT ![n] = Nobody]
    /\ UNCHANGED partner

Leave(n) ==
    /\ waiting[n] # Nobody
    /\ waiting' = [waiting EXCEPT ![n] = Nobody]
    /\ UNCHANGED <<pairs, partner>>

\* The server loses what it keeps in memory.
StartAnew == waiting' = [n \in Number |-> Nobody] /\ UNCHANGED <<pairs, partner>>

Publish ==
    /\ partner' \in [Player -> Player \cup {Nobody}]
    /\ \A p \in Player :
          partner'[p] = partner[p] \/ {<<p, partner'[p]>>, <<partner'[p], p>>} \cap pairs # {}
    /\ UNCHANGED <<waiting, pairs>>

Next ==
    \/ \E p \in Player, n \in Number : Come(p, n) \/ Meet(p, n)
    \/ \E n \in Number : Leave(n)
    \/ StartAnew
    \/ Publish

Spec == Init /\ [][Next]_vars
=============================================================================

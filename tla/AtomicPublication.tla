-------------------------- MODULE AtomicPublication --------------------------
(***************************************************************************)
(* What the writers promise together, without locks, stages, backups or    *)
(* journals: a reviewed plan appears in all of its target gardens in one   *)
(* step, and only on the revisions it was reviewed for.                    *)
(***************************************************************************)
EXTENDS Integers

CONSTANTS N, Route, Change, Targets, Base

VARIABLE published   \* the tree of every garden

Init == published = [g \in 1..N |-> {"seed"}]

Publish(d) ==
    /\ \E g \in Targets[d] : d \notin published[g]
    /\ \A g \in Targets[d] : d \in published[g] \/ published[g] = Base[d][g]
    /\ published' = [g \in 1..N |->
          IF g \in Targets[d] THEN published[g] \cup {d} ELSE published[g]]

Next == \E d \in Route \cup Change : Publish(d)

Spec == Init /\ [][Next]_published

=============================================================================

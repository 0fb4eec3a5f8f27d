--------------------------- MODULE MCGardenWriters ---------------------------
(***************************************************************************)
(* Small instances of GardenWriters: who runs, and with which plans.       *)
(***************************************************************************)
EXTENDS GardenWriters

\* Plans: r1 writes gardens 1 and 2, r2 the same gardens on top of r1; c1 and c2
\* write garden 1 on the seed.
Everywhere(tree) == [g \in 1..2 |-> tree]
MCTargets == [d \in Route \cup Change |->
    IF d \in Route THEN {1, 2} ELSE {1}]
MCBase == [d \in Route \cup Change |->
    Everywhere(IF d = "r2" THEN {"seed", "r1"} ELSE {"seed"})]

KindOf(p) ==
    CASE p \in {"R", "T"} -> "route"
      [] p \in {"C", "D"} -> "change"
      [] OTHER -> "recover"
MCKind == [p \in Proc |-> KindOf(p)]

\* R runs r1 and T r2; C runs c1 and D c2; V recovers r1 and W recovers r2.
MCPlanOf == [p \in Proc |->
    CASE p \in {"R", "V"} -> "r1"
      [] p \in {"T", "W"} -> "r2"
      [] p = "C" -> "c1"
      [] p = "D" -> "c2"]
=============================================================================

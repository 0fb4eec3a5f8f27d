---------------------------- MODULE GardenRecords ----------------------------
(***************************************************************************)
(* A version-one garden and what makes it valid (domain/garden.py,         *)
(* inspect_garden followed by require_valid, where a warning refuses as    *)
(* well).                                                                  *)
(*                                                                         *)
(* A garden G has a visibility, a set of records, and bodies: the bytes of *)
(* its notes and sources by identity.  An identity is the sequence of the  *)
(* words that "-" joins.  A record has                                     *)
(*   id, kind, status, review, legacy (its visibility or "none"), own (its *)
(*   scope or NoScope), body (the digest it declares of its bytes),        *)
(*   type and directed (of a synapse), refs and marks (what else it says). *)
(* A reference has the role of the field it is in, the identity and the    *)
(* revision it names.  The digest of a body is the body, and the digest of *)
(* any other record is the record.  References to other gardens, markdown  *)
(* links, dates, asset reviews and transitions are left out.               *)
(***************************************************************************)
EXTENDS ScopePolicy, SequencesExt, FiniteSets

Unpinned == [text |-> "none"]
NoMarks == [none |-> TRUE]

Blank == [id |-> <<>>, kind |-> "none", status |-> "none", review |-> "none",
          legacy |-> "none", own |-> NoScope, body |-> Unpinned,
          type |-> "none", directed |-> FALSE, refs |-> {}, marks |-> NoMarks]

Ref(role, id, revision) == [role |-> role, id |-> id, revision |-> revision]

Bodied == {"source", "knowledge"}

Identities(G) == {r.id : r \in G.records}
Record(G, id) == CHOOSE r \in G.records : r.id = id

\* snapshot.hashes
Digest(G, r) == IF r.kind \in Bodied THEN G.bodies[r.id] ELSE r

\* The kind a reference must have, by the field it is in.
Expected(role) ==
    CASE role = "provenance" -> {"provenance"}
      [] role \in {"supersedes", "subject", "output"} -> {"knowledge"}
      [] role \in {"claims"} -> {"claim"}
      [] role \in {"synapses"} -> {"synapse"}
      [] role \in {"evidence", "inputs"} -> {"source"}
      [] OTHER -> {"source", "knowledge", "claim", "synapse", "provenance",
                   "receipt", "migration"}

\* visibility(): a record that says nothing is as visible as its garden.
VisibilityIn(G, r) ==
    IF r.legacy # "none" THEN r.legacy
    ELSE IF r.own # NoScope THEN LegacyVisibility(r.own.visibility)
    ELSE G.visibility

\* resolve() and, for provenance, the pinned hashes.
Resolves(G, r, ref) ==
    \E target \in G.records :
        /\ target.id = ref.id
        /\ target.kind \in Expected(ref.role)
        /\ VisibilityIn(G, r) = "public" => VisibilityIn(G, target) = "public"
        /\ ref.revision \in {Unpinned, Digest(G, target)}
        /\ ref.role \in {"artifact", "input"} => ref.revision # Unpinned

\* An input of role configuration names the garden itself: the manifest that
\* a migration started from, which is looked for in the rollback tree.
ConfigurationResolves(ref, configurations) == ref.revision \in configurations

Ends(r) == {ref.id : ref \in {q \in r.refs : q.role \in {"source", "target"}}}
EndOf(r, role) == (CHOOSE ref \in r.refs : ref.role = role).id

\* Two synapses of one type between the same ends, in one direction or none.
SameEdge(r, q) ==
    /\ r.type = q.type
    /\ r.directed = q.directed
    /\ IF r.directed THEN EndOf(r, "source") = EndOf(q, "source")
       ELSE TRUE
    /\ Ends(r) = Ends(q)

\* The edges of supersession: the field of a note, and synapses of that type.
Supersession(G) ==
    (UNION {{<<r.id, ref.id>> : ref \in {q \in r.refs : q.role = "supersedes"}} : r \in G.records})
    \cup {<<EndOf(r, "source"), EndOf(r, "target")>> :
            r \in {q \in G.records : q.type = "supersedes" /\ Cardinality(Ends(q)) = 2}}

(***************************************************************************)
(* The walk that looks for a cycle: a stack of nodes to enter or to leave, *)
(* and a mark per node, 1 while what it supersedes is being walked, 2 when *)
(* that is done.  An entry for a node that is marked 1 closes a cycle.     *)
(***************************************************************************)
Enter(node) == [node |-> node, leaving |-> FALSE]
Leave(node) == [node |-> node, leaving |-> TRUE]

\* (mutant of WalkStep: a node is done as soon as it is entered)
WalkForgetting(edges, w) ==
    IF w.stack = <<>> THEN w
    ELSE LET top == Last(w.stack)
         IN  IF w.mark[top.node] = 2 THEN [w EXCEPT !.stack = Front(@)]
             ELSE [w EXCEPT !.mark[top.node] = 2,
                            !.stack = Front(@) \o SetToSeq({Enter(e[2]) : e \in {d \in edges : d[1] = top.node}})]

WalkStep(edges, w) ==
    IF w.stack = <<>>
    THEN LET left == {e[1] : e \in {d \in edges : w.mark[d[1]] # 2}}
         IN  IF left = {} THEN w ELSE [w EXCEPT !.stack = <<Enter(CHOOSE n \in left : TRUE)>>]
    ELSE LET top == Last(w.stack)
         IN  CASE top.leaving -> [w EXCEPT !.mark[top.node] = 2, !.stack = Front(@)]
               [] ~top.leaving /\ w.mark[top.node] = 1 ->
                    [w EXCEPT !.cycle = TRUE, !.stack = Front(@)]
               [] ~top.leaving /\ w.mark[top.node] = 2 -> [w EXCEPT !.stack = Front(@)]
               [] OTHER ->
                    [w EXCEPT !.mark[top.node] = 1,
                              !.stack = Append(Front(@), Leave(top.node))
                                \o SetToSeq({Enter(e[2]) : e \in {d \in edges : d[1] = top.node}})]

\* Every node is entered from each edge at most, left once and started once.
SupersessionCycle(edges) ==
    LET nodes == {e[1] : e \in edges} \cup {e[2] : e \in edges}
        start == [stack |-> <<>>, mark |-> [n \in nodes |-> 0], cycle |-> FALSE]
        steps == [n \in 1..(3 * Cardinality(nodes) + Cardinality(edges)) |-> n]
    IN  FoldLeft(LAMBDA w, n : WalkStep(edges, w), start, steps).cycle

\* What inspect_garden reads from each record alone.
Intact(G, r) ==
    /\ \A q \in G.records : q.id = r.id => q = r
    /\ G.visibility = "public" => VisibilityIn(G, r) = "public"
    /\ r.kind \in Bodied => r.id \in DOMAIN G.bodies /\ G.bodies[r.id] = r.body

Related(G, r) ==
    r.kind = "synapse" =>
        /\ Cardinality(Ends(r)) = 2
        /\ \A q \in G.records : q.kind = "synapse" /\ SameEdge(r, q) => q = r

\* require_valid, given the manifests that a configuration may name.
Valid(G, configurations) ==
    /\ \A r \in G.records : Intact(G, r)
    /\ \A r \in G.records :
          /\ Related(G, r)
          /\ \A ref \in r.refs :
                IF ref.role = "configuration" THEN ConfigurationResolves(ref, configurations)
                ELSE Resolves(G, r, ref)
    /\ ~SupersessionCycle(Supersession(G))

=============================================================================

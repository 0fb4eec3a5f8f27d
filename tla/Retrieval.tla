------------------------------ MODULE Retrieval ------------------------------
(***************************************************************************)
(* The answers of a scoped query (application/retrieval.py, evidence.py):  *)
(* the index of an authorized view, ranking, traversal and the bounded     *)
(* context pack.  V is a View, R the table it was made from, and held the  *)
(* identities whose records and bodies could be opened afterwards.         *)
(***************************************************************************)
EXTENDS QueryView, Sequences, SequencesExt

\* The captured sources an entry cites; a claim also cites its subject's.
Citations(R, i) ==
    LET own(j) == {k \in R[j].evidence : R[k].kind = "source"}
    IN  IF R[i].kind = "claim" THEN own(i) \cup own(R[i].ends[1]) ELSE own(i)

EntryScope(V, R, i) == Inherit({V.scopes[j] : j \in {i} \cup Citations(R, i)})

Current(r, unreviewed) ==
    /\ r.status \in {"active"} \cup (IF unreviewed THEN {"proposed"} ELSE {})
    /\ unreviewed \/ r.review = "approved"

\* build_index: the knowledge and claims whose whole evidence was opened.
Entries(S, V, R, held, unreviewed) ==
    LET shown(i) == /\ Allowed(S, R[i], TRUE)
                    /\ PublicOutput(S) /\ R[i].kind = "knowledge" => R[i].eligible
    IN  {i \in held :
           /\ R[i].kind \in {"knowledge", "claim"}
           /\ i \notin V.retired
           /\ R[i].kind = "claim" => /\ R[i].ends[1] \notin V.retired
                                     /\ R[i].ends[1] \in held
                                     /\ shown(R[i].ends[1])
           /\ shown(i)
           /\ Current(R[i], unreviewed)
           /\ Citations(R, i) \subseteq held
           /\ \A j \in Citations(R, i) : Allowed(S, R[j], FALSE)
           /\ EntryScope(V, R, i).visibility \in S.allowed}

\* build_index: typed relations and supersessions between entries.
EdgesOf(V, R, synapses, entries) ==
    LET edge(a, b, directed, scopes) ==
            [from |-> a, to |-> b, directed |-> directed, scope |-> Inherit(scopes)]
    IN  {edge(R[i].ends[1], R[i].ends[2], R[i].directed,
              {V.scopes[i], EntryScope(V, R, R[i].ends[1]), EntryScope(V, R, R[i].ends[2])}) :
            i \in synapses}
        \cup UNION {{edge(i, j, TRUE, {EntryScope(V, R, i), EntryScope(V, R, j)}) :
                        j \in R[i].links \cap entries} : i \in entries}

Edges(S, V, R, held, entries) ==
    {e \in EdgesOf(V, R, {i \in held : /\ R[i].kind = "synapse"
                                      /\ Allowed(S, R[i], TRUE)
                                      /\ Current(R[i], FALSE)
                                      /\ {R[i].ends[1], R[i].ends[2]} \subseteq entries},
                   entries) :
        e.scope.visibility \in S.allowed}

Neighbours(edges, i) == {e.to : e \in {x \in edges : x.from = i}}
                   \cup {e.from : e \in {x \in edges : x.to = i /\ ~ x.directed}}

\* rank: best score first, ties by identity; no score is no result.
Ahead(R, a, b) == \/ R[a].score > R[b].score
                  \/ R[a].score = R[b].score /\ a < b

Scored(R, entries) == {i \in entries : R[i].score > 0}

FirstRanked(R, entries, n) ==
    LET scored == Scored(R, entries)
    IN  {i \in scored : Cardinality({j \in scored : Ahead(R, j, i)}) < n}

\* graph_payload: breadth first, whole levels cut to what the limit leaves.
Traverse(S, entries, edges, start, depth) ==
    LET level[n \in 0..depth] ==
            IF n = 0
            THEN LET first == {start} \cap entries IN [seen |-> first, frontier |-> first]
            ELSE LET before == level[n - 1]
                     near == UNION {Neighbours(edges, i) : i \in before.frontier}
                     new == FirstOf(near \ before.seen,
                                    S.results - Cardinality(before.seen))
                 IN  [seen |-> before.seen \cup new, frontier |-> new]
    IN  level[depth].seen

(***************************************************************************)
(* render_context: a profile P (include, exclude, stale, kinds, bytes,     *)
(* items, candidates) packed greedily under a byte ceiling.  Every         *)
(* candidate starts in the exclusion ledger, which is cut to the longest   *)
(* prefix that fits -- by bisection -- before anything is selected.        *)
(* Sizes: the metadata is one unit, an entry its size, a ledger line as    *)
(* long as its reason.                                                     *)
(***************************************************************************)
LineSize(reason) == IF reason = "not-selected-candidate" THEN 2 ELSE 1

PackSize(R, pack) ==
    1 + SumFunctionOnSet([i \in DOMAIN R |-> R[i].size], pack.selected)
      + SumFunctionOnSet([i \in DOMAIN pack.reason |-> LineSize(pack.reason[i])],
                          DOMAIN pack.reason)

\* include first, each once, then the ranking, cut to the candidate budget.
Considered(S, P, R, entries) ==
    LET included == entries \cap ToSet(P.include)
        place(i) == Min({k \in DOMAIN P.include : P.include[k] = i})
        first(a, b) == \/ a \in included /\ b \in included /\ place(a) < place(b)
                       \/ a \in included /\ b \notin included
                       \/ a \notin included /\ b \notin included /\ Ahead(R, a, b)
        all == included \cup Scored(R, entries)
    IN  [n \in 1..Min({P.candidates, S.budget, Cardinality(all)}) |->
            CHOOSE i \in all : Cardinality({j \in all : first(j, i)}) = n - 1]

Reserved(prefix) ==
    [selected |-> {}, reason |-> [i \in ToSet(prefix) |-> "not-selected-candidate"]]

\* (mutant of FittingPrefix: the ledger is not cut)
WholeLedger(R, ordered, bytes) == ordered

FittingPrefix(R, ordered, bytes) ==
    LET fits(n) == PackSize(R, Reserved(SubSeq(ordered, 1, n))) <= bytes
        range[n \in 0..Len(ordered)] ==
            IF n = 0 THEN [low |-> 0, high |-> Len(ordered)]
            ELSE LET now == range[n - 1]
                     middle == (now.low + now.high + 1) \div 2
                 IN  IF now.low >= now.high THEN now
                     ELSE IF fits(middle) THEN [now EXCEPT !.low = middle]
                     ELSE [now EXCEPT !.high = middle - 1]
    IN  SubSeq(ordered, 1, range[Len(ordered)].low)

\* One candidate: refused for the first reason that applies, or taken if it fits.
PackOne(S, P, R, bytes, pack, i) ==
    LET items == IF P.items < S.results THEN P.items ELSE S.results
        refuse(reason) == [pack EXCEPT !.reason[i] = reason]
        taken == [selected |-> pack.selected \cup {i},
                  reason |-> Restrict(pack.reason, DOMAIN pack.reason \ {i})]
    IN  CASE i \in P.exclude -> refuse("explicit-exclusion")
          [] i \notin P.exclude /\ i \in P.stale -> refuse("revision-mismatch")
          [] i \notin P.exclude \cup P.stale /\ P.kinds # {} /\ R[i].kind \notin P.kinds ->
                refuse("kind-filter")
          [] OTHER ->
                IF Cardinality(pack.selected) >= items THEN refuse("item-budget")
                ELSE IF PackSize(R, taken) <= bytes THEN taken
                ELSE refuse("byte-budget")

Bytes(S, P) == IF P.bytes < S.bytes THEN P.bytes ELSE S.bytes

\* The pack, or none when the metadata alone does not fit.
Pack(S, P, R, entries) ==
    LET bytes == Bytes(S, P)
        ordered == FittingPrefix(R, Considered(S, P, R, entries), bytes)
        packed[n \in 0..Len(ordered)] ==
            IF n = 0 THEN Reserved(ordered)
            ELSE PackOne(S, P, R, bytes, packed[n - 1], ordered[n])
    IN  IF bytes < 1 THEN Reserved(<<>>) ELSE packed[Len(ordered)]

\* run_projection "llms": entries in order until one does not fit.
Entrypoint(S, R, entries) ==
    LET prefix == {n \in 0..S.results :
                     PackSize(R, [selected |-> FirstOf(entries, n), reason |-> <<>>])
                        <= S.bytes}
    IN  FirstOf(entries, Max(prefix \cup {0}))

\* resolve_evidence: a source is shown only to the entries that cite it.
Citing(R, entries, source) == {i \in entries : source \in Citations(R, i)}

=============================================================================

------------------------------ MODULE QueryView ------------------------------
(***************************************************************************)
(* What a session may see of some gardens (application/query_view.py), and *)
(* the canonical moves it follows (domain/routing_transitions.py).         *)
(*                                                                         *)
(* R is a table of records by identity; identities are numbers in the      *)
(* order the code sorts (garden, id) in.  A record has                     *)
(*   garden, kind, status, review, own (its scope or NoScope), legacy (its *)
(*   visibility or "none"), revision (of its bytes), eligible (passes the  *)
(*   publication rule), provenance and evidence (sets of identities), ends *)
(*   (<<subject>> of a claim, <<source, target>> of a synapse, <<artifact>>*)
(*   of a provenance record), links (claims, synapses, supersedes and      *)
(*   contradictions), moved (a provenance record's transition or NoMove)   *)
(*   and asset (it is a review of an asset).                               *)
(* S is the session: scopes (of the registered gardens), readable,         *)
(*   allowed, reviews, execution, request, publication, assets, budget.    *)
(***************************************************************************)
EXTENDS ScopePolicy, FiniteSets, FiniteSetsExt, Functions

NoMove == [from |-> 0, to |-> 0, revision |-> 0]

Recognized == {"knowledge", "claim", "synapse", "source", "provenance"}
Reviewed == {"knowledge", "claim", "synapse"}

\* allows_scope
AllowsScope(S, scope) ==
    /\ scope.visibility \in S.allowed
    /\ scope.persistence # EncryptedVault
    /\ scope.execution = S.execution

\* selected_garden_ids: denied gardens are not even opened.
SelectedGardens(S) == {g \in S.readable : AllowsScope(S, S.scopes[g])}

\* declared_scope_for
DeclaredScope(S, r) ==
    LET garden == S.scopes[r.garden]
    IN  CASE garden.visibility = "public" /\ r.legacy \notin {"none", "public"} ->
                NoScope
          [] r.kind = "provenance" /\ r.legacy = "none" ->
                Inherit({garden, IF r.own = NoScope THEN garden ELSE r.own})
          [] OTHER -> RecordScope(r.own, r.legacy, garden)

\* allowed
Allowed(S, r, review) ==
    /\ DeclaredScope(S, r) # NoScope
    /\ AllowsScope(S, DeclaredScope(S, r))
    /\ review => r.review \in S.reviews

PublicOutput(S) ==
    /\ S.request.visibility = "public"
    /\ S.publication = Publishable

\* permitted: read from the record alone, before any body is opened.
Permitted(S, r) ==
    /\ r.garden \in SelectedGardens(S)
    /\ r.kind \in Recognized
    /\ Allowed(S, r, r.kind \in Reviewed)
    /\ r.kind \in Reviewed => r.status \in {"active", "proposed"}
    /\ PublicOutput(S) => DeclaredScope(S, r).publication = Publishable

Admitted(S, R) == Restrict(R, {i \in DOMAIN R : Permitted(S, R[i])})

\* dependencies: what a record cannot be shown without, by its kind.
Dependencies(r) ==
    CASE r.kind \in {"knowledge", "source"} -> r.provenance \cup r.evidence
      [] r.kind \in {"claim", "synapse", "provenance"} ->
            r.evidence \cup {r.ends[n] : n \in DOMAIN r.ends}

\* retired_references: the moves that permitted provenance records report.
Moves(A) == {A[i].moved : i \in DOMAIN A} \ {NoMove}
Retired(A) == {m.from : m \in Moves(A)}

\* canonical_reference: where a reference leads, following moves.
Canonical(A, i) ==
    LET hop(j) == IF \E m \in Moves(A) : m.from = j
                  THEN (CHOOSE m \in Moves(A) : m.from = j).to ELSE j
        walk[n \in 0..Cardinality(Moves(A))] ==
            IF n = 0 THEN i ELSE hop(walk[n - 1])
    IN  walk[Cardinality(Moves(A))]

\* Conflicting moves, a cycle of moves, or a moved original that has changed.
ViewBroken(A) ==
    \/ \E m, n \in Moves(A) : m # n /\ m.from = n.from
    \/ \E m \in Moves(A) : Canonical(A, m.from) \in Retired(A)
    \/ \E m \in Moves(A) : /\ m.from \in DOMAIN A
                           /\ \/ A[m.from].kind # "knowledge"
                              \/ A[m.from].revision # m.revision

\* A public session also needs each page to pass the publication rule.
Public(S, A) ==
    {i \in DOMAIN A : PublicOutput(S) /\ A[i].kind = "knowledge" => A[i].eligible}

\* The denial work list: a record falls with anything it depends on.
Standing(A, ids) ==
    LET left[n \in 0..Cardinality(ids)] ==
            IF n = 0 THEN ids
            ELSE LET now == left[n - 1]
                 IN  {i \in now : Dependencies(A[i]) \subseteq now}
    IN  left[Cardinality(ids)]

\* (mutant of Effective: scopes do not spread)
DeclaredOnly(S, A, ids) == [i \in ids |-> DeclaredScope(S, A[i])]

\* Scopes spread along dependencies until nothing changes, cycles included.
Effective(S, A, ids) ==
    LET scope[n \in 0..Cardinality(ids)] ==
            IF n = 0 THEN [i \in ids |-> DeclaredScope(S, A[i])]
            ELSE LET now == scope[n - 1]
                 IN  [i \in ids |-> Inherit({now[j] : j \in {i} \cup Dependencies(A[i])})]
    IN  scope[Cardinality(ids)]

AuthorizedUnder(S, A, effective) ==
    Standing(A, {i \in DOMAIN effective : AllowsScope(S, effective[i])})

Authorized(S, A) == AuthorizedUnder(S, A, Effective(S, A, Standing(A, Public(S, A))))

FirstOf(ids, n) == {i \in ids : Cardinality({j \in ids : j < i}) < n}

\* (mutant of Candidates: the budget is applied before authorization)
CandidatesOfAll(S, A, ids) == {i \in DOMAIN A : A[i].kind \in {"knowledge", "claim"}}

\* The window of candidates, cut after authorization and never before.
Candidates(S, A, ids) ==
    {i \in ids : /\ \/ A[i].kind \in {"knowledge", "claim"}
                    \/ /\ S.assets
                       /\ ~ PublicOutput(S)
                       /\ A[i].kind = "source"
                       /\ Allowed(S, A[i], TRUE)
                 /\ i \notin Retired(A)
                 /\ A[i].kind = "claim" => A[i].ends[1] \notin Retired(A)}

Needed(A, roots, ids) ==
    LET found[n \in 0..Cardinality(ids)] ==
            IF n = 0 THEN roots
            ELSE LET now == found[n - 1]
                 IN  now \cup UNION {Dependencies(A[i]) : i \in now}
    IN  found[Cardinality(ids)]

\* What the roots carry along: asset reviews about them, then synapses of both.
AssetsOf(S, A, standing, roots) ==
    {i \in standing : /\ S.assets
                      /\ ~ PublicOutput(S)
                      /\ A[i].asset
                      /\ A[i].ends[1] \in roots}

SynapsesAmong(A, standing, nodes) ==
    {i \in standing : /\ A[i].kind = "synapse"
                      /\ {A[i].ends[1], A[i].ends[2]} \subseteq nodes}

WithCarried(S, A, standing, nodes) ==
    Needed(A, nodes \cup FirstOf(SynapsesAmong(A, standing, nodes), S.budget), standing)

WithRoots(S, A, standing, roots) ==
    WithCarried(S, A, standing, roots \cup AssetsOf(S, A, standing, roots))

\* Candidates outside the window are denied like any other record.
WithWindow(S, A, authorized, candidates, window) ==
    LET standing == Standing(A, authorized \ (candidates \ window))
    IN  WithRoots(S, A, standing, window \cap standing)

WithCandidates(S, A, authorized, candidates) ==
    WithWindow(S, A, authorized, candidates, FirstOf(candidates, S.budget))

Selected(S, A, authorized) ==
    WithCandidates(S, A, authorized, Candidates(S, A, authorized))

(***************************************************************************)
(* metadata_view: the records, their effective scopes, what is retired,    *)
(* and the revision a session pins per garden -- the represented records   *)
(* and transitions, without anything denied.  A broken view has none.      *)
(***************************************************************************)
ViewOf(S, A, ids, scopes) ==
    [broken |-> FALSE, ids |-> ids, scopes |-> Restrict(scopes, ids),
     retired |-> Retired(A),
     revision |->
        [g \in SelectedGardens(S) |->
            {<<i, [A[i] EXCEPT !.links = @ \cap ids], scopes[i]>> :
                i \in {j \in ids : A[j].garden = g}}
            \cup {<<i, A[i]>> : i \in {j \in DOMAIN A : /\ A[j].garden = g
                                                       /\ A[j].moved # NoMove}}]]

AdmittedView(S, A) ==
    IF ViewBroken(A)
    THEN [broken |-> TRUE, ids |-> {}, scopes |-> <<>>, retired |-> {},
          revision |-> [g \in SelectedGardens(S) |-> {}]]
    ELSE ViewOf(S, A, Selected(S, A, Authorized(S, A)),
                Effective(S, A, Standing(A, Public(S, A))))

View(S, R) == AdmittedView(S, Admitted(S, R))

=============================================================================

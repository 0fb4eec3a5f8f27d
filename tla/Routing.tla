------------------------------- MODULE Routing -------------------------------
(***************************************************************************)
(* Which garden an authored note goes to, and how it moves on              *)
(* (application/routing.py, application/routing_lifecycle.py,              *)
(* domain/routing_transitions.py).                                         *)
(*                                                                         *)
(* W is what an invocation reads: bind, the scopes of the bound gardens,   *)
(* and garden, their records.  A request q has an id, a digest, controller *)
(* (the garden of its curation), human (a person answers for its reviews), *)
(* candidates (id, sources, merge, and output: id, body, domains, approved)*)
(* and routes, for each candidate preferred and relevant gardens and       *)
(* public (a review approves publication).  A catalog C has a digest,      *)
(* entries (garden -> scope, domains, contracts) and a fallback.           *)
(* A transition t has an id, a digest, operation, from (references), to,   *)
(* human and approved.                                                     *)
(*                                                                         *)
(* The derived record, its lineage and its curation receipt are one record *)
(* here, a reference with its synapse and lineage another: module Curation *)
(* has them one by one.  Wording and confidence are left out.              *)
(***************************************************************************)
EXTENDS ScopePolicy, FiniteSets, Sequences

CONSTANT Manifest    \* garden -> domains, contracts, and what it may publish

Nowhere == "nowhere"
Unpinned == "unpinned"

Ref(g, id, revision) == [garden |-> g, id |-> id, revision |-> revision]
NoRef == Ref(Nowhere, <<>>, Unpinned)
RefTo(r) == Ref(r.garden, r.id, r.body)
Place(ref) == <<ref.garden, ref.id>>

\* by is the digest of the request that a record names, "" when it names none.
Blank == [garden |-> Nowhere, id |-> <<>>, kind |-> "none", body |-> "",
          scope |-> NoScope, approved |-> FALSE, eligible |-> FALSE, unit |-> <<>>,
          role |-> "none", home |-> NoRef, by |-> "", catalog |-> "",
          inputs |-> {}, decisions |-> {}, to |-> NoRef]

All(W) == UNION {W.garden[g] : g \in DOMAIN W.bind}
Exists(W, ref) == \E r \in All(W) : RefTo(r) = ref
Record(W, ref) == CHOOSE r \in All(W) : RefTo(r) = ref
ScopeIn(W, r) == RecordScope(r.scope, "none", W.bind[r.garden])

(***************************************************************************)
(* Transitions: a record is retired in favour of another.                  *)
(***************************************************************************)
Moves(records) == {r \in records : r.kind = "transition"}

\* As far as next leads from there.
Follow(next, from) ==
    LET far == Cardinality(DOMAIN next)
        walk[n \in 0..far] ==
            IF n = 0 THEN from
            ELSE IF walk[n - 1] \in DOMAIN next THEN next[walk[n - 1]] ELSE walk[n - 1]
    IN  walk[far]

\* canonical_reference: where a reference leads.
Lead(records, ref) ==
    Follow([f \in {m.home : m \in Moves(records)} |->
               (CHOOSE m \in Moves(records) : m.home = f).to], ref)

Retired(records) == {Place(m.home) : m \in Moves(records)}
RetiredBy(records, ref) == {m.by : m \in {n \in Moves(records) : Place(n.home) = Place(ref)}}

\* retired_references: one transition of each record, and no way round.
Consistent(records) ==
    LET moves == Moves(records)
        next == [place \in Retired(records) |->
                    Place((CHOOSE m \in moves : Place(m.home) = place).to)]
    IN  /\ \A m, n \in moves :
              Place(m.home) = Place(n.home) => <<m.by, m.home, m.to>> = <<n.by, n.home, n.to>>
        /\ \A place \in Retired(records) : Follow(next, place) \notin Retired(records)

(***************************************************************************)
(* rejection(): may a garden hold what is made from these?                 *)
(***************************************************************************)
Evidence(c) == c.sources \cup c.merge
Restrictions(W, c) == {ScopeIn(W, Record(W, ref)) : ref \in Evidence(c)}

IsPublic(C, g) == C.entries[g].scope.visibility = "public"

\* The garden already has every restriction of what flows into it.
Bounded(C, g, scopes) ==
    \A joined \in {Inherit({C.entries[g].scope} \cup scopes)} :
        /\ joined.visibility = C.entries[g].scope.visibility
        /\ joined.persistence # EncryptedVault
        /\ joined.persistence <= C.entries[g].scope.persistence

\* A person has reviewed the publication, the garden's allowlist covers it,
\* and a personal garden keeps the private part of the record.
Publishes(W, C, q, c, g, scopes) ==
    /\ q.controller \in DOMAIN C.entries
    /\ C.entries[q.controller].scope.visibility = "personal"
    /\ q.routes[c.id].public
    /\ Inherit({C.entries[g].scope} \cup scopes).publication # 2
    /\ c.output.domains \subseteq Manifest[g].publishes
    /\ \A ref \in c.sources : Record(W, ref).eligible

Accepts(W, C, q, c, g, scopes, contracts) ==
    /\ g \in DOMAIN C.entries
    /\ Bounded(C, g, scopes)
    /\ contracts \subseteq C.entries[g].contracts
    /\ IsPublic(C, g) => Publishes(W, C, q, c, g, scopes)

AcceptsHome(W, C, q, c, g) ==
    /\ Accepts(W, C, q, c, g, Restrictions(W, c), {"knowledge", "receipt"})
    /\ c.output.domains \subseteq C.entries[g].domains

(***************************************************************************)
(* One home for each candidate: the only preferred garden that accepts it, *)
(* or else the private fallback.                                           *)
(***************************************************************************)
Home(W, C, q, c) ==
    LET accepted == {g \in q.routes[c.id].preferred : AcceptsHome(W, C, q, c, g)}
    IN  CASE Cardinality(accepted) = 1 -> CHOOSE g \in accepted : TRUE
          [] Cardinality(accepted) # 1 /\ C.fallback # Nowhere
                /\ AcceptsHome(W, C, q, c, C.fallback) -> C.fallback
          [] OTHER -> Nowhere

\* The candidates that are placed, each with its home.
Placed(W, C, q) ==
    {x \in {[c |-> c, home |-> Home(W, C, q, c)] : c \in {d \in q.candidates : d.output.approved}} :
        x.home # Nowhere}

HomeRef(x) == Ref(x.home, x.c.output.id, x.c.output.body)

\* What names the unit: in a public garden nothing of the private request.
Unit(q, c) == <<q.id, c.id>>
PortableUnit(C, q, x) ==
    IF IsPublic(C, x.home) THEN <<"public-selection", x.home, x.c.output, Evidence(x.c)>>
    ELSE Unit(q, x.c)

KnowledgeScope(W, x) == Inherit({W.bind[x.home]} \cup Restrictions(W, x.c))

Knowledge(W, C, q, x) ==
    [Blank EXCEPT
        !.garden = x.home, !.id = x.c.output.id, !.kind = "knowledge",
        !.body = x.c.output.body, !.approved = TRUE, !.eligible = IsPublic(C, x.home),
        !.scope = KnowledgeScope(W, x), !.unit = PortableUnit(C, q, x),
        !.role = "canonical", !.home = HomeRef(x), !.inputs = Evidence(x.c),
        !.by = IF IsPublic(C, x.home) THEN "" ELSE q.digest]

\* (mutant of BoundedBy: the note's own home does not restrict its references)
EvidenceOnly(W, x) == Restrictions(W, x.c)

\* What restricts a reference: the evidence, and the note where it is placed.
BoundedBy(W, x) == Restrictions(W, x.c) \cup {KnowledgeScope(W, x)}

References(W, C, q, x) ==
    {[Blank EXCEPT
        !.garden = g, !.id = <<"reference", HomeRef(x)>>, !.kind = "knowledge",
        !.body = "reference", !.approved = TRUE,
        !.scope = Inherit({C.entries[g].scope, KnowledgeScope(W, x)}),
        !.unit = PortableUnit(C, q, x), !.role = "reference",
        !.home = HomeRef(x), !.inputs = {HomeRef(x)}] :
     g \in {h \in q.routes[x.c.id].relevant \ {x.home} :
               Accepts(W, C, q, x.c, h, BoundedBy(W, x), {"knowledge", "synapse"})}}

(***************************************************************************)
(* The routing receipts: in the home, or for a public home in the garden   *)
(* of the curation.                                                        *)
(***************************************************************************)
AuditHome(C, q, x) == IF IsPublic(C, x.home) THEN q.controller ELSE x.home

Decision(W, C, q, x) ==
    [candidate |-> x.c.id, home |-> HomeRef(x),
     references |-> {RefTo(r) : r \in {s \in References(W, C, q, x) :
        C.entries[s.garden].scope.visibility
            \in {"public", C.entries[AuditHome(C, q, x)].scope.visibility}}}]

ReceiptId(q) == <<"routing", q.id>>

Receipts(W, C, q, placed) ==
    {[Blank EXCEPT
        !.garden = g, !.id = ReceiptId(q), !.kind = "receipt",
        !.by = q.digest, !.catalog = C.digest,
        !.decisions = {Decision(W, C, q, x) : x \in {y \in placed : AuditHome(C, q, y) = g}}] :
     g \in {AuditHome(C, q, x) : x \in placed}}

RouteFiles(W, C, q, placed) ==
    Receipts(W, C, q, placed)
    \cup UNION {{Knowledge(W, C, q, x)} \cup References(W, C, q, x) : x \in placed}

(***************************************************************************)
(* What is refused.                                                        *)
(***************************************************************************)
\* Files are created or are there already; a plan has one content for each.
Unambiguous(files) ==
    \A r, s \in files : r.garden = s.garden /\ r.id = s.id => r = s
Compatible(W, files) ==
    \A r \in files : \A s \in W.garden[r.garden] : r.id = s.id => r = s

\* ROUTE_CATALOG, ROUTE_FALLBACK
Describes(W, C) ==
    /\ \A g \in DOMAIN C.entries :
          /\ g \in DOMAIN W.bind
          /\ C.entries[g] = [scope |-> W.bind[g], domains |-> Manifest[g].domains,
                             contracts |-> Manifest[g].contracts]
    /\ C.fallback # Nowhere =>
          /\ C.fallback \in DOMAIN C.entries
          /\ C.entries[C.fallback].scope.visibility = "personal"

\* ROUTE_REVISION_REQUIRED: the same name was placed by another request.
Revised(W, q) ==
    \E r \in All(W) : r.kind = "receipt" /\ r.id = ReceiptId(q) /\ r.by # q.digest

\* ROUTE_TRANSFER_REQUIRED: a receipt or a record gives the unit another home.
Transferred(W, q, x) ==
    \E r \in All(W) :
        \/ /\ r.kind = "receipt" /\ r.id = ReceiptId(q)
           /\ \E d \in r.decisions : d.candidate = x.c.id /\ d.home # HomeRef(x)
        \/ r.role = "canonical" /\ r.unit = Unit(q, x.c) /\ r.home # HomeRef(x)

Routable(W, C, q) ==
    /\ Consistent(All(W))
    /\ Describes(W, C)
    /\ ~Revised(W, q)
    /\ \A c, d \in q.candidates : c.id = d.id => c = d
    /\ \A c \in q.candidates : c.output.approved =>
          /\ q.human
          /\ \A ref \in Evidence(c) : Exists(W, ref)

Placeable(W, q, placed, files) ==
    /\ \A x \in placed : ~Transferred(W, q, x)
    /\ Unambiguous(files) /\ Compatible(W, files)
    /\ \A r \in files : r.kind \in Manifest[r.garden].contracts

(***************************************************************************)
(* build_transition_plan: a move makes the note again at its destination,  *)
(* a merge names a note that was made from all of them; the originals stay *)
(* and are marked as retired.                                              *)
(***************************************************************************)
\* resolve(): the exact note, approved, and not retired by somebody else.
Resolves(W, t, ref) ==
    /\ Exists(W, ref)
    /\ Record(W, ref).kind = "knowledge" /\ Record(W, ref).approved
    /\ RetiredBy(All(W), ref) \subseteq {t.digest}

Originals(W, t) == {Record(W, ref) : ref \in t.from}

Target(W, t) ==
    IF t.operation = "move"
    THEN Ref(t.to.garden, t.to.id, (CHOOSE r \in Originals(W, t) : TRUE).body) ELSE t.to

TransitionScope(W, t) ==
    Inherit({W.bind[t.to.garden]} \cup {ScopeIn(W, r) : r \in Originals(W, t)})

\* Only between gardens of one ordinary personal policy.
SamePolicy(W, t) ==
    /\ TransitionScope(W, t).visibility = "personal"
    /\ TransitionScope(W, t).persistence # EncryptedVault
    /\ \A r \in Originals(W, t) :
          /\ W.bind[r.garden] = W.bind[t.to.garden]
          /\ ScopeIn(W, r) = TransitionScope(W, t)

\* What names the unit of a note that no request placed; never a name of Unit.
Unrouted(r) == <<r.garden, "/", r.id>>

Derivative(W, t, r) ==
    [r EXCEPT !.garden = t.to.garden, !.id = t.to.id, !.by = t.digest,
              !.unit = IF r.unit = <<>> THEN Unrouted(r) ELSE r.unit,
              !.scope = TransitionScope(W, t),
              !.role = "canonical", !.home = Target(W, t),
              !.inputs = @ \cup t.from]

Retirements(W, t) ==
    {[Blank EXCEPT !.garden = r.garden, !.id = <<"transition", t.id, RefTo(r)>>,
                   !.kind = "transition", !.by = t.digest, !.home = RefTo(r),
                   !.to = Target(W, t)] : r \in Originals(W, t)}

TransitionFiles(W, t) ==
    Retirements(W, t) \cup
    (IF t.operation = "move" THEN {Derivative(W, t, r) : r \in Originals(W, t)} ELSE {})

Movable(W, t) ==
    /\ Cardinality(t.from) = 1
    /\ "knowledge" \in Manifest[t.to.garden].contracts
    /\ \A r \in Originals(W, t) :
          /\ r.role # "reference"
          /\ \A ref \in r.inputs : Exists(W, ref)
          /\ t.to.revision \in {Unpinned, r.body}

Mergeable(W, t) ==
    /\ Cardinality(t.from) > 1
    /\ Resolves(W, t, t.to)
    /\ ScopeIn(W, Record(W, t.to)) = TransitionScope(W, t)
    /\ t.from \subseteq Record(W, t.to).inputs

Transferable(W, t) ==
    /\ t.human /\ t.approved
    /\ Consistent(All(W))
    /\ t.to.garden \in DOMAIN W.bind
    /\ \A ref \in t.from : Resolves(W, t, ref) /\ Place(ref) # Place(t.to)
    /\ SamePolicy(W, t)
    /\ IF t.operation = "move" THEN Movable(W, t) ELSE Mergeable(W, t)
    /\ Compatible(W, TransitionFiles(W, t))

=============================================================================

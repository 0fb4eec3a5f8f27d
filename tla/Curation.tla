------------------------------ MODULE Curation ------------------------------
(***************************************************************************)
(* What a curation proposal makes of a garden (application/curation.py     *)
(* build_curation_plan, application/records.py).                           *)
(*                                                                         *)
(* A proposal q has an id, human (whether a person answers for its         *)
(* reviews) and a sequence of candidates.  A candidate c has an id, an     *)
(* action, sources and merge (references with exact revisions, merge a     *)
(* sequence) and, unless it is deferred or excluded, an output: id, body,  *)
(* status, review, reference (is it of that kind), marks, supersedes,      *)
(* claims and synapses.  marks qualify a note: attribution, authors,       *)
(* caveats (with them uncertainty) and contradictions.                     *)
(*                                                                         *)
(* The target is one bound garden G of scope b, as the command line passes *)
(* it.  Selectors within a source, redactions, wording and the contracts   *)
(* that a manifest declares are left out.                                  *)
(***************************************************************************)
EXTENDS GardenRecords

Discarding == {"defer", "exclude"}
ReceiptId(q) == <<"curation">> \o q.id
LineageId(id) == <<"provenance">> \o id

Outputs(q) == {c.output : c \in {d \in ToSet(q.candidates) : d.action \notin Discarding}}

(***************************************************************************)
(* Evidence: what a candidate starts from, and what that rests on.         *)
(***************************************************************************)
\* resolve(): an exact revision of a record of that kind.
Exact(G, ref, kind) ==
    \E r \in G.records : r.id = ref.id /\ r.kind = kind /\ ref.revision = Digest(G, r)

Merged(G, c) == {Record(G, ref.id) : ref \in ToSet(c.merge)}
MadeFrom(G, c) == {Record(G, ref.id) : ref \in c.sources} \cup Merged(G, c)

EvidenceOf(r) == {ref \in r.refs : ref.role = "evidence"}
Evidence(G, c) == c.sources \cup UNION {EvidenceOf(r) : r \in Merged(G, c)}

Grounded(G, c) ==
    /\ \A ref \in ToSet(c.merge) : Exact(G, ref, "knowledge")
    /\ Cardinality(ToSet(c.merge)) = Len(c.merge)
    /\ \A ref \in c.sources : Exact(G, ref, "source")
    /\ \A ref \in Evidence(G, c) : Exact(G, ref, "source")

(***************************************************************************)
(* What an output inherits.                                                *)
(***************************************************************************)
ScopeIn(b, r) == RecordScope(r.own, r.legacy, b)

\* (mutant of CandidateScope: the sources of the candidate only)
ScopeOfSources(G, b, c) == Inherit({b} \cup {ScopeIn(b, Record(G, ref.id)) : ref \in c.sources})

CandidateScope(G, b, c) == Inherit({b} \cup {ScopeIn(b, r) : r \in MadeFrom(G, c)})

Scoped(G, b, c) ==
    /\ \A r \in MadeFrom(G, c) : ScopeIn(b, r) # NoScope
    /\ CandidateScope(G, b, c).persistence # EncryptedVault

Attributed(merged) == {r \in merged : r.marks.attribution # "none"}

\* (mutant of Qualified: what was merged qualifies only an output that says nothing)
QualifiedOnce(o, merged) ==
    LET inherited == UNION {r.marks.caveats : r \in merged}
    IN  [o.marks EXCEPT !.caveats = IF @ = {} THEN inherited ELSE @]

Qualified(o, merged) ==
    [attribution |-> IF \A r \in Attributed(merged) : r.marks.attribution = o.marks.attribution
                     THEN o.marks.attribution ELSE "mixed",
     authors |-> o.marks.authors \cup UNION {r.marks.authors : r \in merged},
     caveats |-> o.marks.caveats \cup UNION {r.marks.caveats : r \in merged},
     contradictions |-> o.marks.contradictions \cup UNION {r.marks.contradictions : r \in merged}]

(***************************************************************************)
(* The records of a candidate that is kept.                                *)
(***************************************************************************)
\* What every derived record says of where it may be seen.
Derived(id, kind, scope) ==
    [Blank EXCEPT !.id = id, !.kind = kind, !.own = scope,
                  !.legacy = LegacyVisibility(scope.visibility)]

Lineage(G, scope, c) ==
    [Blank EXCEPT !.id = LineageId(c.output.id), !.kind = "provenance",
        !.own = scope,
        !.refs = {Ref("artifact", c.output.id, c.output.body)}
                 \cup {Ref("input", r.id, Digest(G, r)) : r \in MadeFrom(G, c)},
        !.marks = [action |-> c.action, candidate |-> c.id]]

Standing(review) == IF review = "approved" THEN "active" ELSE "proposed"

Claim(G, scope, c, claim) ==
    [Derived(claim.id, "claim", scope) EXCEPT
        !.status = Standing(claim.review), !.review = claim.review,
        !.refs = {Ref("subject", c.output.id, c.output.body)} \cup claim.evidence,
        !.marks = [Qualified(c.output, Merged(G, c)) EXCEPT !.contradictions = {}]]

Relationship(G, scope, c, s) ==
    [Derived(s.id, "synapse", scope) EXCEPT
        !.status = Standing(s.review), !.review = s.review,
        !.type = s.type, !.directed = s.directed,
        !.refs = {Ref("source", c.output.id, c.output.body), s.target} \cup Evidence(G, c)]

Claims(G, scope, c) == {Claim(G, scope, c, claim) : claim \in c.output.claims}
Relationships(G, scope, c) == {Relationship(G, scope, c, s) : s \in c.output.synapses}

Pinned(role, records) == {Ref(role, r.id, r) : r \in records}

Knowledge(G, scope, c) ==
    [Derived(c.output.id, "knowledge", scope) EXCEPT
        !.status = c.output.status, !.review = c.output.review, !.body = c.output.body,
        !.refs = Evidence(G, c) \cup c.output.supersedes
                 \cup Pinned("claims", Claims(G, scope, c))
                 \cup Pinned("synapses", Relationships(G, scope, c))
                 \cup Pinned("provenance", {Lineage(G, scope, c)}),
        !.marks = Qualified(c.output, Merged(G, c))]

RecordsOf(G, b, c) ==
    LET scope == CandidateScope(G, b, c)
    IN  IF c.action \in Discarding THEN {}
        ELSE {Knowledge(G, scope, c), Lineage(G, scope, c)}
             \cup Claims(G, scope, c) \cup Relationships(G, scope, c)

\* Dispositions are kept whatever becomes of the candidate.
Receipt(G, b, q) ==
    [Blank EXCEPT !.id = ReceiptId(q), !.kind = "receipt",
        !.own = Inherit({b} \cup {CandidateScope(G, b, c) : c \in ToSet(q.candidates)}),
        !.refs = (UNION {c.sources : c \in ToSet(q.candidates)})
                 \cup {Ref("output", o.id, o.body) : o \in Outputs(q)},
        !.marks = [plan |-> q]]

\* What the plan writes: identities of outputs are refused twice, so that no
\* file replaces another of the plan.
Planned(G, b, q) ==
    (UNION {RecordsOf(G, b, c) : c \in ToSet(q.candidates)}) \cup {Receipt(G, b, q)}

\* Records take the place of those of the same identity.
Written(files, records) ==
    {r \in files : \A s \in records : s.id # r.id} \cup records

\* The garden with the files of a plan.
With(G, records, q) ==
    [G EXCEPT !.records = Written(@, records),
              !.bodies = [id \in DOMAIN @ \cup {o.id : o \in Outputs(q)} |->
                              IF \E o \in Outputs(q) : o.id = id
                              THEN (CHOOSE o \in Outputs(q) : o.id = id).body ELSE @[id]]]

(***************************************************************************)
(* What a proposal may say.                                                *)
(***************************************************************************)
\* require_review_authority
Answered(q, review) == review \in {"approved", "rejected"} => q.human

Reviewed(q, o) ==
    /\ Answered(q, o.review)
    /\ o.status = "active" => o.review = "approved"
    /\ \A item \in o.claims \cup o.synapses : Answered(q, item.review)

\* Claims may use only evidence that is retained in the candidate.
Selected(G, c) ==
    \A claim \in c.output.claims : \A ref \in claim.evidence :
        ref.role = "evidence" => ref \in Evidence(G, c)

\* Identities of the outputs of a candidate, each as often as it is given.
Named(c) ==
    IF c.action \in Discarding THEN <<>>
    ELSE <<c.output.id>> \o SetToSeq({claim.id : claim \in c.output.claims})
                         \o SetToSeq({s.id : s \in c.output.synapses})

Unambiguous(q) ==
    /\ IsInjective([i \in DOMAIN q.candidates |-> q.candidates[i].id])
    /\ IsInjective(FlattenSeq([i \in DOMAIN q.candidates |-> Named(q.candidates[i])]))

\* CURATION_CONFLICT: an identity means one record, in the garden and in the plan.
Compatible(G, records) == \A r \in G.records \cup records, s \in records : r.id = s.id => r = s

Links(G, c) ==
    Qualified(c.output, Merged(G, c)).contradictions \cup c.output.supersedes
    \cup {s.target : s \in c.output.synapses}
    \cup {ref \in UNION {claim.evidence : claim \in c.output.claims} : ref.role # "evidence"}

\* What is linked must exist: an older record in its exact revision, one of
\* this plan in any.
Linked(G, H, c) ==
    \A ref \in Links(G, c) :
        \E r \in H.records :
            /\ r.id = ref.id
            /\ \/ ref.revision = Digest(H, r)
               \/ ref.revision = Unpinned /\ r.id \notin Identities(G)

Derivable(G, b, q, c) ==
    /\ Grounded(G, c)
    /\ Scoped(G, b, c)
    /\ c.action \notin Discarding =>
          /\ Reviewed(q, c.output)
          /\ Selected(G, c)
          /\ c.action = "reference" => c.output.reference

Kept(q) == {c \in ToSet(q.candidates) : c.action \notin Discarding}

Plannable(G, b, q) ==
    /\ b.visibility # "public" /\ b.persistence # EncryptedVault
    /\ Valid(G, {})
    /\ Unambiguous(q)
    /\ \A c \in ToSet(q.candidates) : Derivable(G, b, q, c)
    /\ \A records \in {Planned(G, b, q)} :
          /\ Compatible(G, records)
          /\ \A c \in Kept(q) : Linked(G, With(G, records, q), c)

=============================================================================

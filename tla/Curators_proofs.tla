--------------------------- MODULE Curators_proofs ---------------------------
(***************************************************************************)
(* What curation does to a garden, for any garden, bindings and proposals, *)
(* any number of curators and any number of steps of the owner.            *)
(*                                                                         *)
(* What a curator applies is what the proposal means for the garden and    *)
(* the bindings of that moment (Ready): between the two plannings neither  *)
(* becomes again what the review was tied to (Unreturned), since owners    *)
(* take nothing back that is under review and a plan that is applied adds  *)
(* an identity (Adding, Grown).  So each plan adds records to a garden     *)
(* that is Sane, and leaves a Sane one.                                    *)
(***************************************************************************)
EXTENDS Curators, TLAPS

(***************************************************************************)
(* The join of scopes.                                                     *)
(***************************************************************************)
LEMMA StrictestIs ==
    ASSUME NEW levels \in SUBSET Level, levels # {}
    PROVE  /\ Strictest(levels) \in levels
           /\ \A l \in levels : l <= Strictest(levels)
<1>1. \E l \in levels : \A m \in levels : m <= l
  <2>1. CASE 2 \in levels
    BY <2>1 DEF Level
  <2>2. CASE 2 \notin levels /\ 1 \in levels
    BY <2>2 DEF Level
  <2>3. CASE 2 \notin levels /\ 1 \notin levels
    <3>1. ASSUME NEW l \in levels
          PROVE  l = 0
      <4>1. l \in 0..2 /\ l # 1 /\ l # 2
        BY <2>3 DEF Level
      <4> QED BY <4>1
    <3> QED BY <3>1
  <2> QED BY <2>1, <2>2, <2>3
<1> QED BY <1>1 DEF Strictest

\* Labels that have no join but the strictest.
Mixed(scopes) ==
    \/ \E s \in scopes : s.visibility = "restricted"
    \/ \E s, t \in scopes : s.visibility = "organization" /\ t.visibility = "personal"

\* What a join of scopes is, label by label and level by level.
LEMMA InheritIs ==
    ASSUME NEW scopes \in SUBSET ScopeFields, scopes # {}
    PROVE  /\ Inherit(scopes) \in Scopes
           /\ Mixed(scopes) => Inherit(scopes) = Restricted
           /\ ~ Mixed(scopes) =>
                /\ Inherit(scopes).visibility \in Visibility \ {"restricted"}
                /\ \A v \in {"organization", "personal"} :
                      Inherit(scopes).visibility = v <=> \E s \in scopes : s.visibility = v
                /\ Inherit(scopes).publication = Strictest({s.publication : s \in scopes})
                /\ Inherit(scopes).execution = Strictest({s.execution : s \in scopes})
                /\ Inherit(scopes).persistence = Strictest({s.persistence : s \in scopes})
<1> DEFINE labels == {s.visibility : s \in scopes}
           private == labels \ {"public"}
<1>1. labels \in SUBSET Visibility
  BY DEF ScopeFields
<1>2. /\ Mixed(scopes) => Classification(labels) = "restricted"
      /\ ~ Mixed(scopes) =>
            /\ Classification(labels) \in Visibility \ {"restricted"}
            /\ \A v \in {"organization", "personal"} :
                  Classification(labels) = v <=> v \in labels
  <2>1. Mixed(scopes) <=> \/ "restricted" \in labels
                          \/ {"organization", "personal"} \subseteq labels
    BY DEF Mixed
  <2> HIDE DEF labels
  <2>2. CASE private = {}
    BY <1>1, <2>1, <2>2 DEF Classification, Visibility
  <2>3. ASSUME NEW v, private = {v}
        PROVE  Classification(labels) = v
    BY <2>3 DEF Classification
  <2>4. CASE \E v \in private : private = {v}
    <3>1. PICK v \in private : private = {v}
      BY <2>4
    <3>2. Classification(labels) = v /\ v \in Visibility \ {"public"}
      BY <1>1, <2>3, <3>1
    <3> QED BY <1>1, <2>1, <3>1, <3>2 DEF Visibility
  <2>5. CASE private # {} /\ ~ \E v \in private : private = {v}
    <3>1. Classification(labels) = "restricted"
      BY <2>5 DEF Classification
    <3>2. Mixed(scopes)
      BY <1>1, <2>1, <2>5 DEF Visibility
    <3> QED BY <3>1, <3>2
  <2> QED BY <2>2, <2>4, <2>5
<1>3. /\ {s.publication : s \in scopes} \in SUBSET Level
      /\ {s.execution : s \in scopes} \in SUBSET Level
      /\ {s.persistence : s \in scopes} \in SUBSET Level
      /\ {s.publication : s \in scopes} # {}
      /\ {s.execution : s \in scopes} # {}
      /\ {s.persistence : s \in scopes} # {}
  BY DEF ScopeFields
<1>4. CASE Mixed(scopes)
  <2>1. Inherit(scopes) = Restricted
    BY <1>2, <1>4 DEF Inherit
  <2>2. Restricted \in Scopes
    BY DEF Restricted, Scopes, ScopeFields, Visibility, Level, Offline, EncryptedVault
  <2> QED BY <1>4, <2>1, <2>2
<1>5. CASE ~ Mixed(scopes)
  <2> DEFINE class == Classification(labels)
             joined == [visibility  |-> class,
                        publication |-> Strictest({s.publication : s \in scopes}),
                        execution   |-> Strictest({s.execution : s \in scopes}),
                        persistence |-> Strictest({s.persistence : s \in scopes})]
  <2>1. Inherit(scopes) = joined
    BY <1>2, <1>5 DEF Inherit
  <2>2. /\ class \in Visibility \ {"restricted"}
        /\ \A v \in {"organization", "personal"} : class = v <=> v \in labels
    BY <1>2, <1>5
  <2>3. /\ Strictest({s.publication : s \in scopes}) \in Level
        /\ Strictest({s.execution : s \in scopes}) \in Level
        /\ Strictest({s.persistence : s \in scopes}) \in Level
    BY <1>3, StrictestIs
  <2> HIDE DEF class
  <2>4. joined \in Scopes
    BY <2>2, <2>3 DEF Scopes, ScopeFields
  <2> QED BY <1>5, <2>1, <2>2, <2>4
<1> QED BY <1>4, <1>5

\* A join is at least as strict as what it joins.
LEMMA InheritBounds ==
    ASSUME NEW scopes \in SUBSET ScopeFields, NEW s \in scopes
    PROVE  AtLeast(Inherit(scopes), s)
<1>1. s \in ScopeFields /\ scopes # {}
  OBVIOUS
<1>2. CASE Mixed(scopes)
  <2>1. Inherit(scopes) = Restricted
    BY <1>1, <1>2, InheritIs
  <2> QED BY <1>1, <2>1 DEF AtLeast, Restricted, ScopeFields, Level, Offline, EncryptedVault
<1>3. CASE ~ Mixed(scopes)
  <2> DEFINE t == Inherit(scopes)
             pub == {x.publication : x \in scopes}
             exe == {x.execution : x \in scopes}
             per == {x.persistence : x \in scopes}
  <2>1. /\ t.publication = Strictest(pub)
        /\ t.execution = Strictest(exe)
        /\ t.persistence = Strictest(per)
        /\ \A v \in {"organization", "personal"} :
              t.visibility = v <=> \E x \in scopes : x.visibility = v
    BY <1>1, <1>3, InheritIs
  <2>2. /\ pub \in SUBSET Level /\ s.publication \in pub
        /\ exe \in SUBSET Level /\ s.execution \in exe
        /\ per \in SUBSET Level /\ s.persistence \in per
    BY DEF ScopeFields
  <2>3. /\ s.publication <= Strictest(pub)
        /\ s.execution <= Strictest(exe)
        /\ s.persistence <= Strictest(per)
    <3> HIDE DEF pub, exe, per
    <3> QED BY <2>2, StrictestIs
  <2>4. s.visibility \in {"public", "organization", "personal"}
    BY <1>1, <1>3 DEF Mixed, ScopeFields, Visibility
  <2>5. s.visibility = "public" \/ t.visibility = s.visibility
    BY <2>1, <2>4
  <2> HIDE DEF t, pub, exe, per
  <2> QED BY <2>1, <2>3, <2>5 DEF AtLeast, t
<1> QED BY <1>2, <1>3

\* Restrictions are ordered.
LEMMA AtLeastTransitive ==
    ASSUME NEW s \in ScopeFields, NEW t \in ScopeFields, NEW u \in ScopeFields,
           AtLeast(s, t), AtLeast(t, u)
    PROVE  AtLeast(s, u)
<1>1. /\ u.publication <= s.publication
      /\ u.execution <= s.execution
      /\ u.persistence <= s.persistence
  BY DEF AtLeast, ScopeFields, Level
<1>2. u.visibility = "public" \/ s.visibility \in {u.visibility, "restricted"}
  BY DEF AtLeast, ScopeFields, Visibility
<1> QED BY <1>1, <1>2 DEF AtLeast

\* The scope that a record has under the mapping of its garden: no scope, or one
\* that is as strict as its own.
LEMMA ScopeInIs ==
    ASSUME NEW b \in Scopes, NEW r, r.own \in Scopes \cup {NoScope}
    PROVE  /\ ScopeIn(b, r) \in Scopes \cup {NoScope}
           /\ ScopeIn(b, r) # NoScope /\ r.own # NoScope => AtLeast(ScopeIn(b, r), r.own)
<1>1. \A t \in ScopeFields : Inherit({b, t}) \in Scopes /\ AtLeast(Inherit({b, t}), t)
  <2> SUFFICES ASSUME NEW t \in ScopeFields
               PROVE  Inherit({b, t}) \in Scopes /\ AtLeast(Inherit({b, t}), t)
    OBVIOUS
  <2>1. {b, t} \in SUBSET ScopeFields /\ {b, t} # {} /\ t \in {b, t}
    BY DEF Scopes
  <2> QED BY <2>1, InheritIs, InheritBounds
<1>2. Inherit({b}) \in Scopes
  <2>1. {b} \in SUBSET ScopeFields /\ {b} # {}
    BY DEF Scopes
  <2> QED BY <2>1, InheritIs
<1>3. [b EXCEPT !.visibility = "public"] \in ScopeFields
  BY DEF Scopes, ScopeFields, Visibility
<1>4. CASE r.own = NoScope
  BY <1>1, <1>2, <1>3, <1>4 DEF ScopeIn, RecordScope
<1>5. CASE r.own # NoScope
  <2>1. r.own \in ScopeFields
    BY <1>5 DEF Scopes
  <2>2. ScopeIn(b, r) \in {Inherit({b, r.own}), NoScope}
    BY <1>5 DEF ScopeIn, RecordScope
  <2> QED BY <1>1, <2>1, <2>2
<1> QED BY <1>4, <1>5

\* What a candidate makes is at least as restricted as what it is made from.
LEMMA CandidateScopeIs ==
    ASSUME NEW G, NEW b \in Scopes, NEW c, Scoped(G, b, c),
           \A r \in MadeFrom(G, c) : r.own \in Scopes \cup {NoScope}
    PROVE  /\ CandidateScope(G, b, c) \in Scopes
           /\ CandidateScope(G, b, c) # NoScope
           /\ \A r \in MadeFrom(G, c) :
                 r.own # NoScope => AtLeast(CandidateScope(G, b, c), r.own)
<1> DEFINE all == {b} \cup {ScopeIn(b, r) : r \in MadeFrom(G, c)}
<1>1. \A r \in MadeFrom(G, c) : ScopeIn(b, r) \in Scopes
  BY ScopeInIs DEF Scoped
<1>2. all \in SUBSET ScopeFields /\ all # {}
  BY <1>1 DEF Scopes
<1>3. CandidateScope(G, b, c) = Inherit(all)
  BY DEF CandidateScope
<1>4. Inherit(all) \in Scopes
  <2> HIDE DEF all
  <2> QED BY <1>2, InheritIs
<1>5. NoScope \notin Scopes
  BY DEF NoScope, Scopes, ScopeFields, Visibility
<1>6. ASSUME NEW r \in MadeFrom(G, c), r.own # NoScope
      PROVE  AtLeast(Inherit(all), r.own)
  <2>1. ScopeIn(b, r) \in all
    OBVIOUS
  <2>2. AtLeast(Inherit(all), ScopeIn(b, r))
    <3> HIDE DEF all
    <3> QED BY <1>2, <2>1, InheritBounds
  <2>3. ScopeIn(b, r) # NoScope
    BY DEF Scoped
  <2>4. AtLeast(ScopeIn(b, r), r.own)
    BY <1>6, <2>3, ScopeInIs
  <2>5. /\ Inherit(all) \in ScopeFields /\ ScopeIn(b, r) \in ScopeFields
        /\ r.own \in ScopeFields
    BY <1>1, <1>4, <1>6 DEF Scopes
  <2> QED BY <2>2, <2>4, <2>5, AtLeastTransitive
<1> QED BY <1>3, <1>4, <1>5, <1>6

(***************************************************************************)
(* The records of a plan.                                                  *)
(***************************************************************************)
\* One identity is one record.
Unique(G) == \A r, s \in G.records : r.id = s.id => r = s

\* An identity leads to the record that has it.
LEMMA RecordIs ==
    ASSUME NEW G, Unique(G), NEW r \in G.records
    PROVE  Record(G, r.id) = r
  BY DEF Record, Unique

\* An identity of the garden leads to some record of it.
LEMMA RecordExists ==
    ASSUME NEW G, NEW id \in Identities(G)
    PROVE  Record(G, id) \in G.records /\ Record(G, id).id = id
  BY DEF Record, Identities

\* A record that stays is found again.
LEMMA RecordStays ==
    ASSUME NEW G, NEW H, Unique(H), G.records \subseteq H.records, NEW id \in Identities(G)
    PROVE  Record(H, id) = Record(G, id)
  BY RecordExists, RecordIs

\* Lineage records of two notes have two identities.
LEMMA LineagesDiffer ==
    ASSUME NEW i \in Seq(STRING), NEW j \in Seq(STRING), LineageId(i) = LineageId(j)
    PROVE  i = j
<1>1. /\ Len(LineageId(i)) = Len(i) + 1 /\ Len(LineageId(j)) = Len(j) + 1
      /\ \A n \in 1..Len(i) : LineageId(i)[n + 1] = i[n]
      /\ \A n \in 1..Len(j) : LineageId(j)[n + 1] = j[n]
  BY DEF LineageId
<1>2. Len(i) = Len(j) /\ Len(i) \in Nat
  BY <1>1
<1>3. \A n \in 1..Len(i) : i[n] = j[n]
  BY <1>1, <1>2
<1> QED BY <1>2, <1>3

\* The fields of each.
LEMMA KnowledgeIs ==
    ASSUME NEW G, NEW scope, NEW c
    PROVE  /\ DOMAIN Knowledge(G, scope, c) = DOMAIN Blank
           /\ Knowledge(G, scope, c).id = c.output.id
           /\ Knowledge(G, scope, c).kind = "knowledge"
           /\ Knowledge(G, scope, c).own = scope
           /\ Knowledge(G, scope, c).marks = Qualified(c.output, Merged(G, c))
  BY DEF Knowledge, Derived, Blank

\* What a note of a plan refers to.
LEMMA KnowledgeRefs ==
    ASSUME NEW G, NEW scope, NEW c
    PROVE  Knowledge(G, scope, c).refs =
              Evidence(G, c) \cup c.output.supersedes
              \cup Pinned("claims", Claims(G, scope, c))
              \cup Pinned("synapses", Relationships(G, scope, c))
              \cup Pinned("provenance", {Lineage(G, scope, c)})
  BY DEF Knowledge, Derived, Blank

\* The lineage record names what the note was made from.
LEMMA LineageIs ==
    ASSUME NEW G, NEW scope, NEW c
    PROVE  /\ DOMAIN Lineage(G, scope, c) = DOMAIN Blank
           /\ Lineage(G, scope, c).id = LineageId(c.output.id)
           /\ Lineage(G, scope, c).kind = "provenance"
           /\ Lineage(G, scope, c).own = scope
           /\ Lineage(G, scope, c).refs =
                 {Ref("artifact", c.output.id, c.output.body)}
                 \cup {Ref("input", r.id, Digest(G, r)) : r \in MadeFrom(G, c)}
  BY DEF Lineage, Blank

\* A claim refers to its note and to its evidence.
LEMMA ClaimIs ==
    ASSUME NEW G, NEW scope, NEW c, NEW claim
    PROVE  /\ DOMAIN Claim(G, scope, c, claim) = DOMAIN Blank
           /\ Claim(G, scope, c, claim).id = claim.id
           /\ Claim(G, scope, c, claim).kind = "claim"
           /\ Claim(G, scope, c, claim).own = scope
           /\ Claim(G, scope, c, claim).refs =
                 {Ref("subject", c.output.id, c.output.body)} \cup claim.evidence
  BY DEF Claim, Derived, Blank

\* A synapse refers to its ends and to the evidence of its note.
LEMMA RelationshipIs ==
    ASSUME NEW G, NEW scope, NEW c, NEW s
    PROVE  /\ DOMAIN Relationship(G, scope, c, s) = DOMAIN Blank
           /\ Relationship(G, scope, c, s).id = s.id
           /\ Relationship(G, scope, c, s).kind = "synapse"
           /\ Relationship(G, scope, c, s).own = scope
           /\ Relationship(G, scope, c, s).refs =
                 {Ref("source", c.output.id, c.output.body), s.target} \cup Evidence(G, c)
  BY DEF Relationship, Derived, Blank

\* The receipt refers to sources and outputs.
LEMMA ReceiptIs ==
    ASSUME NEW G, NEW b, NEW q
    PROVE  /\ DOMAIN Receipt(G, b, q) = DOMAIN Blank
           /\ Receipt(G, b, q).id = ReceiptId(q)
           /\ Receipt(G, b, q).kind = "receipt"
           /\ Receipt(G, b, q).own =
                 Inherit({b} \cup {CandidateScope(G, b, c) : c \in ToSet(q.candidates)})
           /\ Receipt(G, b, q).refs =
                 (UNION {c.sources : c \in ToSet(q.candidates)})
                 \cup {Ref("output", o.id, o.body) : o \in Outputs(q)}
  BY DEF Receipt, Blank

\* The kinds of record that a plan has.
Makes(G, b, q, r) ==
    \/ r = Receipt(G, b, q)
    \/ \E c \in Kept(q) :
          LET scope == CandidateScope(G, b, c)
          IN  \/ r = Knowledge(G, scope, c)
              \/ r = Lineage(G, scope, c)
              \/ \E claim \in c.output.claims : r = Claim(G, scope, c, claim)
              \/ \E s \in c.output.synapses : r = Relationship(G, scope, c, s)

\* A plan is of these kinds, and each output that is kept has its note and lineage.
LEMMA PlannedIs ==
    ASSUME NEW G, NEW b, NEW q
    PROVE  /\ \A r \in Planned(G, b, q) : Makes(G, b, q, r)
           /\ \A c \in Kept(q) :
                 /\ Knowledge(G, CandidateScope(G, b, c), c) \in Planned(G, b, q)
                 /\ Lineage(G, CandidateScope(G, b, c), c) \in Planned(G, b, q)
<1>1. ASSUME NEW r \in Planned(G, b, q)
      PROVE  Makes(G, b, q, r)
  <2>1. CASE r = Receipt(G, b, q)
    BY <2>1 DEF Makes
  <2>2. CASE r # Receipt(G, b, q)
    <3>1. PICK c \in ToSet(q.candidates) : r \in RecordsOf(G, b, c)
      BY <2>2 DEF Planned
    <3>2. c \in Kept(q)
      BY <3>1 DEF RecordsOf, Kept
    <3>3. r \in {Knowledge(G, CandidateScope(G, b, c), c), Lineage(G, CandidateScope(G, b, c), c)}
                \cup Claims(G, CandidateScope(G, b, c), c)
                \cup Relationships(G, CandidateScope(G, b, c), c)
      BY <3>1, <3>2 DEF RecordsOf, Kept
    <3> QED BY <3>2, <3>3 DEF Makes, Claims, Relationships
  <2> QED BY <2>1, <2>2
<1>2. ASSUME NEW c \in Kept(q)
      PROVE  /\ Knowledge(G, CandidateScope(G, b, c), c) \in Planned(G, b, q)
             /\ Lineage(G, CandidateScope(G, b, c), c) \in Planned(G, b, q)
  <2>1. /\ Knowledge(G, CandidateScope(G, b, c), c) \in RecordsOf(G, b, c)
        /\ Lineage(G, CandidateScope(G, b, c), c) \in RecordsOf(G, b, c)
    BY DEF RecordsOf, Kept
  <2> QED BY <2>1 DEF Planned, Kept
<1> QED BY <1>1, <1>2

(***************************************************************************)
(* A garden whose records hold together.                                   *)
(***************************************************************************)
\* What a record cites, and what it was made from, is in the garden.
Anchored(G) ==
    \A r \in G.records : \A ref \in r.refs :
        ref.role \in {"input", "evidence"} => ref.id \in Identities(G)

\* Every note, whether it has a lineage or not.
CitesBound(G) ==
    \A r \in G.records : r.kind = "knowledge" => \A o \in Cited(G, r) : Binds(r, o)

\* It can be read at all.
Held(G) ==
    /\ {"records", "bodies"} \subseteq DOMAIN G
    /\ Unique(G)
    /\ \A r \in G.records : Formed(r)

Sane(G) ==
    /\ Held(G)
    /\ Anchored(G)
    /\ CitesBound(G)
    /\ Restricting(G)
    /\ Qualifying(G)

\* Gardens are sane at first.
LEMMA FirstGardensAreSane == \A G \in Gardens : Sane(G)
<1> SUFFICES ASSUME NEW G \in Gardens
             PROVE  Sane(G)
  OBVIOUS
<1>1. Valid(G, {})
  BY GardensAssumption
<1>2. Unique(G)
  BY <1>1 DEF Valid, Intact, Unique
<1>3. Anchored(G)
  <2> SUFFICES ASSUME NEW r \in G.records, NEW ref \in r.refs, ref.role \in {"input", "evidence"}
               PROVE  ref.id \in Identities(G)
    BY DEF Anchored
  <2>1. Resolves(G, r, ref)
    BY <1>1 DEF Valid
  <2> QED BY <2>1 DEF Resolves, Identities
<1>4. CitesBound(G)
  BY GardensAssumption DEF CitesBound
<1> QED BY <1>2, <1>3, <1>4, GardensAssumption DEF Sane, Held

\* What a garden says of its notes does not change when records are added to it.
LEMMA MoreRecords ==
    ASSUME NEW G, NEW H, Anchored(G), Unique(H), G.records \subseteq H.records,
           NEW r \in G.records
    PROVE  /\ Cited(H, r) = Cited(G, r)
           /\ LineageId(r.id) \in Identities(G) => Origins(H, r) = Origins(G, r)
<1>1. \A ref \in r.refs :
          ref.role \in {"input", "evidence"} => Record(H, ref.id) = Record(G, ref.id)
  BY RecordStays DEF Anchored
<1>2. Cited(H, r) = Cited(G, r)
  BY <1>1 DEF Cited, EvidenceOf
<1>3. ASSUME LineageId(r.id) \in Identities(G)
      PROVE  Origins(H, r) = Origins(G, r)
  <2> DEFINE l == Record(G, LineageId(r.id))
  <2>1. l \in G.records /\ Record(H, LineageId(r.id)) = l
    BY <1>3, RecordExists, RecordStays
  <2>2. \A ref \in l.refs : ref.role = "input" => Record(H, ref.id) = Record(G, ref.id)
    BY <2>1, RecordStays DEF Anchored
  <2> QED BY <2>1, <2>2 DEF Origins
<1> QED BY <1>2, <1>3

\* What a grounded candidate starts from.
LEMMA GroundedIs ==
    ASSUME NEW G, Unique(G), NEW c, Grounded(G, c)
    PROVE  /\ \A ref \in c.sources :
                 /\ ref.id \in Identities(G) /\ Record(G, ref.id) \in G.records
                 /\ Record(G, ref.id).kind = "source"
           /\ \A r \in Merged(G, c) : r \in G.records /\ r.kind = "knowledge"
           /\ MadeFrom(G, c) \subseteq G.records
           /\ \A r \in MadeFrom(G, c) : r.kind = "knowledge" => r \in Merged(G, c)
           /\ \A ref \in Evidence(G, c) : ref.id \in Identities(G)
<1>1. ASSUME NEW ref, NEW kind, Exact(G, ref, kind)
      PROVE  /\ ref.id \in Identities(G) /\ Record(G, ref.id) \in G.records
             /\ Record(G, ref.id).kind = kind
  BY <1>1, RecordIs DEF Exact, Identities
<1>2. \A ref \in c.sources :
          /\ ref.id \in Identities(G) /\ Record(G, ref.id) \in G.records
          /\ Record(G, ref.id).kind = "source"
  BY <1>1 DEF Grounded
<1>3. \A r \in Merged(G, c) : r \in G.records /\ r.kind = "knowledge"
  BY <1>1 DEF Grounded, Merged
<1>4. \A ref \in Evidence(G, c) : ref.id \in Identities(G)
  BY <1>1 DEF Grounded
<1>5. /\ MadeFrom(G, c) \subseteq G.records
      /\ \A r \in MadeFrom(G, c) : r.kind = "knowledge" => r \in Merged(G, c)
  BY <1>2, <1>3 DEF MadeFrom
<1> QED BY <1>2, <1>3, <1>4, <1>5

\* The roles of what an output names.
Spoken(c) ==
    /\ c.output.id \in Seq(STRING)
    /\ \A ref \in c.output.supersedes : ref.role = "supersedes"
    /\ \A s \in c.output.synapses : s.target.role = "target"
    /\ \A claim \in c.output.claims : \A ref \in claim.evidence : ref.role \in {"evidence", "about"}

\* ProposalsAssumption, candidate by candidate.
LEMMA ProposalsSpeak ==
    ASSUME NEW q \in Proposals
    PROVE  /\ \A c \in Kept(q) : Spoken(c)
           /\ \A c \in ToSet(q.candidates) : \A ref \in c.sources : ref.role = "evidence"
  BY ProposalsAssumption DEF Kept, Spoken

\* What a note of a plan cites is the evidence of its candidate.
LEMMA EvidenceIs ==
    ASSUME NEW G, NEW scope, NEW c, Spoken(c), \A ref \in c.sources : ref.role = "evidence"
    PROVE  EvidenceOf(Knowledge(G, scope, c)) = Evidence(G, c)
<1> DEFINE k == Knowledge(G, scope, c)
<1>1. k.refs = Evidence(G, c) \cup c.output.supersedes
               \cup Pinned("claims", Claims(G, scope, c))
               \cup Pinned("synapses", Relationships(G, scope, c))
               \cup Pinned("provenance", {Lineage(G, scope, c)})
  BY KnowledgeRefs
<1>2. \A ref \in Evidence(G, c) : ref.role = "evidence"
  BY DEF Evidence, EvidenceOf
<1>3. \A role, records : \A ref \in Pinned(role, records) : ref.role = role
  BY DEF Pinned, Ref
<1>4. \A ref \in c.output.supersedes : ref.role = "supersedes"
  BY DEF Spoken
<1> HIDE DEF k
<1> QED BY <1>1, <1>2, <1>3, <1>4 DEF EvidenceOf, k

(***************************************************************************)
(* What a plan adds.                                                       *)
(***************************************************************************)
\* What qualifies one note qualifies the other.
Carries(r, o) ==
    /\ o.marks.authors \subseteq r.marks.authors
    /\ o.marks.caveats \subseteq r.marks.caveats
    /\ o.marks.contradictions \subseteq r.marks.contradictions
    /\ EvidenceOf(o) \subseteq EvidenceOf(r)
    /\ o.marks.attribution # "none" => r.marks.attribution \in {o.marks.attribution, "mixed"}

\* What binds what binds a note binds the note.
LEMMA BindsTransitive ==
    ASSUME NEW r, NEW m, NEW o, Binds(r, m), Binds(m, o),
           r.own \in Scopes \cup {NoScope}, m.own \in Scopes \cup {NoScope},
           o.own \in Scopes \cup {NoScope}
    PROVE  Binds(r, o)
<1> SUFFICES ASSUME o.own # NoScope
             PROVE  r.own # NoScope /\ AtLeast(r.own, o.own)
  BY DEF Binds
<1>1. /\ m.own # NoScope /\ AtLeast(m.own, o.own)
      /\ r.own # NoScope /\ AtLeast(r.own, m.own)
  BY DEF Binds
<1>2. r.own \in ScopeFields /\ m.own \in ScopeFields /\ o.own \in ScopeFields
  BY <1>1 DEF Scopes
<1> QED BY <1>1, <1>2, AtLeastTransitive

\* A merge carries on what qualifies a note that is merged.
LEMMA MergesCarry ==
    ASSUME NEW G, NEW scope, NEW c, NEW m \in Merged(G, c), Spoken(c),
           \A ref \in c.sources : ref.role = "evidence"
    PROVE  Carries(Knowledge(G, scope, c), m)
<1> DEFINE k == Knowledge(G, scope, c)
<1>a. k.marks = Qualified(c.output, Merged(G, c))
  BY KnowledgeIs
<1>b. EvidenceOf(k) = Evidence(G, c)
  BY EvidenceIs
<1>1. k.marks = Qualified(c.output, Merged(G, c)) /\ EvidenceOf(k) = Evidence(G, c)
  BY <1>a, <1>b
<1> HIDE DEF k
<1>2. /\ m.marks.authors \subseteq k.marks.authors
      /\ m.marks.caveats \subseteq k.marks.caveats
      /\ m.marks.contradictions \subseteq k.marks.contradictions
  BY <1>1 DEF Qualified
<1>3. EvidenceOf(m) \subseteq EvidenceOf(k)
  BY <1>1 DEF Evidence
<1>4. ASSUME m.marks.attribution # "none"
      PROVE  k.marks.attribution \in {m.marks.attribution, "mixed"}
  <2>1. m \in Attributed(Merged(G, c))
    BY <1>4 DEF Attributed
  <2>2. k.marks.attribution = IF \A r \in Attributed(Merged(G, c)) :
                                    r.marks.attribution = c.output.marks.attribution
                              THEN c.output.marks.attribution ELSE "mixed"
    BY <1>1 DEF Qualified
  <2> QED BY <2>1, <2>2
<1> QED BY <1>2, <1>3, <1>4 DEF Carries, k

\* A note of a plan is bound by all that it was made from and all that it cites.
LEMMA NotesFit ==
    ASSUME NEW G, NEW H, NEW b \in Scopes, NEW q \in Proposals, NEW c \in Kept(q),
           Sane(G), Derivable(G, b, q, c), Unique(H), G.records \subseteq H.records,
           Knowledge(G, CandidateScope(G, b, c), c) \in H.records,
           Lineage(G, CandidateScope(G, b, c), c) \in H.records
    PROVE  LET k == Knowledge(G, CandidateScope(G, b, c), c)
           IN  /\ \A o \in Cited(H, k) : Binds(k, o)
               /\ \A o \in Origins(H, k) : Binds(k, o) /\ (o.kind = "knowledge" => Carries(k, o))
<1> DEFINE scope == CandidateScope(G, b, c)
           k == Knowledge(G, scope, c)
           l == Lineage(G, scope, c)
<1>1. Spoken(c) /\ \A ref \in c.sources : ref.role = "evidence"
  BY ProposalsSpeak DEF Kept
<1>2. /\ \A ref \in c.sources : ref.id \in Identities(G) /\ Record(G, ref.id) \in G.records
      /\ \A r \in Merged(G, c) : r \in G.records /\ r.kind = "knowledge"
      /\ MadeFrom(G, c) \subseteq G.records
      /\ \A r \in MadeFrom(G, c) : r.kind = "knowledge" => r \in Merged(G, c)
      /\ \A ref \in Evidence(G, c) : ref.id \in Identities(G)
  BY GroundedIs DEF Sane, Held, Derivable
<1>3. \A r \in G.records : r.own \in Scopes \cup {NoScope}
  BY DEF Sane, Held, Formed
<1>4. /\ scope \in Scopes /\ scope # NoScope
      /\ \A r \in MadeFrom(G, c) : r.own # NoScope => AtLeast(scope, r.own)
  BY <1>2, <1>3, CandidateScopeIs DEF Derivable
<1>5. /\ DOMAIN k = DOMAIN Blank
      /\ k.id = c.output.id /\ k.kind = "knowledge" /\ k.own = scope
      /\ k.marks = Qualified(c.output, Merged(G, c))
  BY KnowledgeIs
<1>e. EvidenceOf(k) = Evidence(G, c)
  BY <1>1, EvidenceIs
<1>6. /\ l.id = LineageId(c.output.id)
      /\ l.refs = {Ref("artifact", c.output.id, c.output.body)}
                  \cup {Ref("input", r.id, Digest(G, r)) : r \in MadeFrom(G, c)}
  BY LineageIs
<1>7. \A r \in G.records : Record(H, r.id) = r
  BY RecordIs
<1>8. Record(H, LineageId(c.output.id)) = l
  BY <1>6, RecordIs
<1>9. \A ref \in Evidence(G, c) : Record(H, ref.id) = Record(G, ref.id)
  BY <1>2, RecordStays
<1>10. \A m \in Merged(G, c) : Carries(k, m)
  BY <1>1, MergesCarry
<1> HIDE DEF scope, k, l
<1>11. \A r \in MadeFrom(G, c) : Binds(k, r)
  BY <1>4, <1>5 DEF Binds
<1>13. Origins(H, k) \subseteq MadeFrom(G, c)
  BY <1>2, <1>5, <1>6, <1>7, <1>8 DEF Origins, Ref
<1>14. ASSUME NEW o \in Cited(H, k)
       PROVE  Binds(k, o)
  <2>1. PICK ref \in Evidence(G, c) : o = Record(G, ref.id)
    BY <1>e, <1>9 DEF Cited
  <2>2. CASE ref \in c.sources
    BY <1>11, <2>1, <2>2 DEF MadeFrom
  <2>3. CASE \E m \in Merged(G, c) : ref \in EvidenceOf(m)
    <3>1. PICK m \in Merged(G, c) : ref \in EvidenceOf(m)
      BY <2>3
    <3>2. m \in G.records /\ m.kind = "knowledge" /\ o \in Cited(G, m)
      BY <1>2, <2>1, <3>1 DEF Cited
    <3>3. Binds(m, o)
      BY <3>2 DEF Sane, Held, CitesBound
    <3>4. Binds(k, m)
      BY <1>11, <3>1 DEF MadeFrom
    <3>5. o \in G.records
      BY <1>2, <2>1, RecordExists
    <3> QED BY <1>3, <1>4, <1>5, <3>2, <3>3, <3>4, <3>5, BindsTransitive
  <2> QED BY <2>1, <2>2, <2>3 DEF Evidence
<1> QED BY <1>2, <1>10, <1>11, <1>13, <1>14 DEF k, scope

\* Only a lineage record names inputs, and whatever a record of a plan cites or
\* was made from is in the garden already.
LEMMA PlannedRefs ==
    ASSUME NEW G, Unique(G), NEW b, NEW q \in Proposals,
           \A c \in ToSet(q.candidates) : Derivable(G, b, q, c),
           NEW r \in Planned(G, b, q)
    PROVE  /\ \/ \E c \in Kept(q) : r = Lineage(G, CandidateScope(G, b, c), c)
              \/ \A ref \in r.refs : ref.role # "input"
           /\ \A ref \in r.refs : ref.role \in {"input", "evidence"} => ref.id \in Identities(G)
<1>1. \A c \in Kept(q) : c \in ToSet(q.candidates) /\ c.action \notin Discarding /\ Spoken(c)
  BY ProposalsSpeak DEF Kept
<1>2. \A c \in ToSet(q.candidates) : \A ref \in c.sources : ref.role = "evidence"
  BY ProposalsSpeak
<1>3. ASSUME NEW c \in ToSet(q.candidates)
      PROVE  /\ \A ref \in Evidence(G, c) : ref.id \in Identities(G) /\ ref.role = "evidence"
             /\ MadeFrom(G, c) \subseteq G.records
  <2>1. Grounded(G, c)
    BY DEF Derivable
  <2>2. /\ \A ref \in Evidence(G, c) : ref.id \in Identities(G)
        /\ MadeFrom(G, c) \subseteq G.records
    BY <2>1, GroundedIs
  <2>3. \A ref \in Evidence(G, c) : ref.role = "evidence"
    BY <1>2 DEF Evidence, EvidenceOf
  <2> QED BY <2>2, <2>3
<1>4. \A role, id, revision : Ref(role, id, revision).role = role /\ Ref(role, id, revision).id = id
  BY DEF Ref
<1>5. CASE r = Receipt(G, b, q)
  <2>1. r.refs = (UNION {c.sources : c \in ToSet(q.candidates)})
                 \cup {Ref("output", o.id, o.body) : o \in Outputs(q)}
    BY <1>5, ReceiptIs
  <2>2. \A c \in ToSet(q.candidates) : c.sources \subseteq Evidence(G, c)
    BY DEF Evidence
  <2> QED BY <1>3, <1>4, <2>1, <2>2
<1>6. ASSUME NEW c \in Kept(q), r = Lineage(G, CandidateScope(G, b, c), c)
      PROVE  \A ref \in r.refs : ref.role \in {"input", "evidence"} => ref.id \in Identities(G)
  <2>1. r.refs = {Ref("artifact", c.output.id, c.output.body)}
                 \cup {Ref("input", o.id, Digest(G, o)) : o \in MadeFrom(G, c)}
    BY <1>6, LineageIs
  <2>2. \A o \in MadeFrom(G, c) : o.id \in Identities(G)
    BY <1>1, <1>3 DEF Identities
  <2> QED BY <1>4, <2>1, <2>2
<1>7. ASSUME NEW c \in Kept(q), r = Knowledge(G, CandidateScope(G, b, c), c)
      PROVE  \A ref \in r.refs :
                /\ ref.role # "input"
                /\ ref.role = "evidence" => ref.id \in Identities(G)
  <2> DEFINE scope == CandidateScope(G, b, c)
  <2>1. r.refs = Evidence(G, c) \cup c.output.supersedes
                 \cup Pinned("claims", Claims(G, scope, c))
                 \cup Pinned("synapses", Relationships(G, scope, c))
                 \cup Pinned("provenance", {Lineage(G, scope, c)})
    BY <1>7, KnowledgeRefs
  <2>2. \A role, records : \A ref \in Pinned(role, records) : ref.role = role
    BY <1>4 DEF Pinned
  <2>3. \A ref \in c.output.supersedes : ref.role = "supersedes"
    BY <1>1 DEF Spoken
  <2>4. \A ref \in Evidence(G, c) : ref.id \in Identities(G) /\ ref.role = "evidence"
    BY <1>1, <1>3
  <2> HIDE DEF scope
  <2> QED BY <2>1, <2>2, <2>3, <2>4
<1>8. ASSUME NEW c \in Kept(q), NEW claim \in c.output.claims,
             r = Claim(G, CandidateScope(G, b, c), c, claim)
      PROVE  \A ref \in r.refs :
                /\ ref.role # "input"
                /\ ref.role = "evidence" => ref.id \in Identities(G)
  <2>1. r.refs = {Ref("subject", c.output.id, c.output.body)} \cup claim.evidence
    BY <1>8, ClaimIs
  <2>2. \A ref \in claim.evidence :
            /\ ref.role \in {"evidence", "about"}
            /\ ref.role = "evidence" => ref \in Evidence(G, c)
    BY <1>1 DEF Spoken, Derivable, Selected
  <2> QED BY <1>1, <1>3, <1>4, <2>1, <2>2
<1>9. ASSUME NEW c \in Kept(q), NEW s \in c.output.synapses,
             r = Relationship(G, CandidateScope(G, b, c), c, s)
      PROVE  \A ref \in r.refs :
                /\ ref.role # "input"
                /\ ref.role = "evidence" => ref.id \in Identities(G)
  <2>1. r.refs = {Ref("source", c.output.id, c.output.body), s.target} \cup Evidence(G, c)
    BY <1>9, RelationshipIs
  <2>2. s.target.role = "target"
    BY <1>1 DEF Spoken
  <2> QED BY <1>1, <1>3, <1>4, <2>1, <2>2
<1>10. Makes(G, b, q, r)
  BY PlannedIs
<1> QED BY <1>5, <1>6, <1>7, <1>8, <1>9, <1>10 DEF Makes

\* Whatever a plan makes has the fields of a record, and a note in it comes with
\* its lineage.
LEMMA PlannedForms ==
    ASSUME NEW G, Held(G), NEW b \in Scopes, NEW q \in Proposals,
           \A c \in ToSet(q.candidates) : Derivable(G, b, q, c),
           NEW r \in Planned(G, b, q)
    PROVE  /\ Formed(r)
           /\ r.kind = "knowledge" =>
                 \E c \in Kept(q) : r = Knowledge(G, CandidateScope(G, b, c), c)
<1>1. ASSUME NEW c \in ToSet(q.candidates)
      PROVE  CandidateScope(G, b, c) \in Scopes
  <2>1. MadeFrom(G, c) \subseteq G.records
    BY GroundedIs DEF Held, Derivable
  <2>2. \A o \in MadeFrom(G, c) : o.own \in Scopes \cup {NoScope}
    BY <2>1 DEF Held, Formed
  <2> QED BY <2>2, CandidateScopeIs DEF Derivable
<1>2. \A c \in Kept(q) : CandidateScope(G, b, c) \in Scopes
  BY <1>1 DEF Kept
<1>3. CASE r = Receipt(G, b, q)
  <2> DEFINE all == {b} \cup {CandidateScope(G, b, c) : c \in ToSet(q.candidates)}
  <2>1. all \in SUBSET ScopeFields /\ all # {}
    BY <1>1 DEF Scopes
  <2>2. DOMAIN r = DOMAIN Blank /\ r.kind = "receipt" /\ r.own = Inherit(all)
    BY <1>3, ReceiptIs
  <2> HIDE DEF all
  <2>3. Inherit(all) \in Scopes
    BY <2>1, InheritIs
  <2> QED BY <2>2, <2>3 DEF Formed
<1>4. CASE \E c \in Kept(q) : r = Knowledge(G, CandidateScope(G, b, c), c)
  <2>1. PICK c \in Kept(q) : r = Knowledge(G, CandidateScope(G, b, c), c)
    BY <1>4
  <2>2. /\ DOMAIN r = DOMAIN Blank /\ r.id = c.output.id /\ r.own = CandidateScope(G, b, c)
        /\ r.marks = Qualified(c.output, Merged(G, c))
    BY <2>1, KnowledgeIs
  <2>3. c.output.id \in Seq(STRING)
    BY ProposalsSpeak DEF Spoken
  <2>4. Formed(r)
    BY <1>2, <2>2, <2>3 DEF Formed, Qualified
  <2> QED BY <2>1, <2>4
<1>5. CASE \E c \in Kept(q) : r = Lineage(G, CandidateScope(G, b, c), c)
  <2>1. PICK c \in Kept(q) : r = Lineage(G, CandidateScope(G, b, c), c)
    BY <1>5
  <2>2. /\ DOMAIN r = DOMAIN Blank /\ r.kind = "provenance" /\ r.own = CandidateScope(G, b, c)
    BY <2>1, LineageIs
  <2> QED BY <1>2, <2>2 DEF Formed
<1>6. CASE \E c \in Kept(q) : \E claim \in c.output.claims :
              r = Claim(G, CandidateScope(G, b, c), c, claim)
  <2> PICK c \in Kept(q) : \E claim \in c.output.claims :
            r = Claim(G, CandidateScope(G, b, c), c, claim)
    BY <1>6
  <2>1. PICK claim \in c.output.claims : r = Claim(G, CandidateScope(G, b, c), c, claim)
    OBVIOUS
  <2>2. /\ DOMAIN r = DOMAIN Blank /\ r.kind = "claim" /\ r.own = CandidateScope(G, b, c)
    BY <2>1, ClaimIs
  <2> QED BY <1>2, <2>2 DEF Formed
<1>7. CASE \E c \in Kept(q) : \E s \in c.output.synapses :
              r = Relationship(G, CandidateScope(G, b, c), c, s)
  <2> PICK c \in Kept(q) : \E s \in c.output.synapses :
            r = Relationship(G, CandidateScope(G, b, c), c, s)
    BY <1>7
  <2>1. PICK s \in c.output.synapses : r = Relationship(G, CandidateScope(G, b, c), c, s)
    OBVIOUS
  <2>2. /\ DOMAIN r = DOMAIN Blank /\ r.kind = "synapse" /\ r.own = CandidateScope(G, b, c)
    BY <2>1, RelationshipIs
  <2> QED BY <1>2, <2>2 DEF Formed
<1> QED BY <1>3, <1>4, <1>5, <1>6, <1>7, PlannedIs DEF Makes

\* The files of a plan that replace no other.
LEMMA WithIs ==
    ASSUME NEW G, NEW records, NEW q, {"records", "bodies"} \subseteq DOMAIN G
    PROVE  /\ DOMAIN With(G, records, q) = DOMAIN G
           /\ With(G, records, q).records = Written(G.records, records)
  BY DEF With

\* A plan without conflicts adds its records and keeps identities apart.
LEMMA CompatibleAdds ==
    ASSUME NEW G, NEW records, NEW q, {"records", "bodies"} \subseteq DOMAIN G,
           Unique(G), Compatible(G, records)
    PROVE  /\ With(G, records, q).records = G.records \cup records
           /\ Unique(With(G, records, q))
<1>1. With(G, records, q).records = Written(G.records, records)
  BY WithIs
<1>2. Written(G.records, records) = G.records \cup records
  BY DEF Written, Compatible
<1>3. \A r, s \in G.records \cup records : r.id = s.id => r = s
  BY DEF Compatible, Unique
<1> QED BY <1>1, <1>2, <1>3 DEF Unique

\* A plan adds its records and replaces none.
LEMMA PlanHolds ==
    ASSUME NEW G, NEW b \in Scopes, NEW q \in Proposals, Held(G), Plannable(G, b, q)
    PROVE  /\ Held(With(G, Planned(G, b, q), q))
           /\ With(G, Planned(G, b, q), q).records = G.records \cup Planned(G, b, q)
<1> DEFINE P == Planned(G, b, q)
           H == With(G, P, q)
<1>1. /\ {"records", "bodies"} \subseteq DOMAIN G /\ Unique(G)
      /\ \A r \in G.records : Formed(r)
  BY DEF Held
<1>2. Compatible(G, P) /\ \A c \in ToSet(q.candidates) : Derivable(G, b, q, c)
  BY DEF Plannable
<1>3. DOMAIN H = DOMAIN G
  <2> HIDE DEF P
  <2> QED BY <1>1, WithIs
<1>4. H.records = G.records \cup P /\ Unique(H)
  <2> HIDE DEF P
  <2> QED BY <1>1, <1>2, CompatibleAdds
<1>5. \A r \in P : Formed(r)
  BY <1>2, PlannedForms
<1> HIDE DEF H
<1>6. Held(H)
  BY <1>1, <1>3, <1>4, <1>5 DEF Held
<1> QED BY <1>4, <1>6 DEF H

\* The lineage in a plan that a note of the garden gets is the one of a note of
\* the plan that it is, and any other record of a plan was made from nothing.
LEMMA NewLineages ==
    ASSUME NEW G, NEW H, NEW b \in Scopes, NEW q \in Proposals,
           Sane(G), Unique(H), Planned(G, b, q) \subseteq H.records,
           \A c \in ToSet(q.candidates) : Derivable(G, b, q, c),
           NEW r \in H.records, r.kind = "knowledge", r.id \in Seq(STRING),
           ~ \E c \in Kept(q) : r = Knowledge(G, CandidateScope(G, b, c), c),
           NEW l \in Planned(G, b, q), l.id = LineageId(r.id)
    PROVE  Origins(H, r) = {}
<1>1. Record(H, LineageId(r.id)) = l
  BY RecordIs
<1>2. CASE \A ref \in l.refs : ref.role # "input"
  BY <1>1, <1>2 DEF Origins
<1>3. CASE \E c \in Kept(q) : l = Lineage(G, CandidateScope(G, b, c), c)
  <2>1. PICK c \in Kept(q) : l = Lineage(G, CandidateScope(G, b, c), c)
    BY <1>3
  <2>2. l.id = LineageId(c.output.id)
    BY <2>1, LineageIs
  <2>3. c.output.id \in Seq(STRING)
    BY ProposalsSpeak DEF Spoken
  <2>4. r.id = c.output.id
    BY <2>2, <2>3, LineagesDiffer
  <2>5. /\ Knowledge(G, CandidateScope(G, b, c), c).id = r.id
        /\ Knowledge(G, CandidateScope(G, b, c), c) \in H.records
    BY <2>4, KnowledgeIs, PlannedIs
  <2>6. r = Knowledge(G, CandidateScope(G, b, c), c)
    BY <2>5 DEF Unique
  <2> QED BY <2>6
<1>4. Unique(G)
  BY DEF Sane, Held
<1> QED BY <1>2, <1>3, <1>4, PlannedRefs

\* A plan adds to a sane garden, and what it leaves is sane.
LEMMA PlanKeeps ==
    ASSUME NEW G, NEW b \in Scopes, NEW q \in Proposals, Sane(G), Plannable(G, b, q)
    PROVE  LET H == With(G, Planned(G, b, q), q)
           IN  Sane(H) /\ H.records = G.records \cup Planned(G, b, q)
<1> DEFINE P == Planned(G, b, q)
           H == With(G, P, q)
<1>1. /\ Held(G) /\ \A r \in G.records : Formed(r)
      /\ Anchored(G) /\ CitesBound(G) /\ Restricting(G) /\ Qualifying(G)
  BY DEF Sane, Held
<1>2. Compatible(G, P) /\ \A c \in ToSet(q.candidates) : Derivable(G, b, q, c)
  BY DEF Plannable
<1>3. Held(H) /\ H.records = G.records \cup P
  BY <1>1, PlanHolds
<1>4. Unique(G) /\ Unique(H) /\ H.records = G.records \cup P
  BY <1>1, <1>3 DEF Held
<1>5. /\ \A c \in Kept(q) : /\ Knowledge(G, CandidateScope(G, b, c), c) \in P
                            /\ Lineage(G, CandidateScope(G, b, c), c) \in P
      /\ \A c \in Kept(q) : Derivable(G, b, q, c)
  BY <1>2, PlannedIs DEF Kept
<1> HIDE DEF H
<1>6. ASSUME NEW c \in Kept(q)
      PROVE  LET k == Knowledge(G, CandidateScope(G, b, c), c)
             IN  /\ \A o \in Cited(H, k) : Binds(k, o)
                 /\ \A o \in Origins(H, k) : Binds(k, o) /\ (o.kind = "knowledge" => Carries(k, o))
  <2>1. /\ Derivable(G, b, q, c) /\ G.records \subseteq H.records
        /\ Knowledge(G, CandidateScope(G, b, c), c) \in H.records
        /\ Lineage(G, CandidateScope(G, b, c), c) \in H.records
    BY <1>4, <1>5
  <2> QED BY <1>4, <2>1, NotesFit
<1>7. ASSUME NEW r \in P
      PROVE  r.kind = "knowledge" =>
                \E c \in Kept(q) : r = Knowledge(G, CandidateScope(G, b, c), c)
  BY <1>1, <1>2, PlannedForms
<1> DEFINE Fresh(r) == \E c \in Kept(q) : r = Knowledge(G, CandidateScope(G, b, c), c)
<1>9. Anchored(H)
  <2> SUFFICES ASSUME NEW r \in H.records, NEW ref \in r.refs,
                      ref.role \in {"input", "evidence"}
               PROVE  ref.id \in Identities(H)
    BY DEF Anchored
  <2>1. Identities(G) \subseteq Identities(H)
    BY <1>4 DEF Identities
  <2>2. CASE r \in G.records
    BY <1>1, <2>1, <2>2 DEF Anchored
  <2>3. CASE r \in P
    BY <1>2, <1>4, <2>1, <2>3, PlannedRefs
  <2> QED BY <1>4, <2>2, <2>3
<1>10. \A r \in H.records : r.kind = "knowledge" => Fresh(r) \/ (r \in G.records /\ ~ Fresh(r))
  BY <1>4, <1>7
<1>11. ASSUME NEW r \in G.records
       PROVE  /\ Cited(H, r) = Cited(G, r)
              /\ LineageId(r.id) \in Identities(G) => Origins(H, r) = Origins(G, r)
  BY <1>1, <1>4, MoreRecords
<1>12. CitesBound(H)
  BY <1>1, <1>6, <1>10, <1>11 DEF CitesBound
<1>13. ASSUME NEW r \in Curated(H), ~ Fresh(r)
       PROVE  (r \in Curated(G) /\ Origins(H, r) = Origins(G, r)) \/ Origins(H, r) = {}
  <2>1. r \in H.records /\ r.kind = "knowledge" /\ LineageId(r.id) \in Identities(H)
    BY DEF Curated
  <2>2. r \in G.records
    BY <1>10, <1>13, <2>1
  <2>3. CASE LineageId(r.id) \in Identities(G)
    BY <1>11, <2>1, <2>2, <2>3 DEF Curated
  <2>4. CASE LineageId(r.id) \notin Identities(G)
    <3>1. PICK l \in P : l.id = LineageId(r.id)
      BY <1>4, <2>1, <2>4 DEF Identities
    <3>2. r.id \in Seq(STRING)
      BY <1>1, <2>1, <2>2 DEF Formed
    <3>3. P \subseteq H.records
      BY <1>4
    <3>4. Origins(H, r) = {}
      BY <1>2, <1>4, <1>13, <2>1, <3>1, <3>2, <3>3, NewLineages
    <3> QED BY <3>4
  <2> QED BY <2>3, <2>4
<1>14. Restricting(H)
  <2> SUFFICES ASSUME NEW r \in Curated(H), NEW o \in Origins(H, r) \cup Cited(H, r)
               PROVE  Binds(r, o)
    BY DEF Restricting
  <2>1. CASE Fresh(r)
    BY <1>6, <2>1
  <2>2. CASE o \in Cited(H, r)
    BY <1>12, <2>2 DEF CitesBound, Curated
  <2>3. CASE ~ Fresh(r) /\ o \in Origins(H, r)
    BY <1>1, <1>13, <2>3 DEF Restricting
  <2> QED BY <2>1, <2>2, <2>3
<1>15. Qualifying(H)
  <2>1. \A r \in Curated(H) : \A o \in {i \in Origins(H, r) : i.kind = "knowledge"} : Carries(r, o)
    <3> SUFFICES ASSUME NEW r \in Curated(H), NEW o \in Origins(H, r), o.kind = "knowledge"
                 PROVE  Carries(r, o)
      OBVIOUS
    <3>1. CASE Fresh(r)
      BY <1>6, <3>1
    <3>2. CASE ~ Fresh(r)
      <4>1. r \in Curated(G) /\ o \in {i \in Origins(G, r) : i.kind = "knowledge"}
        BY <1>13, <3>2
      <4> QED BY <1>1, <4>1 DEF Qualifying, Carries
    <3> QED BY <3>1, <3>2
  <2> QED BY <2>1 DEF Qualifying, Carries
<1> QED BY <1>3, <1>9, <1>12, <1>14, <1>15 DEF Sane, H

(***************************************************************************)
(* The owner's changes.                                                    *)
(***************************************************************************)
\* One record changes and keeps its identity.
LEMMA EditIs ==
    ASSUME NEW G, Held(G), NEW r \in G.records, NEW n, n.id = r.id, NEW q
    PROVE  With(G, {n}, q).records = (G.records \ {r}) \cup {n}
<1>1. {"records", "bodies"} \subseteq DOMAIN G /\ Unique(G)
  BY DEF Held
<1>2. With(G, {n}, q).records = Written(G.records, {n})
  BY <1>1, WithIs
<1>3. Written(G.records, {n}) = (G.records \ {r}) \cup {n}
  BY <1>1 DEF Written, Unique
<1> QED BY <1>2, <1>3

\* So the garden keeps its identities.
LEMMA EditHolds ==
    ASSUME NEW G, Held(G), NEW r \in G.records, NEW n, Formed(n), n.id = r.id, NEW q
    PROVE  /\ Held(With(G, {n}, q))
           /\ Identities(With(G, {n}, q)) = Identities(G)
<1> DEFINE H == With(G, {n}, q)
<1>1. /\ {"records", "bodies"} \subseteq DOMAIN G /\ Unique(G)
      /\ \A x \in G.records : Formed(x)
  BY DEF Held
<1>2. DOMAIN H = DOMAIN G
  BY <1>1, WithIs
<1>3. H.records = (G.records \ {r}) \cup {n}
  BY EditIs
<1> HIDE DEF H
<1>4. Unique(H)
  BY <1>1, <1>3 DEF Unique
<1>5. Identities(H) = Identities(G)
  BY <1>3 DEF Identities
<1>6. Held(H)
  BY <1>1, <1>2, <1>3, <1>4 DEF Held
<1> QED BY <1>5, <1>6 DEF H

\* A record that nothing is made from changes, and neither what it refers to nor
\* what binds a note.
LEMMA EditKeeps ==
    ASSUME NEW G, Sane(G), NEW r \in G.records, NEW n, Formed(n),
           n.id = r.id, n.kind = r.kind, n.refs = r.refs,
           \A x \in G.records : \A ref \in x.refs :
               ref.id = r.id => ref.role \notin {"input", "evidence"},
           r.kind = "knowledge" =>
               n.own = r.own /\ \A o : Carries(r, o) => Carries(n, o),
           NEW q
    PROVE  Sane(With(G, {n}, q))
<1> DEFINE H == With(G, {n}, q)
           Old(x) == IF x = n THEN r ELSE x
<1>1. /\ Held(G) /\ Unique(G)
      /\ Anchored(G) /\ CitesBound(G) /\ Restricting(G) /\ Qualifying(G)
  BY DEF Sane, Held
<1>a. H.records = (G.records \ {r}) \cup {n}
  BY <1>1, EditIs
<1>b. Held(H) /\ Identities(H) = Identities(G)
  BY <1>1, EditHolds
<1>2. /\ Held(H) /\ H.records = (G.records \ {r}) \cup {n}
      /\ Identities(H) = Identities(G)
  BY <1>a, <1>b
<1>3. Unique(H)
  BY <1>2 DEF Held
<1> HIDE DEF H
<1>4. ASSUME NEW x \in H.records
      PROVE  /\ Old(x) \in G.records /\ Old(x).id = x.id /\ Old(x).kind = x.kind
             /\ Old(x).refs = x.refs
  BY <1>2
<1>5. ASSUME NEW x \in H.records, NEW ref \in x.refs, ref.role \in {"input", "evidence"}
      PROVE  /\ ref.id \in Identities(G)
             /\ Record(H, ref.id) = Record(G, ref.id)
  <2>1. ref.id \in Identities(G) /\ ref.id # r.id
    BY <1>1, <1>4, <1>5 DEF Anchored
  <2>2. Record(G, ref.id) \in G.records /\ Record(G, ref.id).id = ref.id
    BY <2>1, RecordExists
  <2>3. Record(G, ref.id) \in H.records
    BY <1>2, <2>1, <2>2
  <2>4. Record(H, Record(G, ref.id).id) = Record(G, ref.id)
    BY <1>3, <2>3, RecordIs
  <2> QED BY <2>1, <2>2, <2>4
<1>6. Anchored(H)
  BY <1>2, <1>5 DEF Anchored
<1>7. ASSUME NEW x \in H.records
      PROVE  Cited(H, x) = Cited(G, Old(x))
  BY <1>4, <1>5 DEF Cited, EvidenceOf
<1>8. ASSUME NEW x \in Curated(H)
      PROVE  Old(x) \in Curated(G) /\ Origins(H, x) = Origins(G, Old(x))
  <2>1. x \in H.records /\ x.kind = "knowledge" /\ LineageId(x.id) \in Identities(H)
    BY DEF Curated
  <2>2. Old(x) \in Curated(G)
    BY <1>2, <1>4, <2>1 DEF Curated
  <2> DEFINE l == Record(H, LineageId(x.id))
  <2>3. l \in H.records /\ l.id = LineageId(x.id)
    BY <2>1, RecordExists
  <2>4. Record(G, Old(l).id) = Old(l)
    BY <1>1, <1>4, <2>3, RecordIs
  <2>5. Record(G, LineageId(x.id)) = Old(l) /\ Old(l).refs = l.refs
    BY <1>4, <2>3, <2>4
  <2>6. \A ref \in l.refs : ref.role = "input" => Record(H, ref.id) = Record(G, ref.id)
    BY <1>5, <2>3
  <2>7. LineageId(Old(x).id) = LineageId(x.id)
    BY <1>4, <2>1
  <2> HIDE DEF Old
  <2>8. Origins(H, x) = Origins(G, Old(x))
    BY <2>5, <2>6, <2>7 DEF Origins
  <2> QED BY <2>2, <2>8
<1>9. ASSUME NEW x \in H.records, x.kind = "knowledge"
      PROVE  /\ \A o : Binds(Old(x), o) => Binds(x, o)
             /\ \A o : Carries(Old(x), o) => Carries(x, o)
  BY <1>4, <1>9 DEF Binds
<1>10. \A x \in Curated(H) : x \in H.records /\ x.kind = "knowledge"
  BY DEF Curated
<1> HIDE DEF Old
<1>11. CitesBound(H)
  BY <1>1, <1>4, <1>7, <1>9 DEF CitesBound
<1>12. Restricting(H)
  BY <1>1, <1>7, <1>8, <1>9, <1>10 DEF Restricting
<1>13. Qualifying(H)
  <2>1. \A x \in Curated(H) : \A o \in {i \in Origins(H, x) : i.kind = "knowledge"} : Carries(x, o)
    <3> SUFFICES ASSUME NEW x \in Curated(H), NEW o \in Origins(H, x), o.kind = "knowledge"
                 PROVE  Carries(x, o)
      OBVIOUS
    <3>1. Old(x) \in Curated(G) /\ o \in {i \in Origins(G, Old(x)) : i.kind = "knowledge"}
      BY <1>8
    <3>2. Carries(Old(x), o)
      BY <1>1, <3>1 DEF Qualifying, Carries
    <3> QED BY <1>9, <1>10, <3>2
  <2> QED BY <2>1 DEF Qualifying, Carries
<1> QED BY <1>2, <1>6, <1>11, <1>12, <1>13 DEF Sane, H
(***************************************************************************)
(* The inductive invariant: the garden, and what each curator is about.    *)
(***************************************************************************)
\* What is known of the state of any curator.
Known(t) ==
    /\ DOMAIN t = {"pc", "proposal", "seen", "plan"}
    /\ t.pc # "idle" => t.proposal \in Proposals

\* No identity leaves the garden that a plan was made of.
Grown(t, G) == t.plan # NoPlan => Identities(t.plan.garden) \subseteq Identities(G)

\* What is read again and is as it was at the review was that already when it
\* was read.
Unreturned(t, G, b) ==
    t.pc = "read" /\ t.plan # NoPlan =>
        /\ t.plan.garden = G => t.seen.garden = G
        /\ t.plan.bind = b => t.seen.bind = b

\* A plan that may be applied is what the proposal means for the garden and the
\* bindings whose revisions the plan names.
Ready(t) ==
    t.pc \in {"planned", "locked", "stage", "select"} =>
        /\ t.plan.records = Planned(t.plan.garden, t.plan.bind, t.proposal)
        /\ Plannable(t.plan.garden, t.plan.bind, t.proposal)

\* Once verified it adds something, under the bindings that there are.
Adding(t, b) ==
    t.pc \in {"stage", "select"} =>
        /\ t.plan.bind = b
        /\ \E r \in t.plan.records : r.id \notin Identities(t.plan.garden)

Fine(t, G, b) == Known(t) /\ Grown(t, G) /\ Unreturned(t, G, b) /\ Ready(t) /\ Adding(t, b)

IInv ==
    /\ Held(garden)
    /\ bind \in Bindings
    /\ DOMAIN task = Curator
    /\ \A p \in Curator : Fine(task[p], garden, bind)

\* Neither the garden nor the bindings become what the plan was reviewed for.
LEMMA StaysFine ==
    ASSUME NEW t, NEW G, NEW H, NEW b, NEW d, Fine(t, G, b),
           Identities(G) \subseteq Identities(H),
           t.plan # NoPlan /\ H # G => H # t.plan.garden,
           t.plan # NoPlan /\ d # b => d # t.plan.bind,
           d # b => t.pc \notin {"stage", "select"}
    PROVE  Fine(t, H, d)
<1>1. Known(t) /\ Ready(t)
  BY DEF Fine
<1>2. Grown(t, H)
  BY DEF Fine, Grown
<1>3. Unreturned(t, H, d)
  BY DEF Fine, Unreturned
<1>4. Adding(t, d)
  BY DEF Fine, Adding
<1> QED BY <1>1, <1>2, <1>3, <1>4 DEF Fine

\* A curator who has nothing under way.
LEMMA IdleIsFine == \A G, b : Fine(Idle, G, b)
  BY DEF Fine, Idle, Known, Grown, Unreturned, Ready, Adding

\* It holds at first.
LEMMA InvariantStarts == Init => IInv
<1> SUFFICES ASSUME Init
             PROVE  IInv
  OBVIOUS
<1>1. Held(garden)
  BY FirstGardensAreSane DEF Init, Sane
<1>2. \A p \in Curator : task[p] = Idle
  BY DEF Init
<1> QED BY <1>1, <1>2, IdleIsFine DEF Init, IInv

\* One curator gets on, and the garden stays as it is.
LEMMA OneGetsOn ==
    ASSUME IInv, NEW p \in Curator, UNCHANGED <<garden, bind>>,
           DOMAIN task' = Curator, \A o \in Curator \ {p} : task'[o] = task[o],
           Fine(task'[p], garden, bind)
    PROVE  IInv'
<1>1. \A o \in Curator : Fine(task'[o], garden, bind)
  BY DEF IInv
<1> QED BY <1>1 DEF IInv

\* What is read is the garden and the bindings there are.
LEMMA ReadKeeps ==
    ASSUME IInv, NEW p \in Curator, Read(p)
    PROVE  IInv'
<1>1. Fine(task[p], garden, bind) /\ DOMAIN task = Curator
  BY DEF IInv
<1>2. PICK q : /\ q \in IF task[p].pc = "idle" THEN Proposals ELSE {task[p].proposal}
               /\ task' = [task EXCEPT ![p].pc = "read", ![p].proposal = q,
                               ![p].seen = [garden |-> garden, bind |-> bind]]
  BY DEF Read
<1>3. q \in Proposals
  BY <1>1, <1>2 DEF Read, Fine, Known
<1>4. DOMAIN task[p] = {"pc", "proposal", "seen", "plan"}
  BY <1>1 DEF Fine, Known
<1> DEFINE t == task'[p]
<1>5. /\ DOMAIN t = {"pc", "proposal", "seen", "plan"}
      /\ t.pc = "read" /\ t.proposal = q /\ t.plan = task[p].plan
      /\ t.seen = [garden |-> garden, bind |-> bind]
  BY <1>1, <1>2, <1>4
<1>6. DOMAIN task' = Curator /\ \A o \in Curator \ {p} : task'[o] = task[o]
  BY <1>1, <1>2
<1>7. Fine(t, garden, bind)
  <2> HIDE DEF t
  <2> QED BY <1>1, <1>3, <1>5 DEF Fine, Known, Grown, Unreturned, Ready, Adding
<1> QED BY <1>6, <1>7, OneGetsOn DEF Read

\* A plan that equals the reviewed one was made of what it names: the revisions are
\* those of the review, and so were they when the garden was read.
LEMMA PinKeeps ==
    ASSUME IInv, NEW p \in Curator, Pin(p)
    PROVE  IInv'
<1>1. Fine(task[p], garden, bind) /\ DOMAIN task = Curator
  BY DEF IInv
<1>2. DOMAIN task[p] = {"pc", "proposal", "seen", "plan"} /\ task[p].proposal \in Proposals
  BY <1>1 DEF Fine, Known, Pin
<1>3. DOMAIN task' = Curator /\ \A o \in Curator \ {p} : task'[o] = task[o]
  BY <1>1 DEF Pin, Give
<1>4. CASE Give(p)
  <2>1. task'[p] = Idle
    BY <1>1, <1>4 DEF Give
  <2> QED BY <1>3, <2>1, IdleIsFine, OneGetsOn DEF Pin
<1>5. CASE /\ Plannable(task[p].seen.garden, task[p].seen.bind, task[p].proposal)
           /\ task[p].plan = NoPlan
           /\ task' = [task EXCEPT ![p].pc = "reviewed", ![p].seen = NoPlan, ![p].plan = Built(p)]
  <2> DEFINE t == task'[p]
  <2>1. /\ DOMAIN t = {"pc", "proposal", "seen", "plan"}
        /\ t.pc = "reviewed" /\ t.proposal = task[p].proposal /\ t.plan = Built(p)
    BY <1>1, <1>2, <1>5
  <2>2. Built(p).garden = garden
    BY DEF Built
  <2>3. Fine(t, garden, bind)
    <3> HIDE DEF t
    <3> QED BY <1>2, <2>1, <2>2 DEF Fine, Known, Grown, Unreturned, Ready, Adding
  <2> QED BY <1>3, <2>3, OneGetsOn DEF Pin
<1>6. CASE /\ Plannable(task[p].seen.garden, task[p].seen.bind, task[p].proposal)
           /\ task[p].plan = Built(p)
           /\ task' = [task EXCEPT ![p].pc = "planned", ![p].seen = NoPlan]
  <2> DEFINE t == task'[p]
  <2>1. /\ DOMAIN t = {"pc", "proposal", "seen", "plan"}
        /\ t.pc = "planned" /\ t.proposal = task[p].proposal /\ t.plan = Built(p)
    BY <1>1, <1>2, <1>6
  <2>2. /\ Built(p).garden = garden /\ Built(p).bind = bind
        /\ Built(p).records = Planned(task[p].seen.garden, task[p].seen.bind, task[p].proposal)
    BY DEF Built
  <2>3. Built(p) # NoPlan
    <3>1. DOMAIN Built(p) = {"records", "garden", "bind"} /\ DOMAIN NoPlan = {"none"}
      BY DEF Built, NoPlan
    <3> QED BY <3>1
  <2>4. task[p].seen.garden = garden /\ task[p].seen.bind = bind
    BY <1>1, <1>6, <2>2, <2>3 DEF Fine, Unreturned, Pin
  <2>5. Fine(t, garden, bind)
    <3> HIDE DEF t
    <3> QED BY <1>2, <1>6, <2>1, <2>2, <2>4 DEF Fine, Known, Grown, Unreturned, Ready, Adding
  <2> QED BY <1>3, <2>5, OneGetsOn DEF Pin
<1> QED BY <1>4, <1>5, <1>6 DEF Pin

\* A curator who holds a plan goes on with it or gives up.
LEMMA PlanMoves ==
    ASSUME IInv, NEW p \in Curator, UNCHANGED <<garden, bind>>, NEW pc,
           Goto(p, pc) \/ Give(p),
           task[p].pc \in {"planned", "locked", "stage", "select"},
           pc \in {"locked", "stage", "select"},
           pc \in {"stage", "select"} =>
               /\ task[p].plan.bind = bind
               /\ \E r \in task[p].plan.records : r.id \notin Identities(task[p].plan.garden)
    PROVE  IInv'
<1>1. Fine(task[p], garden, bind) /\ DOMAIN task = Curator
  BY DEF IInv
<1>2. DOMAIN task[p] = {"pc", "proposal", "seen", "plan"} /\ task[p].proposal \in Proposals
  BY <1>1 DEF Fine, Known
<1>3. DOMAIN task' = Curator /\ \A o \in Curator \ {p} : task'[o] = task[o]
  BY <1>1 DEF Goto, Give
<1>4. CASE Give(p)
  <2>1. task'[p] = Idle
    BY <1>1, <1>4 DEF Give
  <2> QED BY <1>3, <2>1, IdleIsFine, OneGetsOn
<1>5. CASE Goto(p, pc)
  <2> DEFINE t == task'[p]
  <2>1. /\ DOMAIN t = {"pc", "proposal", "seen", "plan"}
        /\ t.pc = pc /\ t.proposal = task[p].proposal /\ t.plan = task[p].plan
    BY <1>1, <1>2, <1>5 DEF Goto
  <2>2. Fine(t, garden, bind)
    <3> HIDE DEF t
    <3> QED BY <1>1, <1>2, <2>1 DEF Fine, Known, Grown, Unreturned, Ready, Adding
  <2> QED BY <1>3, <2>2, OneGetsOn
<1> QED BY <1>4, <1>5

\* Locking leaves the plan as it is.
LEMMA LockKeeps ==
    ASSUME IInv, NEW p \in Curator, Lock(p)
    PROVE  IInv'
<1>1. Goto(p, "locked") \/ Give(p)
  BY DEF Lock
<1> QED BY <1>1, PlanMoves DEF Lock

\* What is verified adds an identity that the garden does not have.
LEMMA VerifyKeeps ==
    ASSUME IInv, NEW p \in Curator, Verify(p)
    PROVE  IInv'
<1>1. CASE Release(p)
  <2>1. Give(p) /\ "locked" \in {"locked", "stage", "select"}
    BY <1>1 DEF Release
  <2> QED BY <2>1, PlanMoves DEF Verify
<1>2. CASE /\ task[p].plan.bind = bind
           /\ Missed(p, task[p].plan) # {}
           /\ Compatible(garden, task[p].plan.records)
           /\ task[p].plan.garden = garden
           /\ Goto(p, "stage")
  <2>1. PICK r \in task[p].plan.records : r \notin garden.records
    BY <1>2 DEF Missed
  <2>2. r.id \notin Identities(garden)
    BY <1>2, <2>1 DEF Compatible, Identities
  <2> QED BY <1>2, <2>1, <2>2, PlanMoves DEF Verify
<1> QED BY <1>1, <1>2 DEF Verify

\* Staging leaves the plan as it is.
LEMMA StageKeeps ==
    ASSUME IInv, NEW p \in Curator, Stage(p)
    PROVE  IInv'
<1>1. Adding(task[p], bind)
  BY DEF IInv, Fine
<1>2. Goto(p, "select") \/ Give(p)
  BY DEF Stage, Release
<1> QED BY <1>1, <1>2, PlanMoves DEF Stage, Adding

\* What is selected is what the proposal calls for in the garden there is.
LEMMA SelectedIs ==
    ASSUME IInv, NEW p \in Curator, Select(p), garden' # garden
    PROVE  /\ bind \in Scopes /\ task[p].proposal \in Proposals
           /\ Plannable(garden, bind, task[p].proposal)
           /\ garden' = With(garden, Planned(garden, bind, task[p].proposal), task[p].proposal)
           /\ \E r \in Planned(garden, bind, task[p].proposal) : r.id \notin Identities(garden)
<1>1. Fine(task[p], garden, bind) /\ bind \in Scopes
  BY BindingsAssumption DEF IInv
<1>2. task[p].pc = "select" /\ task[p].plan.garden = garden /\ garden' = Staged(p)
  BY DEF Select
<1>3. /\ task[p].plan.bind = bind
      /\ \E r \in task[p].plan.records : r.id \notin Identities(garden)
  BY <1>1, <1>2 DEF Fine, Adding
<1>4. /\ task[p].plan.records = Planned(garden, bind, task[p].proposal)
      /\ Plannable(garden, bind, task[p].proposal)
  BY <1>1, <1>2, <1>3 DEF Fine, Ready
<1>5. task[p].proposal \in Proposals
  BY <1>1, <1>2 DEF Fine, Known
<1> QED BY <1>1, <1>2, <1>3, <1>4, <1>5 DEF Staged

\* It has an identity that no garden had which another curator saw.
LEMMA SelectKeeps ==
    ASSUME IInv, NEW p \in Curator, Select(p)
    PROVE  IInv'
<1>1. CASE garden' = garden
  <2>1. Give(p) /\ "locked" \in {"locked", "stage", "select"} /\ task[p].pc = "select"
    BY DEF Select, Release
  <2> QED BY <1>1, <2>1, PlanMoves DEF Select
<1>2. CASE garden' # garden
  <2> DEFINE q == task[p].proposal
             P == Planned(garden, bind, q)
  <2>1. /\ bind \in Scopes /\ q \in Proposals /\ Plannable(garden, bind, q)
        /\ garden' = With(garden, P, q)
        /\ \E r \in P : r.id \notin Identities(garden)
    BY <1>2, SelectedIs
  <2>2. Held(garden)
    BY DEF IInv
  <2>3. Held(garden') /\ garden'.records = garden.records \cup P
    BY <2>1, <2>2, PlanHolds
  <2> HIDE DEF P
  <2>4. /\ Identities(garden) \subseteq Identities(garden')
        /\ ~ Identities(garden') \subseteq Identities(garden)
    BY <2>1, <2>3 DEF Identities
  <2>5. DOMAIN task = Curator /\ \A o \in Curator : Fine(task[o], garden, bind)
    BY DEF IInv
  <2>6. /\ DOMAIN task' = Curator /\ task'[p] = Idle
        /\ \A o \in Curator \ {p} : task'[o] = task[o]
    BY <2>5 DEF Select, Release, Give
  <2>7. ASSUME NEW o \in Curator \ {p}
        PROVE  Fine(task'[o], garden', bind)
    <3>1. task[o].plan # NoPlan => Identities(task[o].plan.garden) \subseteq Identities(garden)
      BY <2>5 DEF Fine, Grown
    <3>2. task[o].plan # NoPlan => garden' # task[o].plan.garden
      BY <2>4, <3>1
    <3>3. Fine(task[o], garden', bind)
      BY <2>4, <2>5, <3>2, StaysFine
    <3> QED BY <2>6, <3>3
  <2>8. Fine(task'[p], garden', bind)
    BY <2>6, IdleIsFine
  <2> QED BY <2>3, <2>6, <2>7, <2>8 DEF IInv, Select
<1> QED BY <1>1, <1>2

\* The owner changes something and takes nothing back.
LEMMA OwnerMoves ==
    ASSUME IInv, "return" \notin Gaps, Allowed, UNCHANGED task,
           Held(garden'), Identities(garden') = Identities(garden),
           bind' \in Bindings,
           bind' # bind => \A p \in Curator : task[p].pc \notin {"stage", "select"}
    PROVE  IInv'
<1>1. ASSUME NEW p \in Curator
      PROVE  Fine(task[p], garden', bind')
  <2>1. Fine(task[p], garden, bind)
    BY DEF IInv
  <2>2. /\ task[p].plan # NoPlan /\ garden' # garden => garden' # task[p].plan.garden
        /\ task[p].plan # NoPlan /\ bind' # bind => bind' # task[p].plan.bind
    BY DEF Allowed, TakenBack
  <2>3. Identities(garden) \subseteq Identities(garden')
    OBVIOUS
  <2> QED BY <2>1, <2>2, <2>3, StaysFine
<1> QED BY <1>1 DEF IInv

\* What an owner makes of a record.
LEMMA ReclassifiedIs ==
    ASSUME NEW r, Formed(r), r.kind = "source", NEW s \in Scopes, NEW label
    PROVE  LET n == [r EXCEPT !.own = s, !.legacy = label]
           IN  Formed(n) /\ n.id = r.id /\ n.kind = r.kind /\ n.refs = r.refs
<1>1. DOMAIN r = DOMAIN Blank /\ {"id", "kind", "own", "legacy", "refs"} \subseteq DOMAIN r
  BY DEF Formed, Blank
<1> QED BY <1>1 DEF Formed

\* A note with one more caveat is qualified by whatever qualified it before.
LEMMA QualifiedIs ==
    ASSUME NEW r, Formed(r), r.kind = "knowledge", NEW text
    PROVE  LET n == [r EXCEPT !.marks.caveats = @ \cup {text}]
           IN  /\ Formed(n) /\ n.id = r.id /\ n.kind = r.kind /\ n.refs = r.refs
               /\ n.own = r.own /\ \A o : Carries(r, o) => Carries(n, o)
<1> DEFINE n == [r EXCEPT !.marks.caveats = @ \cup {text}]
<1>1. /\ DOMAIN r = DOMAIN Blank /\ {"id", "kind", "own", "marks", "refs"} \subseteq DOMAIN r
      /\ DOMAIN r.marks = {"attribution", "authors", "caveats", "contradictions"}
      /\ r.own \in Scopes \cup {NoScope} /\ r.id \in Seq(STRING)
  BY DEF Formed, Blank
<1>2. /\ DOMAIN n = DOMAIN r /\ n.id = r.id /\ n.kind = r.kind /\ n.refs = r.refs
      /\ n.own = r.own /\ n.marks = [r.marks EXCEPT !.caveats = @ \cup {text}]
  BY <1>1
<1>3. /\ DOMAIN n.marks = DOMAIN r.marks
      /\ n.marks.caveats = r.marks.caveats \cup {text}
      /\ n.marks.authors = r.marks.authors
      /\ n.marks.contradictions = r.marks.contradictions
      /\ n.marks.attribution = r.marks.attribution
  BY <1>1, <1>2
<1> HIDE DEF n
<1>4. EvidenceOf(n) = EvidenceOf(r)
  BY <1>2 DEF EvidenceOf
<1>5. Formed(n)
  BY <1>1, <1>2, <1>3 DEF Formed
<1>6. \A o : Carries(r, o) => Carries(n, o)
  BY <1>3, <1>4 DEF Carries
<1> QED BY <1>2, <1>5, <1>6 DEF n

\* A source that is reclassified.
LEMMA ReclassifyKeeps ==
    ASSUME Held(garden), Reclassify
    PROVE  /\ Held(garden') /\ Identities(garden') = Identities(garden)
           /\ "lineage" \notin Gaps /\ Sane(garden) => Sane(garden')
<1>1. PICK r \in Editable("source"), s \in Bindings :
          garden' = With(garden, {[r EXCEPT !.own = s, !.legacy = LegacyVisibility(s.visibility)]},
                         [candidates |-> <<>>])
  BY DEF Reclassify
<1>2. /\ r \in garden.records /\ r.kind = "source" /\ Formed(r) /\ s \in Scopes
      /\ "lineage" \notin Gaps => Untouched(r.id)
  BY BindingsAssumption DEF Editable, Held
<1> DEFINE n == [r EXCEPT !.own = s, !.legacy = LegacyVisibility(s.visibility)]
<1>3. Formed(n) /\ n.id = r.id /\ n.kind = r.kind /\ n.refs = r.refs
  BY <1>2, ReclassifiedIs
<1> HIDE DEF n
<1>4. Held(garden') /\ Identities(garden') = Identities(garden)
  <2>1. garden' = With(garden, {n}, [candidates |-> <<>>])
    BY <1>1 DEF n
  <2> DEFINE H == With(garden, {n}, [candidates |-> <<>>])
  <2>2. Held(H) /\ Identities(H) = Identities(garden)
    BY <1>2, <1>3, EditHolds
  <2> HIDE DEF H
  <2> QED BY <2>1, <2>2 DEF H
<1>5. ASSUME "lineage" \notin Gaps, Sane(garden)
      PROVE  Sane(garden')
  <2>1. garden' = With(garden, {n}, [candidates |-> <<>>])
    BY <1>1 DEF n
  <2>2. \A x \in garden.records : \A ref \in x.refs :
            ref.id = r.id => ref.role \notin {"input", "evidence"}
    BY <1>2, <1>5 DEF Untouched
  <2>3. r.kind # "knowledge"
    BY <1>2
  <2> QED BY <1>2, <1>3, <1>5, <2>1, <2>2, <2>3, EditKeeps
<1> QED BY <1>4, <1>5

\* A note that gets a caveat.
LEMMA QualifyKeeps ==
    ASSUME Held(garden), Qualify
    PROVE  /\ Held(garden') /\ Identities(garden') = Identities(garden)
           /\ "lineage" \notin Gaps /\ Sane(garden) => Sane(garden')
<1>1. PICK r \in Editable("knowledge") : \E text \in Caveat \ r.marks.caveats :
          garden' = With(garden, {[r EXCEPT !.marks.caveats = @ \cup {text}]},
                         [candidates |-> <<>>])
  BY DEF Qualify
<1>2. PICK text :
          garden' = With(garden, {[r EXCEPT !.marks.caveats = @ \cup {text}]},
                         [candidates |-> <<>>])
  BY <1>1
<1>3. /\ r \in garden.records /\ r.kind = "knowledge" /\ Formed(r)
      /\ "lineage" \notin Gaps => Untouched(r.id)
  BY DEF Editable, Held
<1> DEFINE n == [r EXCEPT !.marks.caveats = @ \cup {text}]
<1>4. /\ Formed(n) /\ n.id = r.id /\ n.kind = r.kind /\ n.refs = r.refs
      /\ n.own = r.own /\ \A o : Carries(r, o) => Carries(n, o)
  BY <1>3, QualifiedIs
<1> HIDE DEF n
<1>5. garden' = With(garden, {n}, [candidates |-> <<>>])
  BY <1>2 DEF n
<1>6. Held(garden') /\ Identities(garden') = Identities(garden)
  <2> DEFINE H == With(garden, {n}, [candidates |-> <<>>])
  <2>1. Held(H) /\ Identities(H) = Identities(garden)
    BY <1>3, <1>4, EditHolds
  <2> HIDE DEF H
  <2> QED BY <1>5, <2>1 DEF H
<1>7. ASSUME "lineage" \notin Gaps, Sane(garden)
      PROVE  Sane(garden')
  <2>1. \A x \in garden.records : \A ref \in x.refs :
            ref.id = r.id => ref.role \notin {"input", "evidence"}
    BY <1>3, <1>7 DEF Untouched
  <2> QED BY <1>3, <1>4, <1>5, <1>7, <2>1, EditKeeps
<1> QED BY <1>6, <1>7

\* The invariant is inductive where owners take back nothing that is under
\* review and do not rebind a garden that is being selected.
LEMMA InvariantStays ==
    ASSUME "return" \notin Gaps, "rebind" \notin Gaps, IInv, [Next]_vars
    PROVE  IInv'
<1>1. ASSUME NEW p \in Curator,
             Read(p) \/ Pin(p) \/ Lock(p) \/ Verify(p) \/ Stage(p) \/ Select(p)
      PROVE  IInv'
  BY <1>1, ReadKeeps, PinKeeps, LockKeeps, VerifyKeeps, StageKeeps, SelectKeeps
<1>2. Held(garden) /\ bind \in Bindings
  BY DEF IInv
<1>3. CASE Reclassify
  <2>1. Held(garden') /\ Identities(garden') = Identities(garden)
    BY <1>2, <1>3, ReclassifyKeeps
  <2>2. Allowed /\ UNCHANGED <<bind, task>>
    BY <1>3 DEF Reclassify
  <2> QED BY <1>2, <2>1, <2>2, OwnerMoves
<1>4. CASE Qualify
  <2>1. Held(garden') /\ Identities(garden') = Identities(garden)
    BY <1>2, <1>4, QualifyKeeps
  <2>2. Allowed /\ UNCHANGED <<bind, task>>
    BY <1>4 DEF Qualify
  <2> QED BY <1>2, <2>1, <2>2, OwnerMoves
<1>5. CASE Rebind
  <2>1. /\ Allowed /\ UNCHANGED <<garden, task>> /\ bind' \in Bindings
        /\ \A p \in Curator : task[p].pc \notin {"stage", "select"}
    BY <1>5 DEF Rebind
  <2>2. Held(garden') /\ Identities(garden') = Identities(garden)
    BY <1>2, <2>1
  <2> QED BY <2>1, <2>2, OwnerMoves
<1>6. CASE UNCHANGED vars
  BY <1>6 DEF vars, IInv
<1> QED BY <1>1, <1>3, <1>4, <1>5, <1>6 DEF Next

\* A garden stays sane where owners change nothing that others are made from.
LEMMA SaneStays ==
    ASSUME "lineage" \notin Gaps, IInv, Sane(garden), [Next]_vars
    PROVE  Sane(garden')
<1>1. Held(garden)
  BY DEF IInv
<1>2. ASSUME NEW p \in Curator, Select(p)
      PROVE  Sane(garden')
  <2>1. CASE garden' = garden
    BY <2>1
  <2>2. CASE garden' # garden
    <3> DEFINE q == task[p].proposal
               H == With(garden, Planned(garden, bind, q), q)
    <3>1. bind \in Scopes /\ q \in Proposals /\ Plannable(garden, bind, q) /\ garden' = H
      BY <1>2, <2>2, SelectedIs
    <3>2. Sane(H)
      BY <3>1, PlanKeeps
    <3> HIDE DEF H
    <3> QED BY <3>1, <3>2
  <2> QED BY <2>1, <2>2
<1>3. ASSUME NEW p \in Curator, Read(p) \/ Pin(p) \/ Lock(p) \/ Verify(p) \/ Stage(p)
      PROVE  UNCHANGED garden
  BY <1>3 DEF Read, Pin, Lock, Verify, Stage
<1>4. CASE Reclassify
  BY <1>1, <1>4, ReclassifyKeeps
<1>5. CASE Qualify
  BY <1>1, <1>5, QualifyKeeps
<1>6. CASE Rebind \/ UNCHANGED vars
  BY <1>6 DEF Rebind, vars
<1>7. UNCHANGED garden => Sane(garden')
  OBVIOUS
<1> QED BY <1>2, <1>3, <1>4, <1>5, <1>6, <1>7 DEF Next

\* What changes a garden while a curator goes from selecting to idle is that
\* curator.
LEMMA SelectionFits ==
    ASSUME IInv, Next, NEW p \in Curator,
           task[p].pc = "select", task'[p].pc = "idle", garden' # garden
    PROVE  /\ Plannable(garden, bind, task[p].proposal)
           /\ garden' = With(garden, Planned(garden, bind, task[p].proposal), task[p].proposal)
           /\ garden.records \subseteq garden'.records
<1>1. Select(p)
  <2>1. DOMAIN task = Curator
    BY DEF IInv
  <2>2. ASSUME NEW o \in Curator, Read(o) \/ Pin(o) \/ Lock(o) \/ Verify(o) \/ Stage(o)
        PROVE  FALSE
    BY <2>2 DEF Read, Pin, Lock, Verify, Stage
  <2>3. ASSUME NEW o \in Curator \ {p}, Select(o)
        PROVE  FALSE
    BY <2>1, <2>3 DEF Select, Release, Give
  <2>4. ~ Reclassify /\ ~ Qualify /\ ~ Rebind
    BY DEF Reclassify, Qualify, Rebind
  <2> QED BY <2>2, <2>3, <2>4 DEF Next
<1> DEFINE q == task[p].proposal
           H == With(garden, Planned(garden, bind, q), q)
<1>2. bind \in Scopes /\ q \in Proposals /\ Plannable(garden, bind, q) /\ garden' = H
  BY <1>1, SelectedIs
<1>3. Held(garden)
  BY DEF IInv
<1>4. H.records = garden.records \cup Planned(garden, bind, q)
  BY <1>2, <1>3, PlanHolds
<1>5. garden.records \subseteq garden'.records
  <2> HIDE DEF H
  <2> QED BY <1>2, <1>4
<1> QED BY <1>2, <1>5

(***************************************************************************)
(* The theorems.                                                           *)
(***************************************************************************)
\* What is selected is what the reviewed proposal calls for in the garden and
\* under the bindings of that moment, and replaces nothing: the digest of a plan
\* that is built twice ties the review to both.
THEOREM AppliesWhatFits ==
    ASSUME "return" \notin Gaps, "rebind" \notin Gaps
    PROVE  Spec => AppliedFitsGarden
<1>1. IInv /\ [Next]_vars => IInv'
  BY InvariantStays
<1>2. IInv /\ [Next]_vars =>
        [\A p \in Curator :
          task[p].pc = "select" /\ task'[p].pc = "idle" /\ garden' # garden =>
              /\ Plannable(garden, bind, task[p].proposal)
              /\ garden' = With(garden, Planned(garden, bind, task[p].proposal), task[p].proposal)
              /\ garden.records \subseteq garden'.records]_vars
  BY SelectionFits
<1> QED BY <1>1, <1>2, InvariantStarts, PTL DEF Spec, AppliedFitsGarden

\* A garden is sane as long as owners change nothing that others are made from.
LEMMA AlwaysSane ==
    ASSUME "return" \notin Gaps, "rebind" \notin Gaps, "lineage" \notin Gaps
    PROVE  Spec => []Sane(garden)
<1>1. IInv /\ [Next]_vars => IInv'
  BY InvariantStays
<1>2. IInv /\ Sane(garden) /\ [Next]_vars => Sane(garden)'
  BY SaneStays
<1>3. Init => Sane(garden)
  BY FirstGardensAreSane DEF Init
<1> QED BY <1>1, <1>2, <1>3, InvariantStarts, PTL DEF Spec

\* A derived note is at least as restricted as whatever it was made from and as
\* every source it cites, those included that came with the notes merged into it.
THEOREM LineagesBind ==
    ASSUME "return" \notin Gaps, "rebind" \notin Gaps, "lineage" \notin Gaps
    PROVE  Spec => []LineageBinds
<1>1. Sane(garden) => LineageBinds
  BY DEF Sane, LineageBinds
<1> QED BY <1>1, AlwaysSane, PTL

\* Merging keeps the authors, the caveats, the contradictions and the evidence of
\* every note that is merged, and an attribution they do not share is mixed.
THEOREM QualificationsStay ==
    ASSUME "return" \notin Gaps, "rebind" \notin Gaps, "lineage" \notin Gaps
    PROVE  Spec => []QualificationsKept
<1>1. Sane(garden) => QualificationsKept
  BY DEF Sane, QualificationsKept
<1> QED BY <1>1, AlwaysSane, PTL

=============================================================================

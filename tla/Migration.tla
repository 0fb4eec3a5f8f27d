------------------------------ MODULE Migration ------------------------------
(***************************************************************************)
(* From a v0 garden to v1 records (the planning half of                    *)
(* application/lifecycle.py, over the v0 rules of domain/validation.py).   *)
(*                                                                         *)
(* A v0 garden t has a visibility, the bytes of its manifest and its notes *)
(* by identity.  A note has a kind ("source" or another), status,          *)
(* reviewed, visibility, sources, related, supersedes, body and sidecar    *)
(* (what the provenance file next to a source declares, or Unpinned).  A   *)
(* source is the identity of a note, Elsewhere (a URI or another file) or  *)
(* Missing.  No identity contains the name of a relationship: identities   *)
(* of synapses then tell their ends apart.                                 *)
(***************************************************************************)
EXTENDS GardenRecords

Elsewhere == <<"elsewhere">>
Missing == <<"missing">>

Relationships == {"related", "supersedes"}

ProvenanceId(id) == <<"provenance">> \o id
MigrationId == <<"migration", "v0", "v1">>

(***************************************************************************)
(* validate_v0_repository                                                  *)
(***************************************************************************)
NoteConforms(t, n) ==
    /\ n.status \in {"draft", "proposed"} => ~n.reviewed
    /\ n.status = "reviewed" => n.reviewed
    /\ t.visibility = "public" => n.visibility = "public"
    /\ Missing \notin n.sources

ProvenanceConforms(n) == n.sidecar = IF n.kind = "source" THEN n.body ELSE Unpinned

ValidV0(t) ==
    \A id \in DOMAIN t.notes :
        /\ NoteConforms(t, t.notes[id])
        /\ ProvenanceConforms(t.notes[id])
        /\ t.notes[id].related \cup t.notes[id].supersedes \subseteq DOMAIN t.notes \ {id}

(***************************************************************************)
(* What a note becomes.                                                    *)
(***************************************************************************)
MigratedStatus(s) ==
    CASE s \in {"draft", "proposed"} -> "proposed" [] s = "reviewed" -> "active" [] OTHER -> s

\* unreviewed_review: a flag is no reviewer.
MigratedReview(reviewed) == IF reviewed THEN "in-review" ELSE "unreviewed"

NoteProvenance(id, n) ==
    [Blank EXCEPT !.id = ProvenanceId(id), !.kind = "provenance",
        !.refs = {Ref("artifact", id, n.body)}
                 \cup IF n.kind = "source" THEN {} ELSE {Ref("input", id, n.body)}]

Verified(t, n) == {l \in n.sources \cap DOMAIN t.notes : t.notes[l].kind = "source"}

\* What is said of one note by another: the type and the two ends.
Mentions(t, id) ==
    {[type |-> "related", from |-> id, to |-> other] : other \in t.notes[id].related}
    \cup {[type |-> "supersedes", from |-> id, to |-> other] : other \in t.notes[id].supersedes}

\* sorted(): undirected relations have one order of their ends.
Ordered(m) ==
    LET first == CHOOSE id \in {m.from, m.to} : TRUE
    IN  IF m.type # "related" THEN m
        ELSE [m EXCEPT !.from = first, !.to = CHOOSE id \in {m.from, m.to} : id # first]

SynapseId(m) == Ordered(m).from \o <<m.type>> \o Ordered(m).to

\* (mutant of MostRestrictive: the comparison is the other way round)
LeastRestrictive(visibilities) ==
    CASE "public" \in visibilities -> "public"
      [] "public" \notin visibilities /\ "internal" \in visibilities -> "internal"
      [] OTHER -> "private"

\* The more restrictive visibility wins.
MostRestrictive(visibilities) ==
    CASE "private" \in visibilities -> "private"
      [] "private" \notin visibilities /\ "internal" \in visibilities -> "internal"
      [] OTHER -> "public"

\* The file of a synapse is written again by each mention of it.
Synapse(t, m) ==
    [Blank EXCEPT !.id = SynapseId(m), !.kind = "synapse", !.status = "proposed",
        !.review = "unreviewed", !.type = m.type, !.directed = (m.type = "supersedes"),
        !.legacy = MostRestrictive({t.notes[id].visibility : id \in
            {i \in DOMAIN t.notes : SynapseId(m) \in {SynapseId(q) : q \in Mentions(t, i)}}}),
        !.refs = {Ref("source", Ordered(m).from, Unpinned), Ref("target", Ordered(m).to, Unpinned)}]

\* What every migrated note has, whatever its kind.
Preserved(id, n) ==
    [Blank EXCEPT !.id = id, !.legacy = n.visibility, !.body = n.body,
        !.status = MigratedStatus(n.status), !.review = MigratedReview(n.reviewed),
        !.refs = {Ref("provenance", ProvenanceId(id), NoteProvenance(id, n))}]

SourceRecord(id, n) == [Preserved(id, n) EXCEPT !.kind = "source"]

KnowledgeRecord(t, id, n) ==
    [Preserved(id, n) EXCEPT !.kind = "knowledge",
        !.refs = @ \cup {Ref("synapses", SynapseId(m), Unpinned) : m \in Mentions(t, id)}
                   \cup {Ref("supersedes", other, Unpinned) : other \in n.supersedes}
                   \cup {Ref("evidence", l, t.notes[l].body) : l \in Verified(t, n)}]

NoteRecord(t, id) ==
    IF t.notes[id].kind = "source" THEN SourceRecord(id, t.notes[id])
    ELSE KnowledgeRecord(t, id, t.notes[id])

\* The locators that no source could be found for, mapped as deferred.
Deferred(t) ==
    UNION {{<<id, l>> : l \in t.notes[id].sources \ Verified(t, t.notes[id])} :
              id \in {i \in DOMAIN t.notes : t.notes[i].kind # "source"}}

MigrationRecord(t) ==
    [Blank EXCEPT !.id = MigrationId, !.kind = "migration", !.status = "applied",
        !.marks = [preserved |-> DOMAIN t.notes, deferred |-> Deferred(t), source |-> t]]

MigrationProvenance(t) ==
    [Blank EXCEPT !.id = ProvenanceId(MigrationId), !.kind = "provenance",
        !.refs = {Ref("artifact", MigrationId, MigrationRecord(t)),
                  Ref("configuration", <<"garden">>, t.manifest)}]

\* base_files: the one record that every new garden has.
Profile == [Blank EXCEPT !.id = <<"default">>, !.kind = "profile"]

NewGarden(visibility) == [visibility |-> visibility, records |-> {Profile}, bodies |-> <<>>]

Migrated(t) ==
    [visibility |-> t.visibility,
     bodies |-> [id \in DOMAIN t.notes |-> t.notes[id].body],
     records |-> {Profile, MigrationRecord(t), MigrationProvenance(t)}
        \cup (UNION {{NoteRecord(t, id), NoteProvenance(id, t.notes[id])} : id \in DOMAIN t.notes})
        \cup {Synapse(t, m) : m \in UNION {Mentions(t, id) : id \in DOMAIN t.notes}}]

=============================================================================

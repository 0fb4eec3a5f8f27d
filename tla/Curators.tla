------------------------------ MODULE Curators ------------------------------
(***************************************************************************)
(* Several curators at one garden (run_gardenize and apply_curation of     *)
(* application/curation.py over ChangePlan of application/changes.py), and *)
(* the owner who changes records, their restrictions and the bindings.     *)
(*                                                                         *)
(* A plan is built twice, once to be reviewed and once to be applied; each *)
(* time the garden is read first and its revision is taken at the end.     *)
(* The two renames of the cutover are one step here, and no process is     *)
(* killed: GardenWriters has both.                                         *)
(***************************************************************************)
EXTENDS Curation

CONSTANTS
    Gardens,        \* what the garden may hold at first
    Bindings,       \* the scopes that the bindings may give it
    Proposals,      \* what curators may propose
    Curator,
    Caveat,         \* what the owner may note on a record
    Gaps,           \* what the code does not guard against and may happen
                    \* here: "rebind" (while a plan is being selected),
                    \* "lineage" (a record changes that others are made from),
                    \* "return" (a change is taken back that was made since a
                    \* plan was presented for review)
    MaxEdits        \* steps of the owner

ASSUME GapsNamed == Gaps \subseteq {"rebind", "lineage", "return"}

(***************************************************************************)
(* What a garden says of the notes in it that have a lineage record.       *)
(***************************************************************************)
Curated(G) == {r \in G.records : r.kind = "knowledge" /\ LineageId(r.id) \in Identities(G)}

Origins(G, r) ==
    {Record(G, ref.id) : ref \in {q \in Record(G, LineageId(r.id)).refs : q.role = "input"}}

Cited(G, r) == {Record(G, ref.id) : ref \in EvidenceOf(r)}

Binds(r, o) == o.own # NoScope => r.own # NoScope /\ AtLeast(r.own, o.own)

Restricting(G) == \A r \in Curated(G) : \A o \in Origins(G, r) \cup Cited(G, r) : Binds(r, o)

Qualifying(G) ==
    \A r \in Curated(G) : \A o \in {i \in Origins(G, r) : i.kind = "knowledge"} :
        /\ o.marks.authors \subseteq r.marks.authors
        /\ o.marks.caveats \subseteq r.marks.caveats
        /\ o.marks.contradictions \subseteq r.marks.contradictions
        /\ EvidenceOf(o) \subseteq EvidenceOf(r)
        /\ o.marks.attribution # "none" => r.marks.attribution \in {o.marks.attribution, "mixed"}

\* A record has the fields of one, and a note says how it is qualified.
Formed(r) ==
    /\ DOMAIN r = DOMAIN Blank
    /\ r.own \in Scopes \cup {NoScope}
    /\ r.kind = "knowledge" =>
          /\ r.id \in Seq(STRING)
          /\ DOMAIN r.marks = {"attribution", "authors", "caveats", "contradictions"}

\* A valid garden whose notes, made by hand or curated earlier, are as
\* restricted as the sources that they cite and as what they were made from.
ASSUME GardensAssumption ==
    \A G \in Gardens :
        /\ {"records", "bodies"} \subseteq DOMAIN G
        /\ \A r \in G.records : Formed(r)
        /\ Valid(G, {})
        /\ \A r \in {k \in G.records : k.kind = "knowledge"} : \A o \in Cited(G, r) : Binds(r, o)
        /\ Restricting(G) /\ Qualifying(G)

ASSUME BindingsAssumption == Bindings \subseteq Scopes

\* The fields of an output that are references say so.
ASSUME ProposalsAssumption ==
    \A q \in Proposals : \A c \in ToSet(q.candidates) :
        /\ \A ref \in c.sources : ref.role = "evidence"
        /\ c.action \notin Discarding =>
              /\ c.output.id \in Seq(STRING)
              /\ \A ref \in c.output.supersedes : ref.role = "supersedes"
              /\ \A s \in c.output.synapses : s.target.role = "target"
              /\ \A claim \in c.output.claims : \A ref \in claim.evidence :
                    ref.role \in {"evidence", "about"}

VARIABLES
    garden,
    bind,       \* the scope that the bindings give the garden
    lock,       \* the curator who has created the lock, or nobody
    task,       \* the private state of each curator
    edits

vars == <<garden, bind, lock, task, edits>>

Nobody == "nobody"
NoPlan == [none |-> TRUE]
Idle == [pc |-> "idle", proposal |-> NoPlan, seen |-> NoPlan, plan |-> NoPlan]

Init ==
    /\ garden \in Gardens
    /\ bind \in Bindings
    /\ lock = Nobody
    /\ task = [p \in Curator |-> Idle]
    /\ edits = 0

Goto(p, pc) == task' = [task EXCEPT ![p].pc = pc]
Give(p) == task' = [task EXCEPT ![p] = Idle]
Release(p) == Give(p) /\ lock' = Nobody

(***************************************************************************)
(* build_curation_plan: the garden and the bindings are read, and what     *)
(* follows from them is tied to the revisions that they have later.        *)
(***************************************************************************)
Read(p) ==
    /\ task[p].pc \in {"idle", "reviewed"}
    /\ \E q \in IF task[p].pc = "idle" THEN Proposals ELSE {task[p].proposal} :
          task' = [task EXCEPT ![p].pc = "read", ![p].proposal = q,
                               ![p].seen = [garden |-> garden, bind |-> bind]]
    /\ UNCHANGED <<garden, bind, lock, edits>>

Built(p) ==
    [records |-> Planned(task[p].seen.garden, task[p].seen.bind, task[p].proposal),
     garden |-> garden, bind |-> bind]

\* The plan is presented for review, or must be the one that was.
Pin(p) ==
    /\ task[p].pc = "read"
    /\ IF ~Plannable(task[p].seen.garden, task[p].seen.bind, task[p].proposal) THEN Give(p)
       ELSE \E plan \in {Built(p)} :
            \/ /\ task[p].plan = NoPlan
               /\ task' = [task EXCEPT ![p].pc = "reviewed", ![p].seen = NoPlan, ![p].plan = plan]
            \/ /\ task[p].plan = plan
               /\ task' = [task EXCEPT ![p].pc = "planned", ![p].seen = NoPlan]
            \/ task[p].plan \notin {NoPlan, plan} /\ Give(p)
    /\ UNCHANGED <<garden, bind, lock, edits>>

Missed(p, plan) == {r \in plan.records : r \notin garden.records}

(***************************************************************************)
(* ChangePlan.apply                                                        *)
(***************************************************************************)
Lock(p) ==
    /\ task[p].pc = "planned"
    /\ IF lock = Nobody THEN lock' = p /\ Goto(p, "locked")
       ELSE Give(p) /\ UNCHANGED lock
    /\ UNCHANGED <<garden, bind, edits>>

\* verify(): nothing to do, something that is there already, or a garden that
\* has changed.
Verify(p) ==
    /\ task[p].pc = "locked"
    /\ IF /\ task[p].plan.bind = bind
          /\ Missed(p, task[p].plan) # {}
          /\ Compatible(garden, task[p].plan.records)
          /\ task[p].plan.garden = garden
       THEN Goto(p, "stage") /\ UNCHANGED lock
       ELSE Release(p)
    /\ UNCHANGED <<garden, bind, edits>>

Staged(p) == With(garden, task[p].plan.records, task[p].proposal)

Stage(p) ==
    /\ task[p].pc = "stage"
    /\ IF Valid(Staged(p), {}) THEN Goto(p, "select") /\ UNCHANGED lock
       ELSE Release(p)
    /\ UNCHANGED <<garden, bind, edits>>

\* (mutant of Select: the revision is not compared again)
SelectAnyway(p) ==
    /\ task[p].pc = "select"
    /\ garden' = Staged(p)
    /\ Release(p)
    /\ UNCHANGED <<bind, edits>>

\* The revision is compared again, and the stage replaces the garden.
Select(p) ==
    /\ task[p].pc = "select"
    /\ garden' = IF task[p].plan.garden = garden THEN Staged(p) ELSE garden
    /\ Release(p)
    /\ UNCHANGED <<bind, edits>>

(***************************************************************************)
(* The owner                                                               *)
(***************************************************************************)
Edited == edits < MaxEdits /\ edits' = edits + 1

\* The garden or the bindings become again what a review was tied to.
TakenBack ==
    \E p \in Curator :
        /\ task[p].plan # NoPlan
        /\ \/ garden' # garden /\ garden' = task[p].plan.garden
           \/ bind' # bind /\ bind' = task[p].plan.bind

Allowed == "return" \in Gaps \/ ~TakenBack

\* Nothing has been made from this record.
Untouched(id) ==
    \A r \in garden.records : \A ref \in r.refs : ref.id = id => ref.role = "artifact"

Editable(kind) ==
    {r \in garden.records : r.kind = kind /\ ("lineage" \in Gaps \/ Untouched(r.id))}

\* The metadata of a record changes, not the bytes that revisions are taken of.
Reclassify ==
    \E r \in Editable("source") : \E s \in Bindings :
        /\ r.own # s
        /\ garden' = With(garden, {[r EXCEPT !.own = s, !.legacy = LegacyVisibility(s.visibility)]},
                          [candidates |-> <<>>])
        /\ UNCHANGED <<bind, lock, task>>
        /\ Edited /\ Allowed

Qualify ==
    \E r \in Editable("knowledge") : \E text \in Caveat \ r.marks.caveats :
        /\ garden' = With(garden, {[r EXCEPT !.marks.caveats = @ \cup {text}]},
                          [candidates |-> <<>>])
        /\ UNCHANGED <<bind, lock, task>>
        /\ Edited /\ Allowed

Rebind ==
    /\ "rebind" \in Gaps \/ \A p \in Curator : task[p].pc \notin {"stage", "select"}
    /\ bind' \in Bindings \ {bind}
    /\ UNCHANGED <<garden, lock, task>>
    /\ Edited /\ Allowed

Next ==
    \/ \E p \in Curator :
          Read(p) \/ Pin(p) \/ Lock(p) \/ Verify(p) \/ Stage(p) \/ Select(p)
    \/ Reclassify
    \/ Qualify
    \/ Rebind

Spec == Init /\ [][Next]_vars

(***************************************************************************)
(* Properties                                                              *)
(***************************************************************************)
\* A derived note is at least as restricted as whatever it was made from and
\* as every source it cites, those included that it only got from the notes
\* merged into it (curation.py: inherit_scope of inputs and merged).
LineageBinds == Restricting(garden)

\* Merging loses nothing that qualifies a note: authors, caveats,
\* contradictions and evidence of every merged note are in the result, and an
\* attribution that is not the same for all has become mixed.
QualificationsKept == Qualifying(garden)

\* What is selected is what the proposal calls for in the garden and under the
\* bindings that are there at that moment, and replaces nothing.
AppliedFitsGarden ==
    [][\A p \in Curator :
          task[p].pc = "select" /\ task'[p].pc = "idle" /\ garden' # garden =>
              /\ Plannable(garden, bind, task[p].proposal)
              /\ garden' = With(garden, Planned(garden, bind, task[p].proposal), task[p].proposal)
              /\ garden.records \subseteq garden'.records]_vars

=============================================================================

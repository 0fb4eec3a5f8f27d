------------------------------ MODULE Lifecycle ------------------------------
(***************************************************************************)
(* The life of a repository's garden: init and migrate                     *)
(* (application/lifecycle.py) run by several operators, any of whom may be *)
(* killed, and the owner who edits, rolls back and rescues.                *)
(*                                                                         *)
(* What a directory holds is nothing, a v0 garden, or a v1 garden, which   *)
(* is known by what it was made from: the v0 garden migrated, or nothing   *)
(* for a new one.                                                          *)
(***************************************************************************)
EXTENDS Migration

CONSTANTS
    V0Gardens,      \* what the repository may hold at first, besides nothing
    Operator,       \* who runs init and migrate
    NewVisibility,  \* the visibility that init is told
    Gaps,           \* what the code does not guard against and may happen here:
                    \* "edit" (of a garden that is being migrated), "init"
                    \* (beside a rollback tree), "rollback" (or retirement
                    \* of .garden.v0 while a command runs)
    MaxUpsets       \* kills, failing renames and steps of the owner together

Privacy == [public |-> 0, internal |-> 1, private |-> 2]

\* What a garden that is read has: notes, each of one of the three visibilities.
Shaped(t) ==
    /\ {"visibility", "manifest", "notes"} \subseteq DOMAIN t
    /\ \A id \in DOMAIN t.notes :
          /\ {"kind", "status", "reviewed", "visibility", "sources", "related",
              "supersedes", "body", "sidecar"} \subseteq DOMAIN t.notes[id]
          /\ t.notes[id].visibility \in DOMAIN Privacy

ASSUME V0Assumption == \A t \in V0Gardens : Shaped(t)

ASSUME GapsNamed == Gaps \subseteq {"edit", "init", "rollback"}

VARIABLES
    tree,       \* .garden
    rollback,   \* .garden.v0
    task,       \* the private state of each operator
    upsets,     \* how many there have been
    kept        \* ghost: the v0 garden that nobody may lose, or nothing

vars == <<tree, rollback, task, upsets, kept>>

Nothing == [form |-> "none"]
V0(t) == [form |-> "v0", of |-> t]
V1(from) == [form |-> "v1", from |-> from]

Idle == [pc |-> "idle", op |-> "none", plan |-> Nothing, moved |-> FALSE, result |-> "none"]

\* The v1 garden in a directory d of that form.
GardenIn(d) == IF d.from = Nothing THEN NewGarden(NewVisibility) ELSE Migrated(d.from.of)

\* The first of .garden.v0/garden.yaml and .garden/garden.yaml.
Configurations(back, here) ==
    IF back.form = "v0" THEN {back.of.manifest}
    ELSE IF here.form = "v0" THEN {here.of.manifest} ELSE {}

\* check_v1_tree of a directory, as the repository is now.
Checks(d) == d.form = "v1" /\ Valid(GardenIn(d), Configurations(rollback, tree))

Goto(p, pc) == task' = [task EXCEPT ![p].pc = pc]
End(p, result) ==
    task' = [task EXCEPT ![p] = [Idle EXCEPT !.op = task[p].op, !.result = result]]

Init ==
    /\ tree \in {Nothing} \cup {V0(t) : t \in V0Gardens}
    /\ rollback = Nothing
    /\ task = [p \in Operator |-> Idle]
    /\ upsets = 0
    /\ kept = tree

(***************************************************************************)
(* Planning.  A plan is what it is computed from: the operator reads it    *)
(* once to review it and the command computes it again to apply it.        *)
(***************************************************************************)
InitAwaited == "init" \in Gaps \/ rollback = Nothing

CanPlan(op) ==
    IF op = "init" THEN InitAwaited
    ELSE tree.form = "v0" /\ ValidV0(tree.of)

Review(p, op) ==
    /\ task[p].pc = "idle"
    /\ CanPlan(op)
    /\ task' = [task EXCEPT ![p] = [Idle EXCEPT !.pc = "reviewed", !.op = op,
                                       !.plan = IF op = "init" THEN Nothing ELSE tree]]
    /\ UNCHANGED <<tree, rollback, upsets, kept>>

\* run_migrate of what is migrated already.
FindCurrent(p) ==
    /\ task[p].pc \in {"idle", "reviewed"}
    /\ tree.form = "v1"
    /\ task[p].pc = "reviewed" => task[p].op = "migrate"
    /\ task' = [task EXCEPT ![p] = [Idle EXCEPT !.op = "migrate",
            !.result = IF rollback.form = "v0" /\ Checks(tree) THEN "current" ELSE "refused"]]
    /\ UNCHANGED <<tree, rollback, upsets, kept>>

\* (mutant of Replan: what was reviewed is applied, whatever is there now)
ReplanUnread(p) ==
    /\ task[p].pc = "reviewed"
    /\ task[p].op = "migrate" => tree.form # "v1"
    /\ Goto(p, "planned")
    /\ UNCHANGED <<tree, rollback, upsets, kept>>

\* require_plan_digest: the same plan again.
Replan(p) ==
    /\ task[p].pc = "reviewed"
    /\ task[p].op = "migrate" => tree.form # "v1"
    /\ IF task[p].op = "init" \/ (tree = task[p].plan /\ CanPlan("migrate"))
       THEN Goto(p, "planned")
       ELSE End(p, "refused")
    /\ UNCHANGED <<tree, rollback, upsets, kept>>

(***************************************************************************)
(* apply_init and apply_migration                                          *)
(***************************************************************************)
\* A garden that init finds must hold every planned file.
CheckInit(p) ==
    /\ task[p].pc = "planned" /\ task[p].op = "init"
    /\ InitAwaited
    /\ CASE tree = Nothing -> Goto(p, "stage")
         [] tree = V1(Nothing) -> End(p, IF Checks(tree) THEN "current" ELSE "refused")
         [] OTHER -> End(p, "refused")
    /\ UNCHANGED <<tree, rollback, upsets, kept>>

CheckMigration(p) ==
    /\ task[p].pc = "planned" /\ task[p].op = "migrate"
    /\ CASE tree.form = "v1" -> End(p, IF Checks(tree) /\ rollback # Nothing
                                       THEN "current" ELSE "refused")
         [] tree.form # "v1" /\ rollback # Nothing -> End(p, "refused")
         [] OTHER -> Goto(p, "stage")
    /\ UNCHANGED <<tree, rollback, upsets, kept>>

\* write_staged_tree: an invalid stage is removed again.
Stage(p) ==
    /\ task[p].pc = "stage"
    /\ IF Checks(V1(task[p].plan))
       THEN Goto(p, IF task[p].op = "init" THEN "select" ELSE "move")
       ELSE End(p, "refused")
    /\ UNCHANGED <<tree, rollback, upsets, kept>>

\* (mutant of MoveSource: what is in .garden.v0 is replaced)
MoveOver(p) ==
    /\ task[p].pc = "move"
    /\ rollback' = tree
    /\ tree' = Nothing
    /\ task' = [task EXCEPT ![p].pc = "select", ![p].moved = TRUE]
    /\ UNCHANGED <<upsets, kept>>

\* os.replace of a directory: it must be there, and the other place empty.
MoveSource(p) ==
    /\ task[p].pc = "move"
    /\ IF tree # Nothing /\ rollback = Nothing
       THEN /\ rollback' = tree
            /\ tree' = Nothing
            /\ task' = [task EXCEPT ![p].pc = "select", ![p].moved = TRUE]
       ELSE /\ End(p, "failed")
            /\ UNCHANGED <<tree, rollback>>
    /\ UNCHANGED <<upsets, kept>>

Select(p) ==
    /\ task[p].pc = "select"
    /\ IF tree = Nothing
       THEN tree' = V1(task[p].plan) /\ End(p, "applied")
       ELSE Goto(p, "undo") /\ UNCHANGED tree
    /\ UNCHANGED <<rollback, upsets, kept>>

\* The except clause: v0 goes back where nothing has taken its place.
PutBack(p) ==
    /\ task[p].pc = "undo"
    /\ IF task[p].moved /\ tree = Nothing /\ rollback # Nothing
       THEN tree' = rollback /\ rollback' = Nothing
       ELSE UNCHANGED <<tree, rollback>>
    /\ End(p, "failed")
    /\ UNCHANGED <<upsets, kept>>

(***************************************************************************)
(* The environment.                                                        *)
(***************************************************************************)
Upset == upsets < MaxUpsets /\ upsets' = upsets + 1

\* A rename fails: nothing is moved.
FailRename(p) ==
    /\ task[p].pc \in {"move", "select"}
    /\ Upset
    /\ Goto(p, "undo")
    /\ UNCHANGED <<tree, rollback, kept>>

Kill(p) ==
    /\ task[p].pc \notin {"idle", "reviewed"}
    /\ Upset
    /\ End(p, "killed")
    /\ UNCHANGED <<tree, rollback, kept>>

Working == \E p \in Operator : task[p].pc \in {"planned", "stage", "move"}

\* The owner edits a note; the bytes of the garden are others then.
EditNote ==
    /\ tree.form = "v0"
    /\ "edit" \in Gaps \/ ~Working
    /\ Upset
    /\ \E id \in DOMAIN tree.of.notes :
          /\ tree.of.notes[id].kind # "source"
          /\ tree.of.notes[id].body # [text |-> "edited"]
          /\ tree' = V0([tree.of EXCEPT !.notes[id].body = [text |-> "edited"]])
    /\ kept' = tree'
    /\ UNCHANGED <<rollback, task>>

Unattended == \A p \in Operator : task[p].pc \in {"idle", "reviewed"}

\* ROLLBACK.md: move v1 aside and rename .garden.v0 back.
RollBack ==
    /\ rollback.form = "v0"
    /\ "rollback" \in Gaps \/ Unattended
    /\ Upset
    /\ tree' = rollback
    /\ rollback' = Nothing
    /\ UNCHANGED <<task, kept>>

\* Once both versions are reviewed the owner deletes the old one.
Retire ==
    /\ tree.form = "v1" /\ rollback # Nothing
    /\ "rollback" \in Gaps \/ Unattended
    /\ Upset
    /\ rollback' = Nothing
    /\ kept' = Nothing
    /\ UNCHANGED <<tree, task>>

Step(p) ==
    \/ \E op \in {"init", "migrate"} : Review(p, op)
    \/ FindCurrent(p)
    \/ Replan(p)
    \/ CheckInit(p)
    \/ CheckMigration(p)
    \/ Stage(p)
    \/ MoveSource(p)
    \/ Select(p)
    \/ PutBack(p)

Next ==
    \/ \E p \in Operator : Step(p) \/ FailRename(p) \/ Kill(p)
    \/ EditNote
    \/ RollBack
    \/ Retire

Spec == Init /\ [][Next]_vars

(***************************************************************************)
(* Properties.                                                             *)
(***************************************************************************)
\* Whatever is killed or fails and whoever else is at work, the garden that the
\* owner had is .garden or .garden.v0, whole.
OriginalKept == kept # Nothing => kept \in {tree, rollback}

\* Who is told that the garden is migrated has the migration of what is in
\* .garden.v0, not something else (run_migrate, apply_migration).
ReportsAreTrue ==
    [][\A p \in Operator :
          task'[p] # task[p] /\ task'[p].op = "migrate" /\ task'[p].result \in {"applied", "current"}
              => tree' = V1(rollback')]_vars

\* The v1 garden G accounts for each locator of the note id of t: as evidence with
\* the revision of what it names, or as a deferred mapping.
LocatorsCarried(t, G, id) ==
    \A l \in t.notes[id].sources :
        \/ \E ref \in Record(G, id).refs :
              ref.role = "evidence" /\ ref.id = l /\ ref.revision = G.bodies[l]
        \/ <<id, l>> \in Record(G, MigrationId).marks.deferred

\* Every relation of the v0 garden, between whatever notes, is in the v1 garden and no
\* more visible than a note that mentions it; and so are the locators of the notes that
\* are no sources themselves (knowledge_v1_records).  The locators of source notes are
\* left out because the code drops them (source_v1_records), although
\* docs/initialization-migration.md:105-107 promises each a deferred mapping at least.
RelationsKept ==
    tree.form = "v1" /\ tree.from # Nothing =>
        \A t \in {tree.from.of} : \A G \in {GardenIn(tree)} :
            \A id \in DOMAIN t.notes :
                /\ \A m \in Mentions(t, id) :
                      \E s \in G.records :
                          /\ s.kind = "synapse" /\ s.type = m.type
                          /\ Ends(s) = {m.from, m.to}
                          /\ s.directed => EndOf(s, "source") = m.from
                          /\ Privacy[s.legacy] >= Privacy[t.notes[id].visibility]
                /\ t.notes[id].kind # "source" => LocatorsCarried(t, G, id)

\* What a v0 garden must have beyond its own rules, said directly: nothing
\* supersedes itself, notes supersede notes, and nobody public leans on what
\* is not (a note's provenance is as visible as the garden).
Acceptable(t) ==
    LET N == DOMAIN t.notes
        edges == {e \in N \X N : e[2] \in t.notes[e[1]].supersedes}
        reach[n \in Nat] == IF n = 0 THEN edges
            ELSE {e \in N \X N : \E i \in N : e \in reach[n - 1] \/ (<<e[1], i>> \in reach[n - 1] /\ <<i, e[2]>> \in reach[n - 1])}
    IN  /\ \A i \in N : <<i, i>> \notin reach[Cardinality(N)]
        /\ \A e \in edges : t.notes[e[1]].kind # "source" => t.notes[e[2]].kind # "source"
        /\ \A i \in N : t.notes[i].visibility = "public" => t.visibility = "public"

\* Stages are refused exactly when that fails: no acceptable garden is turned
\* away and none other is selected.
RefusalsAreKnown ==
    [][\A p \in Operator :
          task[p].pc = "stage" /\ task[p].op = "migrate" /\ task'[p].pc # "stage" /\ task'[p].result # "killed"
              => (task'[p].pc = "move" <=> Acceptable(task[p].plan.of))]_vars

=============================================================================

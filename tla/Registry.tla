------------------------------ MODULE Registry ------------------------------
(***************************************************************************)
(* The machine-local registry document (schema local-bindings) and the     *)
(* operations a reviewed plan may perform on it.                           *)
(*                                                                         *)
(* Documents are values: the digest of a file stands for its bytes, so two *)
(* files have the same digest exactly when the documents are equal.  Lists *)
(* that the program keeps sorted are sets and functions here.  An absent   *)
(* key of view_epochs is the epoch 0, which no operation ever writes.      *)
(***************************************************************************)
EXTENDS Integers, FiniteSets

CONSTANTS
    Garden,         \* garden identities
    Root,           \* folders that may hold a garden
    View,           \* identities of named views
    Session,        \* identities of query sessions
    Version,        \* contents of a garden manifest
    Place,          \* folders a source vault may be bound to
    MaxGardens, MaxViews, MaxViewEpochs,
    Missing,        \* no garden manifest in a folder
    Unbound,        \* no binding, no registration
    NoView,         \* no view of this name
    Absent          \* no registry file

Manifest == [garden : Garden, version : Version]
Disk == [Root -> Manifest \cup {Missing}]
Selection == [gardens : SUBSET Garden, generation : Nat]

Registry ==
    [managed : BOOLEAN,
     root    : [Garden -> Root \cup {Unbound}],
     label   : [Garden -> Version \cup {Unbound}],
     views   : [View -> Selection \cup {NoView}],
     epoch   : [View -> Nat],
     vault   : Place \cup {Unbound},
     revoked : SUBSET Session]

ASSUME RegistryAssumption ==
    /\ MaxGardens \in Nat /\ MaxViews \in Nat /\ MaxViewEpochs \in Nat
    /\ Missing \notin Manifest
    /\ Unbound \notin Root \cup Version \cup Place
    /\ NoView \notin Selection
    /\ Absent \notin Registry
    /\ IsFiniteSet(Garden) /\ IsFiniteSet(View)

Bound(doc) == {g \in Garden : doc.root[g] # Unbound}
Named(doc) == {v \in View : doc.views[v] # NoView}
Marked(doc) == {v \in View : doc.epoch[v] > 0}

NoSelections == [v \in View |-> NoView]
NoEpochs == [v \in View |-> 0]

\* state() reads a missing file as an empty bindings document.
EmptyBindings ==
    [managed |-> FALSE,
     root    |-> [g \in Garden |-> Unbound],
     label   |-> [g \in Garden |-> Unbound],
     views   |-> NoSelections,
     epoch   |-> NoEpochs,
     vault   |-> Unbound,
     revoked |-> {}]

Document(file) == IF file = Absent THEN EmptyBindings ELSE file

\* validate_registry of a managed document, and check_overlaps.
Valid(doc) ==
    /\ doc.managed
    /\ \A g \in Garden : doc.root[g] = Unbound <=> doc.label[g] = Unbound
    /\ \A g, h \in Bound(doc) : doc.root[g] = doc.root[h] => g = h
    /\ \A v \in Named(doc) :
          /\ doc.views[v].gardens \subseteq Bound(doc)
          /\ doc.views[v].generation = doc.epoch[v]
    /\ Cardinality(Bound(doc)) <= MaxGardens
    /\ Cardinality(Named(doc)) <= MaxViews
    /\ Cardinality(Marked(doc)) <= MaxViewEpochs

(***************************************************************************)
(* What inspect_root reads.                                                *)
(***************************************************************************)
Holds(disk, r, g) == disk[r] # Missing /\ disk[r].garden = g
AllHeld(doc, disk) == \A g \in Bound(doc) : Holds(disk, doc.root[g], g)
Observed(doc, disk) ==
    [g \in Garden |-> IF g \in Bound(doc) THEN disk[doc.root[g]].version ELSE Unbound]

(***************************************************************************)
(* The documents the operations produce.                                   *)
(***************************************************************************)
Adopted(doc, disk) == [doc EXCEPT !.managed = TRUE, !.label = Observed(doc, disk)]

Registered(doc, r, disk) ==
    LET g == disk[r].garden IN
    [doc EXCEPT !.root = [doc.root EXCEPT ![g] = r],
                !.label = [doc.label EXCEPT ![g] = disk[r].version]]

\* next_view for every view of a set: a new generation of its (new) members.
NextViews(doc, chosen, members) ==
    [doc EXCEPT
        !.epoch = [v \in View |-> IF v \in chosen THEN doc.epoch[v] + 1 ELSE doc.epoch[v]],
        !.views = [v \in View |-> IF v \in chosen
                                  THEN [gardens |-> members[v], generation |-> doc.epoch[v] + 1]
                                  ELSE doc.views[v]]]

\* Mutation of Unregistered: the views that select the garden are left as they are.
UnregisteredOnly(doc, g) ==
    [doc EXCEPT !.root = [doc.root EXCEPT ![g] = Unbound],
                !.label = [doc.label EXCEPT ![g] = Unbound]]

Unregistered(doc, g) ==
    LET using == {v \in Named(doc) : g \in doc.views[v].gardens}
        bare == [doc EXCEPT !.root = [doc.root EXCEPT ![g] = Unbound],
                            !.label = [doc.label EXCEPT ![g] = Unbound]]
    IN  NextViews(bare, using, [v \in using |-> doc.views[v].gardens \ {g}])

ViewSet(doc, v, gs) ==
    IF v \in Named(doc) /\ doc.views[v].gardens = gs
    THEN doc
    ELSE NextViews(doc, {v}, [w \in {v} |-> gs])

ViewRemoved(doc, v) ==
    IF v \in Named(doc)
    THEN [doc EXCEPT !.views = [doc.views EXCEPT ![v] = NoView],
                     !.epoch = [doc.epoch EXCEPT ![v] = @ + 1]]
    ELSE doc

\* Mutation of EpochsAbove: the high-water marks are restored with the rest.
SnapshotEpochs(doc, snap) == snap.epoch

\* Epochs go above both the present and the snapshot: no old generation returns.
EpochsAbove(doc, snap) ==
    [v \in View |->
        IF doc.epoch[v] = 0 /\ snap.epoch[v] = 0 THEN 0
        ELSE 1 + (IF doc.epoch[v] >= snap.epoch[v] THEN doc.epoch[v] ELSE snap.epoch[v])]

\* Mutation of AtEpochs: the restored views keep the generations they had.
OldGenerations(views, epochs) == views

\* The restored views, at their new generations.
AtEpochs(views, epochs) ==
    [v \in View |-> IF views[v] = NoView THEN NoView
                    ELSE [gardens |-> views[v].gardens, generation |-> epochs[v]]]

\* Mutation of RevokedByEither: the restored file is taken as it was.
RevokedThen(doc, snap) == snap.revoked

RevokedByEither(doc, snap) == snap.revoked \cup doc.revoked

Restored(doc, snap, disk) ==
    LET epochs == EpochsAbove(doc, snap) IN
    [snap EXCEPT !.managed = TRUE,
                 !.label = Observed(snap, disk),
                 !.epoch = epochs,
                 !.views = AtEpochs(snap.views, epochs),
                 !.revoked = RevokedByEither(doc, snap)]

(***************************************************************************)
(* Requests, and build_registry_plan: what a request makes of a document,  *)
(* and whether a plan for it can be built at all.                          *)
(***************************************************************************)
InitRequest == [op : {"init"}]
RegisterRequest == [op : {"register"}, root : Root]
UnregisterRequest == [op : {"unregister"}, garden : Garden]
SetViewRequest == [op : {"set-view"}, view : View, gardens : SUBSET Garden]
RemoveViewRequest == [op : {"remove-view"}, view : View]
RestoreRequest(snapshots) == [op : {"restore"}, snapshot : snapshots]

Request(snapshots) ==
    InitRequest \cup RegisterRequest \cup UnregisterRequest \cup SetViewRequest
        \cup RemoveViewRequest \cup RestoreRequest(snapshots)

After(doc, req, disk) ==
    CASE req.op = "init"        -> Adopted(doc, disk)
      [] req.op = "register"    -> Registered(doc, req.root, disk)
      [] req.op = "unregister"  -> Unregistered(doc, req.garden)
      [] req.op = "set-view"    -> ViewSet(doc, req.view, req.gardens)
      [] req.op = "remove-view" -> ViewRemoved(doc, req.view)
      [] req.op = "restore"     -> Restored(doc, req.snapshot, disk)

\* inspect_root, the conflicts and the refusals that come before the result.
Accepts(doc, req, disk) ==
    /\ req.op \notin {"init", "restore"} => Valid(doc)
    /\ req.op = "init" => AllHeld(doc, disk)
    /\ req.op = "register" =>
          /\ disk[req.root] # Missing
          /\ doc.root[disk[req.root].garden] \in {Unbound, req.root}
    /\ req.op = "set-view" => req.gardens \subseteq Bound(doc)
    /\ req.op = "restore" => AllHeld(req.snapshot, disk)

Buildable(doc, req, disk) ==
    Accepts(doc, req, disk) /\ Valid(After(doc, req, disk))

\* The fingerprints of the manifests the plan was computed from.
Inputs(doc, req, disk) ==
    LET roots == CASE req.op = "init"     -> {doc.root[g] : g \in Bound(doc)}
                   [] req.op = "register" -> {req.root}
                   [] req.op = "restore"  ->
                          {req.snapshot.root[g] : g \in Bound(req.snapshot)}
                   [] OTHER -> {}
    IN  [r \in roots |-> disk[r]]

\* semantic_registry: everything except the generations.
Semantic(doc) ==
    [doc EXCEPT !.epoch = NoEpochs, !.views = AtEpochs(doc.views, NoEpochs)]

(***************************************************************************)
(* Sessions pin the exact view they were made for.                         *)
(***************************************************************************)
Pin == [view : View, selection : Selection]

\* verify_session_view, and the revocation check beside it.
Authorized(doc, s, pin) ==
    /\ s \notin doc.revoked
    /\ doc.views[pin.view] = pin.selection
    /\ doc.epoch[pin.view] = pin.selection.generation
    /\ pin.selection.gardens \subseteq Bound(doc)

=============================================================================

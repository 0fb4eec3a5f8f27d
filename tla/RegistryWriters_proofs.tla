----------------------- MODULE RegistryWriters_proofs -----------------------
(***************************************************************************)
(* The registry, in three parts.  What the operations do to a document, to *)
(* its generations and to its revocations, for every document, request and *)
(* disk.  The ledger by itself: no session revives and no revocation is    *)
(* lost, however many operations, restores, relocations and revocations    *)
(* follow one another.  And the commands that write the registry file, for *)
(* any number of clerks, relocations and sessions: the types; and, when an *)
(* apply and a relocation are not in the last instant of a write at once   *)
(* and the owner is quiet in that instant, that they implement the ledger. *)
(***************************************************************************)
EXTENDS RegistryWriters, FiniteSetTheorems, TLAPS

(***************************************************************************)
(* Operations on documents.                                                *)
(***************************************************************************)

\* The views of a document agree with its high-water marks.
Consistent(doc) ==
    \A v \in View :
        doc.views[v] # NoView =>
            /\ doc.epoch[v] > 0
            /\ doc.views[v].generation = doc.epoch[v]
            /\ doc.views[v].gardens \subseteq Bound(doc)

\* Generations and revocations only grow, and a view changes only together
\* with its generation.
Advances(old, new) ==
    /\ old.revoked \subseteq new.revoked
    /\ \A v \in View :
          /\ old.epoch[v] <= new.epoch[v]
          /\ old.epoch[v] = new.epoch[v] => old.views[v] = new.views[v]

----------------------------------------------------------------------------
\* The components of a document and their types.
LEMMA Parts ==
    ASSUME NEW doc \in Registry
    PROVE  /\ doc.managed \in BOOLEAN
           /\ doc.root \in [Garden -> Root \cup {Unbound}]
           /\ doc.label \in [Garden -> Version \cup {Unbound}]
           /\ doc.views \in [View -> Selection \cup {NoView}]
           /\ doc.epoch \in [View -> Nat]
           /\ doc.vault \in Place \cup {Unbound}
           /\ doc.revoked \subseteq Session
BY DEF Registry

\* Advancing is reflexive and transitive.
LEMMA AdvancesReflexive ==
    ASSUME NEW d \in Registry
    PROVE  Advances(d, d)
BY Parts DEF Advances

\* Two advances make one.
LEMMA AdvancesTransitive ==
    ASSUME NEW d \in Registry, NEW e \in Registry, NEW f \in Registry,
           Advances(d, e), Advances(e, f)
    PROVE  Advances(d, f)
<1>1. \A v \in View : d.epoch[v] \in Nat /\ e.epoch[v] \in Nat /\ f.epoch[v] \in Nat
  BY Parts
<1> QED
  BY <1>1 DEF Advances

\* The empty bindings are a document without views.
LEMMA EmptyIsDocument ==
    EmptyBindings \in Registry /\ Consistent(EmptyBindings)
BY DEF EmptyBindings, Registry, NoSelections, NoEpochs, Consistent

\* The members of a view have the type of a selection.
LEMMA ViewParts ==
    ASSUME NEW doc \in Registry, NEW v \in View, doc.views[v] # NoView
    PROVE  doc.views[v].gardens \subseteq Garden /\ doc.views[v].generation \in Nat
<1>1. doc.views[v] \in Selection
  BY Parts
<1> QED
  BY <1>1 DEF Selection

\* Observed labels are versions where a folder holds the garden.
LEMMA ObservedType ==
    ASSUME NEW doc \in Registry, NEW found \in Disk, AllHeld(doc, found)
    PROVE  Observed(doc, found) \in [Garden -> Version \cup {Unbound}]
<1>1. ASSUME NEW g \in Garden, g \in Bound(doc)
      PROVE  found[doc.root[g]].version \in Version
  <2>1. doc.root[g] \in Root
    BY <1>1, Parts DEF Bound
  <2>2. found[doc.root[g]] \in Manifest
    BY <1>1, <2>1 DEF AllHeld, Holds, Disk
  <2> QED
    BY <2>2 DEF Manifest
<1> QED
  BY <1>1 DEF Observed

----------------------------------------------------------------------------
\* A document whose named views have a generation.
Generated(doc) == \A v \in View : doc.views[v] # NoView => doc.epoch[v] > 0

\* A valid document with generations is consistent.
LEMMA ValidIsConsistent ==
    ASSUME NEW doc \in Registry, Valid(doc), Generated(doc)
    PROVE  Consistent(doc)
BY DEF Valid, Named, Generated, Consistent

\* Init changes no view.
LEMMA AdoptedEffect ==
    ASSUME NEW doc \in Registry, Consistent(doc), NEW found \in Disk, AllHeld(doc, found)
    PROVE  /\ Adopted(doc, found) \in Registry
           /\ Advances(doc, Adopted(doc, found))
           /\ Generated(Adopted(doc, found))
<1> DEFINE new == Adopted(doc, found)
<1>1. /\ new.root = doc.root /\ new.views = doc.views /\ new.epoch = doc.epoch
      /\ new.vault = doc.vault /\ new.revoked = doc.revoked
      /\ new.managed = TRUE /\ new.label = Observed(doc, found)
  BY DEF Adopted, Registry
<1>2. new \in Registry
  BY Parts, ObservedType DEF Adopted, Registry
<1> HIDE DEF new
<1>3. Advances(doc, new)
  BY <1>1, Parts DEF Advances
<1>4. Generated(new)
  BY <1>1 DEF Consistent, Generated
<1> QED
  BY <1>2, <1>3, <1>4 DEF new

\* Register changes no view.
LEMMA RegisteredEffect ==
    ASSUME NEW doc \in Registry, Consistent(doc), NEW found \in Disk, NEW r \in Root,
           found[r] # Missing
    PROVE  /\ Registered(doc, r, found) \in Registry
           /\ Advances(doc, Registered(doc, r, found))
           /\ Generated(Registered(doc, r, found))
<1> DEFINE new == Registered(doc, r, found)
<1>0. found[r] \in Manifest
  BY DEF Disk
<1>a. found[r].garden \in Garden /\ found[r].version \in Version
  BY <1>0 DEF Manifest
<1>1. /\ new.views = doc.views /\ new.epoch = doc.epoch /\ new.revoked = doc.revoked
      /\ new.vault = doc.vault /\ new.managed = doc.managed
      /\ new.root = [doc.root EXCEPT ![found[r].garden] = r]
      /\ new.label = [doc.label EXCEPT ![found[r].garden] = found[r].version]
  BY DEF Registered, Registry
<1>b. new.root \in [Garden -> Root \cup {Unbound}]
  BY <1>1, <1>a, Parts
<1>c. new.label \in [Garden -> Version \cup {Unbound}]
  BY <1>1, <1>a, Parts
<1>2. new \in Registry
  BY <1>1, <1>b, <1>c, Parts DEF Registered, Registry
<1> HIDE DEF new
<1>3. Advances(doc, new)
  BY <1>1, Parts DEF Advances
<1>4. Generated(new)
  BY <1>1 DEF Consistent, Generated
<1> QED
  BY <1>2, <1>3, <1>4 DEF new

\* next_view advances the chosen views.
LEMMA NextViewsEffect ==
    ASSUME NEW doc \in Registry, Generated(doc), NEW chosen \in SUBSET View,
           NEW members \in [chosen -> SUBSET Garden]
    PROVE  /\ NextViews(doc, chosen, members) \in Registry
           /\ Advances(doc, NextViews(doc, chosen, members))
           /\ Generated(NextViews(doc, chosen, members))
<1> DEFINE new == NextViews(doc, chosen, members)
           epochs == [v \in View |-> IF v \in chosen THEN doc.epoch[v] + 1 ELSE doc.epoch[v]]
           views == [v \in View |-> IF v \in chosen
                                    THEN [gardens |-> members[v], generation |-> doc.epoch[v] + 1]
                                    ELSE doc.views[v]]
<1>1. /\ new.epoch = epochs /\ new.views = views /\ new.revoked = doc.revoked
      /\ new.root = doc.root /\ new.label = doc.label
      /\ new.vault = doc.vault /\ new.managed = doc.managed
  BY DEF NextViews, Registry
<1>2. epochs \in [View -> Nat]
  BY Parts
<1>3. views \in [View -> Selection \cup {NoView}]
  <2>1. \A v \in View : doc.epoch[v] + 1 \in Nat /\ doc.views[v] \in Selection \cup {NoView}
    BY Parts
  <2> QED
    BY <2>1 DEF Selection
<1>4. \A v \in View :
        /\ doc.epoch[v] \in Nat
        /\ v \in chosen => epochs[v] = doc.epoch[v] + 1
        /\ v \notin chosen => epochs[v] = doc.epoch[v] /\ views[v] = doc.views[v]
  BY Parts
<1>5. new \in Registry
  <2> HIDE DEF epochs, views
  <2> QED
    BY <1>1, <1>2, <1>3, Parts DEF NextViews, Registry
<1> HIDE DEF new, epochs, views
<1>6. Advances(doc, new)
  BY <1>1, <1>4 DEF Advances
<1>7. Generated(new)
  BY <1>1, <1>4 DEF Generated
<1> QED
  BY <1>5, <1>6, <1>7 DEF new

\* Unregister advances the views that selected the garden.
LEMMA UnregisteredEffect ==
    ASSUME NEW doc \in Registry, Consistent(doc), NEW g \in Garden
    PROVE  /\ Unregistered(doc, g) \in Registry
           /\ Advances(doc, Unregistered(doc, g))
           /\ Generated(Unregistered(doc, g))
<1> DEFINE using == {v \in Named(doc) : g \in doc.views[v].gardens}
           bare == [doc EXCEPT !.root = [doc.root EXCEPT ![g] = Unbound],
                               !.label = [doc.label EXCEPT ![g] = Unbound]]
           members == [v \in using |-> doc.views[v].gardens \ {g}]
<1>1. Unregistered(doc, g) = NextViews(bare, using, members)
  BY DEF Unregistered
<1>2. /\ bare.views = doc.views /\ bare.epoch = doc.epoch /\ bare.revoked = doc.revoked
      /\ bare.root = [doc.root EXCEPT ![g] = Unbound]
      /\ bare.label = [doc.label EXCEPT ![g] = Unbound]
      /\ bare.vault = doc.vault /\ bare.managed = doc.managed
  BY DEF Registry
<1>3. bare \in Registry
  <2>1. bare.root \in [Garden -> Root \cup {Unbound}]
    BY <1>2, Parts
  <2>2. bare.label \in [Garden -> Version \cup {Unbound}]
    BY <1>2, Parts
  <2> QED
    BY <1>2, <2>1, <2>2, Parts DEF Registry
<1>4. members \in [using -> SUBSET Garden]
  BY ViewParts DEF Named
<1>5. using \in SUBSET View
  BY DEF Named
<1> HIDE DEF using, bare, members
<1>6. Generated(bare)
  BY <1>2 DEF Consistent, Generated
<1>7. /\ NextViews(bare, using, members) \in Registry
      /\ Advances(bare, NextViews(bare, using, members))
      /\ Generated(NextViews(bare, using, members))
  BY <1>3, <1>4, <1>5, <1>6, NextViewsEffect
<1>8. Advances(doc, NextViews(bare, using, members))
  BY <1>2, <1>7 DEF Advances
<1> QED
  BY <1>1, <1>7, <1>8

\* Set-view advances the view, or changes nothing.
LEMMA ViewSetEffect ==
    ASSUME NEW doc \in Registry, Consistent(doc), NEW v \in View, NEW gs \in SUBSET Garden
    PROVE  /\ ViewSet(doc, v, gs) \in Registry
           /\ Advances(doc, ViewSet(doc, v, gs))
           /\ Generated(ViewSet(doc, v, gs))
<1>1. Generated(doc)
  BY DEF Consistent, Generated
<1>2. CASE v \in Named(doc) /\ doc.views[v].gardens = gs
  BY <1>1, <1>2, AdvancesReflexive DEF ViewSet
<1>3. CASE ~ (v \in Named(doc) /\ doc.views[v].gardens = gs)
  <2> DEFINE members == [w \in {v} |-> gs]
  <2>1. members \in [{v} -> SUBSET Garden] /\ {v} \in SUBSET View
    OBVIOUS
  <2>2. ViewSet(doc, v, gs) = NextViews(doc, {v}, members)
    BY <1>3 DEF ViewSet
  <2> HIDE DEF members
  <2> QED
    BY <1>1, <2>1, <2>2, NextViewsEffect
<1> QED
  BY <1>2, <1>3

\* Remove-view spends the generation of the view.
LEMMA ViewRemovedEffect ==
    ASSUME NEW doc \in Registry, Consistent(doc), NEW v \in View
    PROVE  /\ ViewRemoved(doc, v) \in Registry
           /\ Advances(doc, ViewRemoved(doc, v))
           /\ Generated(ViewRemoved(doc, v))
<1>1. Generated(doc)
  BY DEF Consistent, Generated
<1>2. CASE v \notin Named(doc)
  BY <1>1, <1>2, AdvancesReflexive DEF ViewRemoved
<1>3. CASE v \in Named(doc)
  <2> DEFINE new == ViewRemoved(doc, v)
  <2>1. /\ new.views = [doc.views EXCEPT ![v] = NoView]
        /\ new.epoch = [doc.epoch EXCEPT ![v] = doc.epoch[v] + 1]
        /\ new.revoked = doc.revoked /\ new.root = doc.root /\ new.label = doc.label
        /\ new.vault = doc.vault /\ new.managed = doc.managed
    BY <1>3 DEF ViewRemoved, Registry
  <2>2. \A w \in View :
          /\ doc.epoch[w] \in Nat
          /\ new.epoch[w] = IF w = v THEN doc.epoch[w] + 1 ELSE doc.epoch[w]
          /\ new.views[w] = IF w = v THEN NoView ELSE doc.views[w]
    BY <2>1, Parts
  <2>3. new.views \in [View -> Selection \cup {NoView}] /\ new.epoch \in [View -> Nat]
    BY <2>1, Parts
  <2>4. new \in Registry
    BY <1>3, <2>1, <2>3, Parts DEF ViewRemoved, Registry
  <2> HIDE DEF new
  <2>5. Advances(doc, new)
    BY <2>1, <2>2 DEF Advances
  <2>6. Generated(new)
    BY <1>1, <2>2 DEF Generated
  <2> QED
    BY <2>4, <2>5, <2>6 DEF new
<1> QED
  BY <1>2, <1>3

\* Restore spends the generations of the document and of the snapshot.
LEMMA RestoredEffect ==
    ASSUME NEW doc \in Registry, Consistent(doc), NEW snap \in Registry, Consistent(snap),
           NEW found \in Disk, AllHeld(snap, found)
    PROVE  /\ Restored(doc, snap, found) \in Registry
           /\ Advances(doc, Restored(doc, snap, found))
           /\ Generated(Restored(doc, snap, found))
<1> DEFINE new == Restored(doc, snap, found)
           epochs == EpochsAbove(doc, snap)
           views == AtEpochs(snap.views, epochs)
<1>1. /\ new.managed = TRUE /\ new.label = Observed(snap, found)
      /\ new.epoch = epochs /\ new.views = views
      /\ new.revoked = snap.revoked \cup doc.revoked
      /\ new.root = snap.root /\ new.vault = snap.vault
  BY DEF Restored, RevokedByEither, Registry
<1>2. /\ epochs \in [View -> Nat]
      /\ \A v \in View :
            /\ doc.epoch[v] \in Nat /\ snap.epoch[v] \in Nat
            /\ epochs[v] = 0 => doc.epoch[v] = 0 /\ snap.epoch[v] = 0
            /\ epochs[v] # 0 => epochs[v] > doc.epoch[v]
            /\ doc.epoch[v] = 0 /\ snap.epoch[v] = 0 => epochs[v] = 0
  BY Parts DEF EpochsAbove
<1>3. /\ views \in [View -> Selection \cup {NoView}]
      /\ \A v \in View : views[v] # NoView => snap.views[v] # NoView
      /\ \A v \in View : snap.views[v] = NoView => views[v] = NoView
  BY <1>2, ViewParts DEF AtEpochs, Selection
<1>4. new \in Registry
  <2> HIDE DEF epochs, views
  <2>1. new = [snap EXCEPT !.managed = TRUE, !.label = Observed(snap, found),
                           !.epoch = epochs, !.views = views,
                           !.revoked = snap.revoked \cup doc.revoked]
    BY DEF Restored, RevokedByEither, epochs, views
  <2> HIDE DEF new
  <2> QED
    BY <1>2, <1>3, <2>1, Parts, ObservedType DEF Registry
<1> HIDE DEF new, epochs, views
<1>5. Advances(doc, new)
  <2>1. ASSUME NEW v \in View, doc.epoch[v] = new.epoch[v]
        PROVE  doc.views[v] = new.views[v]
    <3>1. doc.epoch[v] = 0 /\ snap.epoch[v] = 0
      BY <1>1, <1>2, <2>1
    <3>2. doc.views[v] = NoView /\ snap.views[v] = NoView
      BY <3>1 DEF Consistent
    <3> QED
      BY <1>1, <1>3, <3>2
  <2>2. \A v \in View : doc.epoch[v] <= new.epoch[v]
    BY <1>1, <1>2
  <2> QED
    BY <1>1, <2>1, <2>2 DEF Advances
<1>6. Generated(new)
  BY <1>1, <1>2, <1>3 DEF Consistent, Generated
<1> QED
  BY <1>4, <1>5, <1>6 DEF new

----------------------------------------------------------------------------
\* Every operation produces a consistent document that advances the one it is
\* applied to: no generation is used twice, no revocation is taken back.
THEOREM OperationsAdvance ==
    ASSUME NEW doc \in Registry, Consistent(doc), NEW S \in SUBSET Registry,
           \A d \in S : Consistent(d),
           NEW req \in Request(S), NEW found \in Disk, Buildable(doc, req, found)
    PROVE  /\ After(doc, req, found) \in Registry
           /\ Advances(doc, After(doc, req, found))
           /\ Consistent(After(doc, req, found))
<1> DEFINE new == After(doc, req, found)
<1> SUFFICES new \in Registry /\ Advances(doc, new) /\ Generated(new)
  BY ValidIsConsistent DEF Buildable
<1> USE DEF Buildable, Accepts
<1>1. CASE req \in InitRequest
  <2>1. req.op = "init"
    BY <1>1 DEF InitRequest
  <2> QED
    BY <2>1, AdoptedEffect DEF After
<1>2. CASE req \in RegisterRequest
  <2>1. req.op = "register" /\ req.root \in Root
    BY <1>2 DEF RegisterRequest
  <2> QED
    BY <2>1, RegisteredEffect DEF After
<1>3. CASE req \in UnregisterRequest
  <2>1. req.op = "unregister" /\ req.garden \in Garden
    BY <1>3 DEF UnregisterRequest
  <2> QED
    BY <2>1, UnregisteredEffect DEF After
<1>4. CASE req \in SetViewRequest
  <2>1. req.op = "set-view" /\ req.view \in View /\ req.gardens \in SUBSET Garden
    BY <1>4 DEF SetViewRequest
  <2> QED
    BY <2>1, ViewSetEffect DEF After
<1>5. CASE req \in RemoveViewRequest
  <2>1. req.op = "remove-view" /\ req.view \in View
    BY <1>5 DEF RemoveViewRequest
  <2> QED
    BY <2>1, ViewRemovedEffect DEF After
<1>6. CASE req \in RestoreRequest(S)
  <2>1. req.op = "restore" /\ req.snapshot \in S
    BY <1>6 DEF RestoreRequest
  <2> QED
    BY <2>1, RestoredEffect DEF After
<1> QED
  BY <1>1, <1>2, <1>3, <1>4, <1>5, <1>6 DEF Request

----------------------------------------------------------------------------
(***************************************************************************)
(* Sessions.                                                               *)
(***************************************************************************)

\* The generation a session pins has been reached, and while it is the present
\* one the view is what it was.
Reached(doc, p) ==
    /\ p.selection.generation <= doc.epoch[p.view]
    /\ p.selection.generation = doc.epoch[p.view] => doc.views[p.view] = p.selection

\* The parts of what a session pins.
LEMMA PinParts ==
    ASSUME NEW p \in Pin
    PROVE  p.view \in View /\ p.selection.generation \in Nat
                           /\ p.selection.gardens \subseteq Garden
BY DEF Pin, Selection

\* A document with the same gardens and views, and no fewer revocations, is as
\* consistent and further on.
LEMMA SameViews ==
    ASSUME NEW old \in Registry, NEW new \in Registry, Consistent(old),
           new.root = old.root, new.views = old.views, new.epoch = old.epoch,
           old.revoked \subseteq new.revoked
    PROVE  Consistent(new) /\ Advances(old, new)
<1>1. Consistent(new)
  BY DEF Consistent, Bound
<1>2. Advances(old, new)
  BY Parts DEF Advances
<1> QED
  BY <1>1, <1>2

\* A generation that has been reached stays reached.
LEMMA ReachedForward ==
    ASSUME NEW old \in Registry, NEW new \in Registry, Advances(old, new),
           NEW p \in Pin, Reached(old, p)
    PROVE  Reached(new, p)
<1>1. p.view \in View /\ p.selection.generation \in Nat
  BY PinParts
<1>2. old.epoch[p.view] \in Nat /\ new.epoch[p.view] \in Nat
  BY <1>1, Parts
<1> QED
  BY <1>1, <1>2 DEF Reached, Advances

\* A session that is not valid stays so when the document advances: it was
\* revoked, or its generation is past.
LEMMA StaleForward ==
    ASSUME NEW old \in Registry, Consistent(old), NEW new \in Registry, Advances(old, new),
           NEW s \in Session, NEW p \in Pin, Reached(old, p), ~ Authorized(old, s, p)
    PROVE  ~ Authorized(new, s, p)
<1>1. p.view \in View /\ p.selection.generation \in Nat /\ p.selection \in Selection
  BY PinParts DEF Pin
<1>2. old.epoch[p.view] \in Nat /\ new.epoch[p.view] \in Nat
  BY <1>1, Parts
<1>3. s \in old.revoked \/ p.selection.generation # old.epoch[p.view]
  <2> SUFFICES ASSUME s \notin old.revoked, p.selection.generation = old.epoch[p.view]
               PROVE  FALSE
    OBVIOUS
  <2>1. old.views[p.view] = p.selection /\ p.selection # NoView
    BY <1>1, RegistryAssumption DEF Reached
  <2>2. p.selection.gardens \subseteq Bound(old)
    BY <1>1, <2>1 DEF Consistent
  <2> QED
    BY <2>1, <2>2 DEF Authorized
<1>4. CASE s \in old.revoked
  BY <1>4 DEF Advances, Authorized
<1>5. CASE p.selection.generation # old.epoch[p.view]
  <2>1. p.selection.generation < new.epoch[p.view]
    BY <1>1, <1>2, <1>5 DEF Reached, Advances
  <2> QED
    BY <2>1, <1>1, <1>2 DEF Authorized
<1> QED
  BY <1>3, <1>4, <1>5

----------------------------------------------------------------------------
(***************************************************************************)
(* What keeps a document editable.                                         *)
(***************************************************************************)

\* The budgets of validate_registry.
WithinBudgets(doc) ==
    /\ Cardinality(Bound(doc)) <= MaxGardens
    /\ Cardinality(Named(doc)) <= MaxViews
    /\ Cardinality(Marked(doc)) <= MaxViewEpochs

\* A managed document is valid; one written by hand is within the budgets.
Acceptable(doc) == WithinBudgets(doc) /\ (doc.managed => Valid(doc))

\* A part of a set of gardens or of views is not larger than the set.
LEMMA FewerGardens ==
    ASSUME NEW S \in SUBSET Garden, NEW T \in SUBSET S
    PROVE  Cardinality(T) \in Nat /\ Cardinality(S) \in Nat /\ Cardinality(T) <= Cardinality(S)
<1>1. IsFiniteSet(S)
  BY RegistryAssumption, FS_Subset
<1>2. IsFiniteSet(T) /\ Cardinality(T) <= Cardinality(S)
  BY <1>1, FS_Subset
<1> QED
  BY <1>1, <1>2, FS_CardinalityType

\* The same for views.
LEMMA FewerViews ==
    ASSUME NEW S \in SUBSET View, NEW T \in SUBSET S
    PROVE  Cardinality(T) \in Nat /\ Cardinality(S) \in Nat /\ Cardinality(T) <= Cardinality(S)
<1>1. IsFiniteSet(S)
  BY RegistryAssumption, FS_Subset
<1>2. IsFiniteSet(T) /\ Cardinality(T) <= Cardinality(S)
  BY <1>1, FS_Subset
<1> QED
  BY <1>1, <1>2, FS_CardinalityType

\* The vault and the revocations play no part in it.
LEMMA SameAcceptable ==
    ASSUME NEW old, NEW new, Acceptable(old), new.managed = old.managed, new.root = old.root,
           new.label = old.label, new.views = old.views, new.epoch = old.epoch
    PROVE  Acceptable(new)
<1>1. Bound(new) = Bound(old) /\ Named(new) = Named(old) /\ Marked(new) = Marked(old)
  BY DEF Bound, Named, Marked
<1> QED
  BY <1>1 DEF Acceptable, WithinBudgets, Valid

\* The empty bindings are sound.
LEMMA EmptyIsAcceptable ==
    Acceptable(EmptyBindings)
<1>1. Bound(EmptyBindings) = {} /\ Named(EmptyBindings) = {} /\ Marked(EmptyBindings) = {}
  BY DEF Bound, Named, Marked, EmptyBindings, NoSelections, NoEpochs
<1>2. ~ EmptyBindings.managed
  BY DEF EmptyBindings
<1> QED
  BY <1>1, <1>2, FS_EmptySet, RegistryAssumption DEF Acceptable, WithinBudgets

\* Unregistering keeps a valid document valid, whatever selects the garden.
LEMMA UnregisteredValid ==
    ASSUME NEW doc \in Registry, Consistent(doc), Valid(doc), NEW g \in Garden
    PROVE  Valid(Unregistered(doc, g))
<1> DEFINE using == {v \in Named(doc) : g \in doc.views[v].gardens}
           new == Unregistered(doc, g)
<1>1. /\ new.managed = doc.managed
      /\ new.root = [doc.root EXCEPT ![g] = Unbound]
      /\ new.label = [doc.label EXCEPT ![g] = Unbound]
      /\ new.epoch = [v \in View |-> IF v \in using THEN doc.epoch[v] + 1 ELSE doc.epoch[v]]
      /\ new.views = [v \in View |->
             IF v \in using
             THEN [gardens |-> [w \in using |-> doc.views[w].gardens \ {g}][v],
                   generation |-> doc.epoch[v] + 1]
             ELSE doc.views[v]]
  BY DEF Unregistered, NextViews, Registry
<1> HIDE DEF new, using
<1>2. Bound(new) = Bound(doc) \ {g}
  BY <1>1, Parts DEF Bound
<1>3. ASSUME NEW v \in using
      PROVE  new.views[v] = [gardens |-> doc.views[v].gardens \ {g}, generation |-> doc.epoch[v] + 1]
  BY <1>1, <1>3 DEF using, Named
<1>4. ASSUME NEW v \in using
      PROVE  new.views[v] # NoView
  <2>1. v \in View /\ doc.views[v] # NoView
    BY DEF using, Named
  <2>2. doc.views[v].gardens \ {g} \in SUBSET Garden
    BY <2>1, ViewParts
  <2>3. doc.epoch[v] + 1 \in Nat
    BY <2>1, Parts
  <2>4. new.views[v] \in Selection
    <3>1. [gardens |-> doc.views[v].gardens \ {g}, generation |-> doc.epoch[v] + 1] \in Selection
      BY <2>2, <2>3 DEF Selection
    <3> QED
      BY <1>3, <3>1
  <2> QED
    BY <2>4, RegistryAssumption
<1>5. Named(new) = Named(doc)
  BY <1>1, <1>4 DEF Named, using
<1>6. Marked(new) = Marked(doc)
  <2>1. \A v \in View : doc.epoch[v] \in Nat
    BY Parts
  <2>2. \A v \in using : doc.epoch[v] > 0
    BY DEF using, Named, Consistent
  <2>3. \A v \in View : new.epoch[v] > 0 <=> doc.epoch[v] > 0
    BY <1>1, <2>1, <2>2
  <2> QED
    BY <2>3 DEF Marked
<1>7. \A h \in Garden : new.root[h] = Unbound <=> new.label[h] = Unbound
  BY <1>1, Parts DEF Valid
<1>8. \A h, k \in Bound(new) : new.root[h] = new.root[k] => h = k
  BY <1>1, <1>2, Parts DEF Valid, Bound
<1>9. ASSUME NEW v \in Named(new)
      PROVE  /\ new.views[v].gardens \subseteq Bound(new)
             /\ new.views[v].generation = new.epoch[v]
  <2>0. v \in View /\ v \in Named(doc) /\ doc.views[v].gardens \subseteq Bound(doc)
    BY <1>5, <1>9 DEF Valid, Named
  <2>1. CASE v \in using
    BY <1>1, <1>2, <1>3, <2>0, <2>1
  <2>2. CASE v \notin using
    <3>1. g \notin doc.views[v].gardens
      BY <2>0, <2>2 DEF using
    <3> QED
      BY <1>1, <1>2, <2>0, <2>2, <3>1 DEF Valid
  <2> QED
    BY <2>1, <2>2
<1>10. Cardinality(Bound(new)) <= MaxGardens
  <2>1. /\ Cardinality(Bound(new)) \in Nat /\ Cardinality(Bound(doc)) \in Nat
        /\ Cardinality(Bound(new)) <= Cardinality(Bound(doc))
    BY <1>2, FewerGardens DEF Bound
  <2>2. Cardinality(Bound(doc)) <= MaxGardens /\ MaxGardens \in Nat
    BY RegistryAssumption DEF Valid
  <2> QED
    BY <2>1, <2>2
<1>11. new.managed /\ Cardinality(Named(new)) <= MaxViews /\ Cardinality(Marked(new)) <= MaxViewEpochs
  BY <1>1, <1>5, <1>6 DEF Valid
<1>12. Valid(new)
  BY <1>7, <1>8, <1>9, <1>10, <1>11 DEF Valid
<1> QED
  BY <1>12 DEF new

\* Restoring a sound document gives a valid one, when each folder it binds holds
\* its garden and the marks it has are marks of the present one.
LEMMA RestoredValid ==
    ASSUME NEW doc \in Registry, WithinBudgets(doc),
           NEW snap \in Registry, Consistent(snap), WithinBudgets(snap),
           Marked(snap) \subseteq Marked(doc), NEW found \in Disk, AllHeld(snap, found)
    PROVE  Valid(Restored(doc, snap, found))
<1> DEFINE new == Restored(doc, snap, found)
           epochs == EpochsAbove(doc, snap)
<1>1. /\ new.managed = TRUE /\ new.root = snap.root
      /\ new.label = Observed(snap, found) /\ new.epoch = epochs
      /\ new.views = AtEpochs(snap.views, epochs)
  BY DEF Restored, Registry
<1> HIDE DEF new
<1>2. Bound(new) = Bound(snap)
  BY <1>1 DEF Bound
<1>3. \A v \in View : doc.epoch[v] \in Nat /\ snap.epoch[v] \in Nat
  BY Parts
<1>4. \A v \in View : epochs[v] \in Nat /\ (epochs[v] > 0 <=> doc.epoch[v] > 0 \/ snap.epoch[v] > 0)
  BY <1>3 DEF EpochsAbove
<1> HIDE DEF epochs
<1>5. Marked(new) = Marked(doc)
  BY <1>1, <1>3, <1>4 DEF Marked
<1>6. ASSUME NEW v \in View, snap.views[v] # NoView
      PROVE  /\ new.views[v] = [gardens |-> snap.views[v].gardens, generation |-> epochs[v]]
             /\ new.views[v] # NoView
  <2>1. new.views[v] = [gardens |-> snap.views[v].gardens, generation |-> epochs[v]]
    BY <1>1, <1>6 DEF AtEpochs
  <2>2. new.views[v] \in Selection
    BY <2>1, <1>4, <1>6, ViewParts DEF Selection
  <2> QED
    BY <2>1, <2>2, RegistryAssumption
<1>7. Named(new) = Named(snap)
  BY <1>1, <1>6 DEF Named, AtEpochs
<1>8. ASSUME NEW g \in Garden
      PROVE  new.root[g] = Unbound <=> new.label[g] = Unbound
  <2>1. CASE g \in Bound(snap)
    <3>1. snap.root[g] \in Root /\ snap.root[g] # Unbound
      BY <2>1, Parts DEF Bound
    <3>2. found[snap.root[g]] \in Manifest
      BY <2>1, <3>1 DEF AllHeld, Holds, Disk
    <3>3. new.label[g] = found[snap.root[g]].version
      BY <1>1, <2>1 DEF Observed
    <3>4. new.label[g] # Unbound
      BY <3>2, <3>3, RegistryAssumption DEF Manifest
    <3> QED
      BY <1>1, <3>1, <3>4
  <2>2. CASE g \notin Bound(snap)
    BY <1>1, <2>2 DEF Observed, Bound
  <2> QED
    BY <2>1, <2>2
<1>9. \A g, h \in Bound(new) : new.root[g] = new.root[h] => g = h
  BY <1>1, <1>2 DEF AllHeld, Holds
<1>10. ASSUME NEW v \in Named(new)
       PROVE  /\ new.views[v].gardens \subseteq Bound(new)
              /\ new.views[v].generation = new.epoch[v]
  <2>1. v \in View /\ snap.views[v] # NoView
    BY <1>7, <1>10 DEF Named
  <2>2. new.views[v] = [gardens |-> snap.views[v].gardens, generation |-> epochs[v]]
    BY <1>6, <2>1
  <2>3. snap.views[v].gardens \subseteq Bound(snap)
    BY <2>1 DEF Consistent
  <2> QED
    BY <1>1, <1>2, <2>2, <2>3
<1>11. Valid(new)
  BY <1>1, <1>2, <1>5, <1>7, <1>8, <1>9, <1>10 DEF Valid, WithinBudgets
<1> QED
  BY <1>11 DEF new

----------------------------------------------------------------------------
(***************************************************************************)
(* The ledger by itself.  It has the registry and the pins, and two        *)
(* variables of its own.                                                   *)
(***************************************************************************)
VARIABLES read, kept

Promise == INSTANCE RegistryLedger

LedgerTypeOK ==
    /\ registry \in Registry \cup {Absent}
    /\ read \subseteq Registry \cup {Absent}
    /\ kept \subseteq Registry
    /\ pin \in [Session -> Pin \cup {NoView}]

\* The owner's own bindings have neither views nor high-water marks.
Plain == \A d \in Handwritten : d \in Registry /\ d.views = NoSelections /\ d.epoch = NoEpochs

\* Every document that is in place, kept or planned for is consistent.
Sound == \A d \in ({registry} \cup read \cup kept) \ {Absent} : Consistent(d)

Pinned == \A s \in Session : pin[s] # NoView => registry # Absent /\ Reached(registry, pin[s])

LedgerInv == LedgerTypeOK /\ Sound /\ Pinned

\* The document only moves forward, and a session's pin stays.
Forward ==
    /\ registry # Absent => registry' # Absent /\ Advances(registry, registry')
    /\ \A s \in Session : pin[s] # NoView => pin'[s] = pin[s]

----------------------------------------------------------------------------
\* The ledger speaks of the same documents and operations.
LEMMA PromisedOperations ==
    ASSUME NEW doc, NEW req, NEW d
    PROVE  /\ Promise!Document(doc) = Document(doc)
           /\ Promise!After(doc, req, d) = After(doc, req, d)
           /\ Promise!Buildable(doc, req, d) <=> Buildable(doc, req, d)
<1>1. Promise!Document(doc) = Document(doc)
  BY DEF Document, Promise!Document, EmptyBindings, Promise!EmptyBindings, NoSelections, Promise!NoSelections, NoEpochs, Promise!NoEpochs
<1>2. ASSUME NEW e
      PROVE  Promise!Bound(e) = Bound(e)
  BY DEF Bound, Promise!Bound
<1>3. Promise!After(doc, req, d) = After(doc, req, d)
  BY DEF After, Promise!After, Adopted, Promise!Adopted, Registered, Promise!Registered, Unregistered, Promise!Unregistered, ViewSet, Promise!ViewSet, ViewRemoved, Promise!ViewRemoved, Restored, Promise!Restored, NextViews, Promise!NextViews, Observed, Promise!Observed, EpochsAbove, Promise!EpochsAbove, AtEpochs, Promise!AtEpochs, RevokedByEither, Promise!RevokedByEither, Bound, Promise!Bound, Named, Promise!Named
<1>4. ASSUME NEW e
      PROVE  Promise!Valid(e) <=> Valid(e)
  <2>1. ASSUME NEW S
        PROVE  Promise!Cardinality(S) = Cardinality(S)
    BY DEF Cardinality, Promise!Cardinality
  <2> QED
    BY <1>2, <2>1 DEF Valid, Promise!Valid, Named, Promise!Named, Marked, Promise!Marked
<1>5. ASSUME NEW e
      PROVE  Promise!AllHeld(e, d) <=> AllHeld(e, d)
  BY <1>2 DEF AllHeld, Promise!AllHeld, Holds, Promise!Holds
<1>6. Promise!Accepts(doc, req, d) <=> Accepts(doc, req, d)
  BY <1>2, <1>4, <1>5 DEF Accepts, Promise!Accepts
<1> QED
  BY <1>1, <1>3, <1>4, <1>6 DEF Buildable, Promise!Buildable

LEMMA PromisedSets ==
    /\ Promise!Disk = Disk
    /\ \A S : Promise!Request(S) = Request(S)
    /\ \A doc, s, p : Promise!Authorized(doc, s, p) <=> Authorized(doc, s, p)
<1>1. Promise!Disk = Disk
  BY DEF Disk, Promise!Disk, Manifest, Promise!Manifest
<1>2. ASSUME NEW S
      PROVE  Promise!Request(S) = Request(S)
  BY DEF Request, Promise!Request, InitRequest, Promise!InitRequest, RegisterRequest,
         Promise!RegisterRequest, UnregisterRequest, Promise!UnregisterRequest,
         SetViewRequest, Promise!SetViewRequest, RemoveViewRequest,
         Promise!RemoveViewRequest, RestoreRequest, Promise!RestoreRequest
<1>3. ASSUME NEW doc, NEW s, NEW p
      PROVE  Promise!Authorized(doc, s, p) <=> Authorized(doc, s, p)
  BY DEF Authorized, Promise!Authorized, Bound, Promise!Bound
<1> QED
  BY <1>1, <1>2, <1>3

----------------------------------------------------------------------------
\* The first state.
LEMMA LedgerStarts ==
    ASSUME Plain, Promise!Init
    PROVE  LedgerInv
<1>1. LedgerTypeOK
  BY DEF Plain, Promise!Init, LedgerTypeOK, NoSelections
<1>2. Sound
  BY DEF Plain, Promise!Init, Sound, Consistent, NoSelections
<1>3. Pinned
  BY DEF Promise!Init, Pinned
<1> QED
  BY <1>1, <1>2, <1>3 DEF LedgerInv

\* An operation of a plan.
LEMMA ChangeStep ==
    ASSUME LedgerInv, Promise!Change
    PROVE  LedgerInv' /\ Forward
<1> USE DEF LedgerInv
<1>1. PICK req \in Request(kept), found \in Disk :
          /\ Buildable(Document(registry), req, found)
          /\ registry' = After(Document(registry), req, found)
  BY PromisedOperations, PromisedSets DEF Promise!Change
<1>2. Document(registry) \in Registry /\ Consistent(Document(registry))
  BY EmptyIsDocument DEF LedgerTypeOK, Sound, Document
<1>3. kept \in SUBSET Registry /\ \A d \in kept : Consistent(d)
  BY RegistryAssumption DEF LedgerTypeOK, Sound
<1>4. /\ registry' \in Registry /\ Consistent(registry')
      /\ Advances(Document(registry), registry')
  BY <1>1, <1>2, <1>3, OperationsAdvance
<1>5. registry' # Absent /\ UNCHANGED <<read, kept, pin>>
  BY <1>4, RegistryAssumption DEF Promise!Change
<1>6. Forward
  BY <1>4, <1>5 DEF Forward, Document
<1>7. LedgerTypeOK'
  BY <1>4, <1>5 DEF LedgerTypeOK
<1>8. Sound'
  BY <1>4, <1>5 DEF Sound
<1>9. Pinned'
  <2>1. CASE registry = Absent
    BY <2>1, <1>5 DEF Pinned
  <2>2. CASE registry # Absent
    BY <2>2, <1>2, <1>4, <1>5, ReachedForward DEF Pinned, LedgerTypeOK, Document
  <2> QED
    BY <2>1, <2>2
<1> QED
  BY <1>6, <1>7, <1>8, <1>9

\* A step of the owner's or a relocation's, which leaves views alone.
LEMMA QuietStep ==
    ASSUME LedgerInv, registry \in Registry, registry' \in Registry,
           registry'.root = registry.root, registry'.views = registry.views,
           registry'.epoch = registry.epoch, registry.revoked \subseteq registry'.revoked,
           UNCHANGED <<read, kept, pin>>
    PROVE  LedgerInv' /\ Forward
<1> USE DEF LedgerInv
<1>1. registry # Absent /\ registry' # Absent
  BY RegistryAssumption
<1>2. Consistent(registry') /\ Advances(registry, registry')
  <2>1. Consistent(registry)
    BY <1>1 DEF Sound
  <2> QED
    BY <2>1, SameViews
<1>3. Forward
  BY <1>1, <1>2 DEF Forward
<1>4. LedgerTypeOK'
  BY DEF LedgerTypeOK
<1>5. Sound'
  BY <1>2 DEF Sound
<1>6. Pinned'
  BY <1>1, <1>2, ReachedForward DEF Pinned, LedgerTypeOK
<1> QED
  BY <1>3, <1>4, <1>5, <1>6

\* A session pins a view at its present generation.
LEMMA MakeSessionStep ==
    ASSUME LedgerInv, Promise!MakeSession
    PROVE  LedgerInv' /\ Forward
<1> USE DEF LedgerInv
<1>1. PICK s \in Session, v \in View :
          /\ pin[s] = NoView /\ registry.views[v] # NoView
          /\ pin' = [pin EXCEPT ![s] = [view |-> v, selection |-> registry.views[v]]]
  BY DEF Promise!MakeSession
<1>2. registry \in Registry /\ registry # Absent /\ UNCHANGED <<registry, read, kept>>
  BY DEF Promise!MakeSession, LedgerTypeOK
<1>3. registry.views[v] \in Selection
  BY <1>1, <1>2, Parts
<1>4. registry.views[v].generation = registry.epoch[v] /\ registry.epoch[v] \in Nat
  BY <1>1, <1>2, Parts DEF Sound, Consistent
<1>5. LedgerTypeOK'
  BY <1>1, <1>2, <1>3 DEF LedgerTypeOK, Pin
<1>6. Sound'
  BY <1>2 DEF Sound
<1>7. Forward
  <2>1. \A t \in Session : pin[t] # NoView => pin'[t] = pin[t]
    BY <1>1 DEF LedgerTypeOK
  <2> QED
    BY <2>1, <1>2, AdvancesReflexive DEF Forward
<1>8. Pinned'
  <2>1. \A t \in Session : pin'[t] = IF t = s THEN [view |-> v, selection |-> registry.views[v]]
                                             ELSE pin[t]
    BY <1>1 DEF LedgerTypeOK
  <2>2. Reached(registry, [view |-> v, selection |-> registry.views[v]])
    BY <1>4 DEF Reached
  <2> QED
    BY <2>1, <2>2, <1>2 DEF Pinned
<1> QED
  BY <1>5, <1>6, <1>7, <1>8

\* Every step.
LEMMA LedgerStep ==
    ASSUME LedgerInv, [Promise!Next]_(Promise!vars)
    PROVE  LedgerInv' /\ Forward
<1>0. LedgerTypeOK /\ Sound /\ Pinned
  BY DEF LedgerInv
<1>s. ASSUME registry' = registry, pin' = pin
      PROVE  Forward
  <2>1. registry # Absent => registry \in Registry
    BY <1>0 DEF LedgerTypeOK
  <2> QED
    BY <1>s, <2>1, AdvancesReflexive DEF Forward
<1>1. CASE Promise!Read
  <2>1. PICK still \in SUBSET read : read' = still \cup {registry}
    BY <1>1 DEF Promise!Read
  <2>2. UNCHANGED <<registry, kept, pin>>
    BY <1>1 DEF Promise!Read
  <2>3. LedgerTypeOK' /\ Sound' /\ Pinned'
    BY <2>1, <2>2, <1>0 DEF LedgerTypeOK, Sound, Pinned
  <2> QED
    BY <2>2, <2>3, <1>s DEF LedgerInv
<1>2. CASE Promise!Keep
  <2>1. PICK d \in read \ {Absent} : kept' = kept \cup {d}
    BY <1>2 DEF Promise!Keep
  <2>2. UNCHANGED <<registry, read, pin>>
    BY <1>2 DEF Promise!Keep
  <2>3. d \in Registry
    BY <2>1, <1>0 DEF LedgerTypeOK
  <2>4. LedgerTypeOK' /\ Sound' /\ Pinned'
    BY <2>1, <2>2, <2>3, <1>0 DEF LedgerTypeOK, Sound, Pinned
  <2> QED
    BY <2>2, <2>4, <1>s DEF LedgerInv
<1>3. CASE Promise!Change
  BY <1>3, ChangeStep
<1>4. CASE Promise!Revoke
  <2>1. PICK s \in Session :
            registry' = [registry EXCEPT !.revoked = registry.revoked \cup {s}]
    BY <1>4 DEF Promise!Revoke
  <2>2. registry \in Registry /\ UNCHANGED <<read, kept, pin>>
    BY <1>4, <1>0 DEF Promise!Revoke, LedgerTypeOK
  <2>3. /\ registry'.root = registry.root /\ registry'.views = registry.views
        /\ registry'.epoch = registry.epoch
        /\ registry'.revoked = registry.revoked \cup {s}
        /\ registry' \in Registry
    BY <2>1, <2>2 DEF Registry
  <2> QED
    BY <2>2, <2>3, QuietStep
<1>5. CASE Promise!Relocate
  <2>1. PICK q \in Place : registry' = [registry EXCEPT !.vault = q]
    BY <1>5 DEF Promise!Relocate
  <2>2. registry \in Registry /\ UNCHANGED <<read, kept, pin>>
    BY <1>5, <1>0 DEF Promise!Relocate, LedgerTypeOK
  <2>3. /\ registry'.root = registry.root /\ registry'.views = registry.views
        /\ registry'.epoch = registry.epoch /\ registry'.revoked = registry.revoked
        /\ registry' \in Registry
    BY <2>1, <2>2 DEF Registry
  <2> QED
    BY <2>2, <2>3, QuietStep
<1>6. CASE Promise!MakeSession
  BY <1>6, MakeSessionStep
<1>7. CASE UNCHANGED Promise!vars
  BY <1>7, <1>0, <1>s DEF Promise!vars, LedgerTypeOK, Sound, Pinned, LedgerInv
<1> QED
  BY <1>1, <1>2, <1>3, <1>4, <1>5, <1>6, <1>7 DEF Promise!Next

----------------------------------------------------------------------------
\* A session that is not valid stays so when the document moves forward.
LEMMA StaysStale ==
    ASSUME LedgerInv, LedgerInv', Forward, NEW s \in Session, pin[s] # NoView, ~ Promise!Live(s)
    PROVE  ~ Promise!Live(s)'
<1>1. pin[s] \in Pin
  BY DEF LedgerInv, LedgerTypeOK
<1>2. /\ registry # Absent /\ registry \in Registry /\ Consistent(registry)
      /\ registry' # Absent /\ registry' \in Registry
      /\ Advances(registry, registry') /\ pin'[s] = pin[s]
      /\ Reached(registry, pin[s])
  BY DEF LedgerInv, Pinned, Sound, Forward, LedgerTypeOK
<1>3. ~ Authorized(registry, s, pin[s])
  BY <1>2, PromisedSets DEF Promise!Live
<1>4. ~ Authorized(registry', s, pin[s])
  BY <1>1, <1>2, <1>3, StaleForward
<1> QED
  BY <1>2, <1>4, PromisedSets DEF Promise!Live

----------------------------------------------------------------------------
\* The invariant.
THEOREM LedgerInvariant ==
    ASSUME Plain
    PROVE  Promise!Spec => []LedgerInv
<1>1. Promise!Init => LedgerInv
  BY LedgerStarts
<1>2. LedgerInv /\ [Promise!Next]_(Promise!vars) => LedgerInv'
  BY LedgerStep
<1> QED
  BY <1>1, <1>2, PTL DEF Promise!Spec

\* A session that has stopped being valid never becomes valid again.
THEOREM SessionsStayStale ==
    ASSUME Plain
    PROVE  Promise!Spec => Promise!NoRevival
<1>1. Promise!Spec => []LedgerInv
  BY LedgerInvariant
<1>2. LedgerInv /\ LedgerInv' /\ [Promise!Next]_(Promise!vars)
        => [\A s \in Session : pin[s] # NoView /\ ~ Promise!Live(s) => ~ Promise!Live(s)']_(Promise!vars)
  BY LedgerStep, StaysStale
<1> QED
  BY <1>1, <1>2, PTL DEF Promise!Spec, Promise!NoRevival

\* What is revoked stays revoked.
THEOREM RevocationsStay ==
    ASSUME Plain
    PROVE  Promise!Spec => Promise!RevocationsKept
<1>1. Promise!Spec => []LedgerInv
  BY LedgerInvariant
<1>2. LedgerInv /\ [Promise!Next]_(Promise!vars)
        => [registry # Absent =>
              registry' # Absent /\ registry.revoked \subseteq registry'.revoked]_(Promise!vars)
  BY LedgerStep DEF Forward, Advances
<1> QED
  BY <1>1, <1>2, PTL DEF Promise!Spec, Promise!RevocationsKept

----------------------------------------------------------------------------
(***************************************************************************)
(* The commands.                                                           *)
(***************************************************************************)

\* Documents that are in place, kept, planned for or read agree with their marks.
Documents ==
    /\ registry # Absent => Consistent(registry)
    /\ \A d \in history : Consistent(d)
    /\ \A p \in Clerk : plan[p] # NoPlan => Consistent(Document(plan[p].before))
    /\ \A m \in Mover : loaded[m] # Absent => Consistent(loaded[m])

\* The plan is an operation on the document it was made for, as some disk was.
Made(pl) ==
    \E d \in Disk :
        /\ Buildable(Document(pl.before), pl.request, d)
        /\ pl.after = After(Document(pl.before), pl.request, d)

PlansMade ==
    \A p \in Clerk : plan[p] # NoPlan => plan[p].request \in Request(history) /\ Made(plan[p])

\* Only the holder of the lease is beyond the first check, and it has a plan.
Holding ==
    \A p \in Clerk :
        /\ pc[p] # "idle" => plan[p] # NoPlan
        /\ pc[p] \notin {"idle", "admitted"} => lease = p

Active(m) == pc[m] \in {"planned", "verified"}

\* A relocation has read a document.
Loaded == \A m \in Mover : Active(m) => loaded[m] # Absent

\* The lease of a vault folder keeps its relocations apart.
VaultLease ==
    \A m, n \in Mover :
        pc[m] = "verified" /\ pc[n] = "verified" /\ loaded[m].vault = loaded[n].vault => m = n

\* An apply and a relocation are not in the last instant at once, unless they may.
Apart == ~ Overlap => ~ (Applying /\ Moving)

\* The document that is about to be replaced has been kept.
KeptFirst ==
    \A p \in Clerk :
        /\ pc[p] = "copying" => plan[p].before # Absent
        /\ pc[p] \in {"preserved", "staged", "final"} =>
               plan[p].before \in history \cup {Absent}

\* In the last instant before a write the file is the one that was compared.
Fresh ==
    ~ Overlap /\ QuietOwner =>
        /\ \A p \in Clerk : pc[p] = "final" => registry = plan[p].before
        /\ \A m \in Mover : pc[m] = "verified" => registry = loaded[m]

WInv ==
    /\ TypeOK /\ Documents /\ PlansMade /\ Holding
    /\ Loaded /\ VaultLease /\ Apart /\ KeptFirst /\ Fresh

----------------------------------------------------------------------------
\* The parts of a plan.
LEMMA PlanParts ==
    ASSUME NEW pl \in Plan
    PROVE  /\ pl.request \in Request(Registry)
           /\ pl.before \in Registry \cup {Absent}
           /\ pl.after \in Registry
BY DEF Plan

\* A missing file counts as the empty bindings.
LEMMA DocumentType ==
    ASSUME NEW f \in Registry \cup {Absent}, f # Absent => Consistent(f)
    PROVE  Document(f) \in Registry /\ Consistent(Document(f))
BY EmptyIsDocument DEF Document

\* More snapshots, more requests.
LEMMA MoreRequests ==
    ASSUME NEW S, NEW T, S \subseteq T, NEW req \in Request(S)
    PROVE  req \in Request(T)
BY DEF Request, RestoreRequest

\* What a plan records of the manifests is a function on folders.
LEMMA InputsType ==
    ASSUME NEW doc \in Registry, NEW req \in Request(Registry), NEW d \in Disk
    PROVE  Inputs(doc, req, d) \in UNION {[R -> Manifest \cup {Missing}] : R \in SUBSET Root}
<1> DEFINE roots == CASE req.op = "init"     -> {doc.root[g] : g \in Bound(doc)}
                      [] req.op = "register" -> {req.root}
                      [] req.op = "restore"  ->
                             {req.snapshot.root[g] : g \in Bound(req.snapshot)}
                      [] OTHER -> {}
<1>1. ASSUME NEW e \in Registry
      PROVE  {e.root[g] : g \in Bound(e)} \subseteq Root
  BY <1>1, Parts DEF Bound
<1>6. roots \subseteq Root
  <2>1. CASE req \in InitRequest
    <3>1. roots = {doc.root[g] : g \in Bound(doc)}
      BY <2>1 DEF InitRequest
    <3> QED
      BY <3>1, <1>1
  <2>2. CASE req \in RegisterRequest
    <3>1. roots = {req.root} /\ req.root \in Root
      BY <2>2 DEF RegisterRequest
    <3> QED
      BY <3>1
  <2>3. CASE req \in RestoreRequest(Registry)
    <3>1. /\ roots = {req.snapshot.root[g] : g \in Bound(req.snapshot)}
          /\ req.snapshot \in Registry
      BY <2>3 DEF RestoreRequest
    <3> QED
      BY <3>1, <1>1
  <2>4. CASE req \in UnregisterRequest \cup SetViewRequest \cup RemoveViewRequest
    BY <2>4 DEF UnregisterRequest, SetViewRequest, RemoveViewRequest
  <2> QED
    BY <2>1, <2>2, <2>3, <2>4 DEF Request
<1>7. Inputs(doc, req, d) = [r \in roots |-> d[r]]
  BY DEF Inputs
<1> HIDE DEF roots
<1>8. [r \in roots |-> d[r]] \in [roots -> Manifest \cup {Missing}]
  BY <1>6 DEF Disk
<1> QED
  BY <1>6, <1>7, <1>8

\* A plan that can be built has the type of a plan and is Made.
LEMMA PlanForType ==
    ASSUME WInv, NEW req \in Request(history), CanBuild(registry, req)
    PROVE  PlanFor(registry, req) \in Plan /\ Made(PlanFor(registry, req))
<1> DEFINE doc == Document(registry)
           after == After(doc, req, disk)
           inputs == Inputs(doc, req, disk)
           new == PlanFor(registry, req)
<1>1. doc \in Registry /\ Consistent(doc) /\ disk \in Disk
  BY DocumentType DEF WInv, TypeOK, Documents
<1>2. history \in SUBSET Registry /\ \A d \in history : Consistent(d)
  BY DEF WInv, TypeOK, Documents
<1>3. Buildable(doc, req, disk)
  BY DEF CanBuild
<1>4. after \in Registry
  BY <1>1, <1>2, <1>3, OperationsAdvance
<1>5. req \in Request(Registry)
  BY <1>2, MoreRequests
<1>6. inputs \in UNION {[R -> Manifest \cup {Missing}] : R \in SUBSET Root}
  BY <1>1, <1>5, InputsType
<1>7. new = [request |-> req, before |-> registry, after |-> after, inputs |-> inputs]
  BY DEF PlanFor
<1>8. registry \in Registry \cup {Absent}
  BY DEF WInv, TypeOK
<1> HIDE DEF after, inputs, new
<1>9. new \in Plan
  BY <1>4, <1>5, <1>6, <1>7, <1>8 DEF Plan
<1>10. new.before = registry /\ new.request = req /\ new.after = after
  BY <1>7
<1>11. Made(new)
  BY <1>1, <1>3, <1>10 DEF Made, after
<1> QED
  BY <1>9, <1>11 DEF new

\* The result of a plan is a consistent document that is further on.
LEMMA PlanAdvances ==
    ASSUME WInv, NEW p \in Clerk, plan[p] # NoPlan
    PROVE  /\ plan[p].after \in Registry
           /\ Consistent(plan[p].after)
           /\ Advances(Document(plan[p].before), plan[p].after)
<1>1. plan[p] \in Plan
  BY DEF WInv, TypeOK
<1>2. PICK d \in Disk : /\ Buildable(Document(plan[p].before), plan[p].request, d)
                        /\ plan[p].after = After(Document(plan[p].before), plan[p].request, d)
  BY DEF WInv, PlansMade, Made
<1>3. Document(plan[p].before) \in Registry /\ Consistent(Document(plan[p].before))
  BY <1>1, PlanParts, EmptyIsDocument DEF WInv, Documents, Document
<1>4. plan[p].request \in Request(history)
  BY DEF WInv, PlansMade
<1>5. history \in SUBSET Registry /\ \A e \in history : Consistent(e)
  BY DEF WInv, TypeOK, Documents
<1> QED
  BY <1>2, <1>3, <1>4, <1>5, OperationsAdvance

----------------------------------------------------------------------------
\* The first state.
LEMMA WritersStart ==
    ASSUME Init
    PROVE  WInv
<1>1. /\ registry \in Registry \cup {Absent}
      /\ registry # Absent => Consistent(registry)
  BY WritersAssumption DEF Init, Consistent, NoSelections
<1>2. TypeOK
  BY <1>1, WritersAssumption DEF Init, TypeOK, ClerkSteps
<1>3. Documents /\ PlansMade
  BY <1>1 DEF Init, Documents, PlansMade
<1>4. /\ \A p \in Clerk : pc[p] = "idle"
      /\ \A m \in Mover : pc[m] = "idle"
  BY DEF Init
<1>5. Holding /\ Loaded /\ VaultLease /\ Apart /\ KeptFirst /\ Fresh
  BY <1>4 DEF Holding, Loaded, VaultLease, Apart, Applying, KeptFirst, Fresh, Active
<1> QED
  BY <1>2, <1>3, <1>5 DEF WInv

\* A step of an apply that changes no document: the clerk gets from one step to
\* the next, and may have kept a snapshot, taken the lease or given it back.
LEMMA ClerkMoves ==
    ASSUME WInv, NEW p \in Clerk, NEW t \in ClerkSteps,
           UNCHANGED <<registry, disk, pin, plan, loaded, plans, edits>>,
           history' \in SUBSET Registry, history \subseteq history',
           \A d \in history' : Consistent(d),
           torn' \in SUBSET Registry, marker' \in {"absent", "torn", "whole"},
           interrupts' \in 0..MaxInterrupts,
           pc' = [pc EXCEPT ![p] = t],
           result' \in [Clerk -> {"none", "applied", "unchanged", "refused", "uncertain"}],
           lease' = lease \/ (lease \in {p, Absent} /\ lease' \in {p, Absent}),
           t # "idle" => plan[p] # NoPlan,
           t \notin {"idle", "admitted"} => lease' = p,
           t = "copying" => plan[p].before # Absent,
           t \in {"preserved", "staged", "final"} => plan[p].before \in history' \cup {Absent},
           t = "final" => registry = plan[p].before /\ (Overlap \/ ~ Moving)
    PROVE  WInv'
<1> USE DEF WInv
<1>1. /\ p \notin Mover /\ p # Absent
      /\ \A q \in Clerk : q # Absent
      /\ \A q \in Clerk \cup Mover : pc'[q] = IF q = p THEN t ELSE pc[q]
  BY WritersAssumption DEF TypeOK
<1>2. TypeOK'
  BY DEF TypeOK
<1>3. Documents'
  BY DEF Documents
<1>4. PlansMade'
  BY MoreRequests DEF PlansMade, Made
<1>5. Holding'
  BY <1>1 DEF Holding
<1>6. \A m \in Mover : pc'[m] = pc[m]
  BY <1>1
<1>7. Loaded'
  BY <1>6 DEF Loaded, Active
<1>8. VaultLease' /\ Apart'
  BY <1>1, <1>6 DEF VaultLease, Apart, Applying, Moving
<1>9. KeptFirst'
  BY <1>1 DEF KeptFirst
<1>10. Fresh'
  BY <1>1, <1>6 DEF Fresh
<1> QED
  BY <1>2, <1>3, <1>4, <1>5, <1>7, <1>8, <1>9, <1>10

\* The clerk goes on to a step for which it needs nothing new.
LEMMA Proceeding ==
    ASSUME WInv, NEW p \in Clerk, NEW t \in ClerkSteps,
           UNCHANGED <<files, plan, loaded, bounds, result, lease>>,
           pc' = [pc EXCEPT ![p] = t],
           t # "copying",
           pc[p] # "idle" \/ (plan[p] # NoPlan /\ t = "admitted"),
           t \notin {"idle", "admitted"} => lease = p,
           t \in {"preserved", "staged", "final"} => plan[p].before \in history \cup {Absent},
           t = "final" => registry = plan[p].before /\ (Overlap \/ ~ Moving)
    PROVE  WInv'
<1>1. plan[p] # NoPlan
  BY DEF WInv, Holding
<1> QED
  BY <1>1, ClerkMoves DEF WInv, TypeOK, Documents, files, bounds

\* An apply ends, whatever it reports.
LEMMA Ending ==
    ASSUME WInv, NEW p \in Clerk,
           NEW r \in {"none", "applied", "unchanged", "refused", "uncertain"}, End(p, r),
           UNCHANGED <<files, plan, loaded, plans, edits>>, interrupts' \in 0..MaxInterrupts
    PROVE  WInv'
<1>1. "idle" \in ClerkSteps
  BY DEF ClerkSteps
<1>2. /\ pc' = [pc EXCEPT ![p] = "idle"]
      /\ result' = [result EXCEPT ![p] = r]
      /\ lease' = lease \/ (lease \in {p, Absent} /\ lease' \in {p, Absent})
  BY DEF End, Goto, Report
<1>3. result' \in [Clerk -> {"none", "applied", "unchanged", "refused", "uncertain"}]
  BY <1>2 DEF WInv, TypeOK
<1> QED
  BY <1>1, <1>2, <1>3, ClerkMoves DEF WInv, TypeOK, Documents, files

\* A refusal ends it.
LEMMA Refusing ==
    ASSUME WInv, NEW p \in Clerk, Refuse(p)
    PROVE  WInv'
BY Ending DEF Refuse, bounds, WInv, TypeOK

----------------------------------------------------------------------------
\* A new plan is saved.
LEMMA PreviewStep ==
    ASSUME WInv, NEW p \in Clerk, Preview(p)
    PROVE  WInv'
<1> USE DEF WInv
<1>1. PICK req \in Request(history) :
          /\ CanBuild(registry, req)
          /\ plan' = [plan EXCEPT ![p] = PlanFor(registry, req)]
  BY DEF Preview
<1>2. /\ pc[p] = "idle" /\ plans < MaxPlans /\ plans' = plans + 1
      /\ result' = [result EXCEPT ![p] = "none"]
      /\ UNCHANGED <<files, pc, lease, loaded, edits, interrupts>>
  BY DEF Preview, Report
<1>3. PlanFor(registry, req) \in Plan /\ Made(PlanFor(registry, req))
  BY <1>1, PlanForType
<1>4. PlanFor(registry, req).before = registry /\ PlanFor(registry, req).request = req
  BY DEF PlanFor
<1>5. \A q \in Clerk : plan'[q] = IF q = p THEN PlanFor(registry, req) ELSE plan[q]
  BY <1>1 DEF TypeOK
<1>6. plan' \in [Clerk -> Plan \cup {NoPlan}]
  BY <1>1, <1>3 DEF TypeOK
<1>7. plans' \in 0..MaxPlans
  BY <1>2, WritersAssumption DEF TypeOK
<1>8. TypeOK'
  BY <1>2, <1>6, <1>7 DEF TypeOK, files
<1>9. Consistent(Document(registry))
  BY DocumentType DEF TypeOK, Documents
<1>10. Documents'
  BY <1>2, <1>4, <1>5, <1>9 DEF Documents, files
<1>11. PlansMade'
  BY <1>2, <1>3, <1>4, <1>5 DEF PlansMade, files
<1>12. Holding' /\ KeptFirst' /\ Fresh'
  BY <1>2, <1>5 DEF Holding, KeptFirst, Fresh, files
<1>13. Loaded' /\ VaultLease' /\ Apart'
  BY <1>2 DEF Loaded, VaultLease, Apart, Applying, Moving, Active
<1> QED
  BY <1>8, <1>10, <1>11, <1>12, <1>13

\* An apply starts.
LEMMA AdmitStep ==
    ASSUME WInv, NEW p \in Clerk, Admit(p)
    PROVE  WInv'
<1>1. CASE Refuse(p)
  BY <1>1, Refusing
<1>2. CASE Proceed(p, "admitted")
  BY <1>2, Proceeding DEF Admit, Proceed, Goto, ClerkSteps, files, bounds
<1> QED
  BY <1>1, <1>2 DEF Admit

\* The lease is taken, or another writer has it.
LEMMA TakeLeaseStep ==
    ASSUME WInv, NEW p \in Clerk, TakeLease(p)
    PROVE  WInv'
<1>1. CASE Refuse(p)
  BY <1>1, Refusing
<1>2. CASE lease = Absent
  <2>1. /\ pc[p] = "admitted" /\ lease' = p /\ pc' = [pc EXCEPT ![p] = "leased"]
        /\ UNCHANGED <<files, plan, result, loaded, bounds>>
    BY <1>2 DEF TakeLease, Goto
  <2>2. plan[p] # NoPlan /\ "leased" \in ClerkSteps
    BY <2>1 DEF WInv, Holding, ClerkSteps
  <2> QED
    BY <1>2, <2>1, <2>2, ClerkMoves DEF WInv, TypeOK, Documents, files, bounds
<1> QED
  BY <1>1, <1>2 DEF TakeLease

\* The comparisons: each one refuses, or lets the clerk go on.
LEMMA ComparisonSteps ==
    ASSUME WInv, NEW p \in Clerk,
           Recheck(p) \/ Compare(p) \/ Reverify(p) \/ Reread(p)
    PROVE  WInv'
<1>1. CASE Refuse(p)
  BY <1>1, Refusing
<1>2. CASE End(p, "unchanged") /\ UNCHANGED <<files, plan, loaded, bounds>>
  BY <1>2, Ending DEF WInv, TypeOK, bounds
<1>3. CASE pc[p] = "leased" /\ Proceed(p, "cleared")
  BY <1>3, Proceeding DEF WInv, Holding, Proceed, Goto, ClerkSteps
<1>4. CASE pc[p] = "cleared" /\ Proceed(p, "verified")
  BY <1>4, Proceeding DEF WInv, Holding, Proceed, Goto, ClerkSteps
<1>5. CASE pc[p] = "preserved" /\ Proceed(p, "staged")
  BY <1>5, Proceeding DEF WInv, Holding, KeptFirst, Proceed, Goto, ClerkSteps
<1>6. CASE /\ pc[p] = "staged" /\ registry = plan[p].before
           /\ (Overlap \/ ~ Moving) /\ Proceed(p, "final")
  BY <1>6, Proceeding DEF WInv, Holding, KeptFirst, Proceed, Goto, ClerkSteps
<1>7. Prepare(p) \in {"stale", "unchanged", "changes"}
  BY DEF Prepare
<1> QED
  BY <1>1, <1>2, <1>3, <1>4, <1>5, <1>6, <1>7 DEF Recheck, Compare, Reverify, Reread

\* The history is owned, and the snapshot begun.
LEMMA PreserveStep ==
    ASSUME WInv, NEW p \in Clerk, Preserve(p)
    PROVE  WInv'
<1>1. /\ pc[p] = "verified" /\ lease = p /\ plan[p] # NoPlan
  BY DEF Preserve, WInv, Holding
<1>2. marker \in {"absent", "torn", "whole"}
  BY DEF WInv, TypeOK
<1>3. CASE Refuse(p)
  BY <1>3, Refusing
<1>4. CASE plan[p].before \in history \cup {Absent} /\ Proceed(p, "preserved")
  BY <1>1, <1>4, Proceeding DEF Proceed, Goto, ClerkSteps
<1>5. CASE /\ marker' = "torn" /\ Goto(p, "marking")
           /\ UNCHANGED <<registry, history, torn, disk, pin,
                          plan, lease, result, loaded, bounds>>
  <2>1. "marking" \in ClerkSteps
    BY DEF ClerkSteps
  <2> QED
    BY <1>1, <1>5, <2>1, ClerkMoves DEF WInv, TypeOK, Documents, Goto, bounds
<1>6. CASE /\ plan[p].before # Absent
           /\ torn' = torn \cup {plan[p].before} /\ Goto(p, "copying")
           /\ UNCHANGED <<registry, history, marker, disk, pin,
                          plan, lease, result, loaded, bounds>>
  <2>1. "copying" \in ClerkSteps
    BY DEF ClerkSteps
  <2>2. torn' \in SUBSET Registry
    BY <1>1, <1>6, PlanParts DEF WInv, TypeOK
  <2> QED
    BY <1>1, <1>6, <2>1, <2>2, ClerkMoves DEF WInv, TypeOK, Documents, Goto, bounds
<1> QED
  BY <1>1, <1>2, <1>3, <1>4, <1>5, <1>6 DEF Preserve

\* The marker, and the snapshot, are complete.
LEMMA WriteSteps ==
    ASSUME WInv, NEW p \in Clerk, WriteMarker(p) \/ WriteSnapshot(p)
    PROVE  WInv'
<1>1. "verified" \in ClerkSteps /\ "preserved" \in ClerkSteps
  BY DEF ClerkSteps
<1>2. lease = p /\ plan[p] # NoPlan /\ pc[p] # "idle"
  BY DEF WriteMarker, WriteSnapshot, WInv, Holding
<1>3. CASE WriteMarker(p)
  BY <1>1, <1>2, <1>3, ClerkMoves DEF WriteMarker, WInv, TypeOK, Documents, Goto, bounds
<1>4. CASE WriteSnapshot(p)
  <2>1. plan[p].before # Absent
    BY <1>4 DEF WriteSnapshot, WInv, KeptFirst
  <2>2. plan[p].before \in Registry
    BY <1>2, <2>1, PlanParts DEF WInv, TypeOK
  <2>3. Consistent(plan[p].before)
    BY <1>2, <2>1 DEF WInv, Documents, Document
  <2>4. /\ history' = history \cup {plan[p].before} /\ torn' = torn \ {plan[p].before}
        /\ pc' = [pc EXCEPT ![p] = "preserved"]
        /\ UNCHANGED <<registry, marker, disk, pin, plan, lease, result, loaded, bounds>>
    BY <1>4 DEF WriteSnapshot, Goto
  <2>5. history' \in SUBSET Registry /\ torn' \in SUBSET Registry
        /\ (\A d \in history' : Consistent(d))
    BY <2>2, <2>3, <2>4 DEF WInv, TypeOK, Documents
  <2> QED
    BY <1>1, <1>2, <2>4, <2>5, ClerkMoves DEF WInv, TypeOK, bounds
<1> QED
  BY <1>3, <1>4

\* The rename.
LEMMA ReplaceStep ==
    ASSUME WInv, NEW p \in Clerk, Replace(p)
    PROVE  WInv'
<1> USE DEF WInv
<1>1. /\ pc[p] = "final" /\ registry' = plan[p].after
      /\ pc' = [pc EXCEPT ![p] = "published"]
      /\ UNCHANGED <<history, torn, marker, disk, pin, plan, lease, result, loaded, bounds>>
  BY DEF Replace, Goto
<1>2. plan[p] # NoPlan /\ lease = p
  BY <1>1 DEF Holding
<1>3. plan[p].after \in Registry /\ Consistent(plan[p].after)
  BY <1>2, PlanAdvances
<1>4. "published" \in ClerkSteps
  BY DEF ClerkSteps
<1>5. TypeOK'
  BY <1>1, <1>3, <1>4 DEF TypeOK, bounds
<1>6. Documents' /\ PlansMade'
  BY <1>1, <1>3 DEF Documents, PlansMade, Made
<1>7. p \notin Mover /\ \A q \in Clerk \cup Mover :
          pc'[q] = IF q = p THEN "published" ELSE pc[q]
  BY <1>1, WritersAssumption DEF TypeOK
<1>8. Holding' /\ KeptFirst'
  BY <1>1, <1>2, <1>7 DEF Holding, KeptFirst
<1>9. \A m \in Mover : pc'[m] = pc[m]
  BY <1>7
<1>10. Loaded'
  BY <1>1, <1>9 DEF Loaded, Active
<1>11. VaultLease' /\ Apart'
  BY <1>1, <1>7, <1>9 DEF VaultLease, Apart, Applying, Moving
<1>12. \A q \in Clerk : pc'[q] # "final"
  BY <1>1, <1>2, <1>7 DEF Holding
<1>13. ~ Overlap => \A m \in Mover : pc'[m] # "verified"
  BY <1>1, <1>9 DEF Apart, Applying, Moving
<1>14. Fresh'
  BY <1>12, <1>13 DEF Fresh
<1> QED
  BY <1>5, <1>6, <1>8, <1>10, <1>11, <1>14

\* A step of a relocation: only its own place in the code changes, and what it
\* has read, or the file.
LEMMA MoverMoves ==
    ASSUME WInv, NEW m \in Mover, NEW t \in MoverSteps,
           UNCHANGED <<history, torn, marker, disk, pin, plan, lease, result, bounds>>,
           pc' = [pc EXCEPT ![m] = t],
           registry' \in Registry \cup {Absent},
           registry' # Absent => Consistent(registry'),
           NEW d \in Registry \cup {Absent}, loaded' = [loaded EXCEPT ![m] = d],
           d # Absent => Consistent(d),
           t \in {"planned", "verified"} => d # Absent /\ registry' = registry,
           t = "verified" =>
               /\ registry = d /\ (Overlap \/ ~ Applying)
               /\ \A n \in Mover \ {m} : pc[n] = "verified" => loaded[n].vault # d.vault,
           registry' # registry => pc[m] = "verified"
    PROVE  WInv'
<1> USE DEF WInv
<1>1. m \notin Clerk /\ \A q \in Clerk \cup Mover : pc'[q] = IF q = m THEN t ELSE pc[q]
  BY WritersAssumption DEF TypeOK
<1>2. \A n \in Mover : loaded'[n] = IF n = m THEN d ELSE loaded[n]
  BY DEF TypeOK
<1>3. pc' \in [Clerk \cup Mover -> ClerkSteps \cup MoverSteps]
      /\ loaded' \in [Mover -> Registry \cup {Absent}]
  BY DEF TypeOK
<1>4. TypeOK'
  BY <1>3 DEF TypeOK, bounds
<1>5. Documents' /\ PlansMade'
  BY <1>2 DEF Documents, PlansMade, Made
<1>6. \A p \in Clerk : pc'[p] = pc[p]
  BY <1>1
<1>7. Holding' /\ KeptFirst'
  BY <1>6 DEF Holding, KeptFirst
<1>8. Loaded'
  BY <1>1, <1>2 DEF Loaded, Active
<1>9. VaultLease' /\ Apart'
  <2>1. VaultLease'
    BY <1>1, <1>2 DEF VaultLease
  <2>2. Apart'
    BY <1>1, <1>6 DEF Apart, Applying, Moving
  <2> QED
    BY <2>1, <2>2
<1>10. Fresh'
  <2> SUFFICES ASSUME ~ Overlap, QuietOwner
               PROVE  /\ \A p \in Clerk : pc'[p] = "final" => registry' = plan[p].before
                      /\ \A n \in Mover : pc'[n] = "verified" => registry' = loaded'[n]
    BY DEF Fresh
  <2>1. CASE registry' = registry
    BY <2>1, <1>1, <1>2, <1>6 DEF Fresh
  <2>2. CASE registry' # registry
    <3>1. pc[m] = "verified" /\ t # "verified"
      BY <2>2
    <3>2. \A p \in Clerk : pc[p] # "final"
      BY <3>1 DEF Apart, Applying, Moving
    <3>3. \A n \in Mover : pc[n] = "verified" => registry = loaded[n]
      BY DEF Fresh
    <3>4. \A n \in Mover : pc[n] = "verified" => n = m
      BY <3>1, <3>3 DEF VaultLease
    <3> QED
      BY <3>1, <3>2, <3>4, <1>1, <1>6
  <2> QED
    BY <2>1, <2>2
<1> QED
  BY <1>4, <1>5, <1>7, <1>8, <1>9, <1>10

\* The three steps of a relocation.
LEMMA RelocationStep ==
    ASSUME WInv, NEW m \in Mover, MoverStep(m)
    PROVE  WInv'
<1>0. /\ {"idle", "planned", "verified", "moved"} \subseteq MoverSteps
      /\ registry \in Registry \cup {Absent}
      /\ registry # Absent => Consistent(registry)
      /\ loaded \in [Mover -> Registry \cup {Absent}]
      /\ loaded[m] # Absent => Consistent(loaded[m])
  BY DEF MoverSteps, WInv, TypeOK, Documents
<1>1. CASE PlanMove(m)
  BY <1>0, <1>1, MoverMoves DEF PlanMove, Goto, files
<1>2. CASE VerifyMove(m)
  <2>1. /\ pc[m] = "planned" /\ UNCHANGED <<files, plan, lease, result, bounds>>
        /\ \/ /\ registry = loaded[m] /\ ~ VaultBusy(m) /\ (Overlap \/ ~ Applying)
              /\ pc' = [pc EXCEPT ![m] = "verified"] /\ loaded' = loaded
           \/ /\ pc' = [pc EXCEPT ![m] = "idle"]
              /\ loaded' = [loaded EXCEPT ![m] = Absent]
    BY <1>2 DEF VerifyMove, Goto
  <2>2. loaded[m] \in Registry \cup {Absent} /\ loaded = [loaded EXCEPT ![m] = loaded[m]]
    BY <1>0
  <2>3. loaded[m] # Absent /\ Active(m)
    BY <2>1 DEF WInv, Loaded, Active
  <2>4. CASE /\ registry = loaded[m] /\ ~ VaultBusy(m) /\ (Overlap \/ ~ Applying)
             /\ pc' = [pc EXCEPT ![m] = "verified"] /\ loaded' = loaded
    <3>1. \A n \in Mover \ {m} : pc[n] = "verified" => loaded[n].vault # loaded[m].vault
      BY <2>4 DEF VaultBusy
    <3> QED
      BY <2>1, <2>2, <2>3, <2>4, <3>1, <1>0, MoverMoves DEF files
  <2>5. CASE /\ pc' = [pc EXCEPT ![m] = "idle"]
             /\ loaded' = [loaded EXCEPT ![m] = Absent]
    <3>1. UNCHANGED <<registry, history, torn, marker, disk, pin, plan, lease, result, bounds>>
      BY <2>1 DEF files
    <3> QED
      BY <2>5, <3>1, <1>0, MoverMoves
  <2> QED
    BY <2>1, <2>4, <2>5
<1>3. CASE ReplaceBindings(m)
  <2>1. PICK q \in Place : registry' = [loaded[m] EXCEPT !.vault = q]
    BY <1>3 DEF ReplaceBindings
  <2>2. /\ pc[m] = "verified" /\ pc' = [pc EXCEPT ![m] = "moved"]
        /\ loaded' = [loaded EXCEPT ![m] = Absent]
        /\ UNCHANGED <<history, torn, marker, disk, pin, plan, lease, result, bounds>>
    BY <1>3 DEF ReplaceBindings, Goto
  <2>3. loaded[m] # Absent /\ Active(m) /\ loaded[m] \in Registry /\ Consistent(loaded[m])
    BY <2>2, <1>0 DEF WInv, Loaded, Active
  <2>4. /\ registry' \in Registry /\ registry'.views = loaded[m].views
        /\ registry'.epoch = loaded[m].epoch /\ registry'.root = loaded[m].root
    BY <2>1, <2>3 DEF Registry
  <2>5. Consistent(registry')
    BY <2>3, <2>4 DEF Consistent, Bound
  <2>6. "moved" \in MoverSteps /\ "moved" \notin {"planned", "verified"}
    BY <1>0
  <2> QED
    BY <2>2, <2>4, <2>5, <2>6, MoverMoves
<1> QED
  BY <1>1, <1>2, <1>3 DEF MoverStep

\* What the owner does.
LEMMA OwnerSteps ==
    ASSUME WInv, OwnerStep
    PROVE  WInv'
<1> USE DEF WInv
<1>1. CASE \E s \in Session : Revoke(s)
  <2>1. PICK s \in Session : Revoke(s)
    BY <1>1
  <2>2. /\ registry # Absent
        /\ QuietOwner => ~ (Applying \/ Moving)
        /\ registry' = [registry EXCEPT !.revoked = registry.revoked \cup {s}]
        /\ UNCHANGED <<history, torn, marker, disk, pin,
                       plan, pc, lease, result, loaded, bounds>>
    BY <2>1 DEF Revoke
  <2>3. registry \in Registry /\ Consistent(registry)
    BY <2>2 DEF TypeOK, Documents
  <2>4. /\ registry' \in Registry /\ registry'.views = registry.views
        /\ registry'.epoch = registry.epoch /\ registry'.root = registry.root
    BY <2>2, <2>3 DEF Registry
  <2>5. Consistent(registry')
    BY <2>3, <2>4 DEF Consistent, Bound
  <2>6. TypeOK' /\ Documents'
    BY <2>2, <2>4, <2>5 DEF TypeOK, Documents, bounds
  <2>7. PlansMade' /\ Holding' /\ Loaded' /\ VaultLease' /\ Apart' /\ KeptFirst'
    BY <2>2 DEF PlansMade, Made, Holding, Loaded, VaultLease, Apart, Applying, Moving, Active,
                KeptFirst
  <2>8. Fresh'
    BY <2>2 DEF Fresh, Applying, Moving
  <2> QED
    BY <2>6, <2>7, <2>8
<1>2. CASE \E s \in Session : MakeSession(s)
  <2>1. PICK s \in Session : MakeSession(s)
    BY <1>2
  <2>2. PICK v \in Named(registry) :
            pin' = [pin EXCEPT ![s] = [view |-> v, selection |-> registry.views[v]]]
    BY <2>1 DEF MakeSession
  <2>3. /\ registry \in Registry
        /\ UNCHANGED <<registry, history, torn, marker, disk,
                       plan, pc, lease, result, loaded, bounds>>
    BY <2>1 DEF MakeSession, TypeOK
  <2>4. v \in View /\ registry.views[v] \in Selection
    BY <2>2, <2>3, Parts DEF Named
  <2>5. pin' \in [Session -> Pin \cup {NoView}]
    BY <2>2, <2>4 DEF TypeOK, Pin
  <2>6. TypeOK' /\ Documents'
    BY <2>3, <2>5 DEF TypeOK, Documents, bounds
  <2> QED
    BY <2>3, <2>6 DEF PlansMade, Made, Holding, Loaded, VaultLease, Apart, Applying, Moving,
                          Active, KeptFirst, Fresh
<1>3. CASE \E r \in Root : EditGarden(r)
  <2>1. PICK r \in Root : EditGarden(r)
    BY <1>3
  <2>2. PICK o \in Manifest \cup {Missing} : disk' = [disk EXCEPT ![r] = o]
    BY <2>1 DEF EditGarden
  <2>3. /\ edits < MaxEdits /\ edits' = edits + 1
        /\ UNCHANGED <<registry, history, torn, marker, pin,
                       plan, pc, lease, result, loaded, plans, interrupts>>
    BY <2>1 DEF EditGarden
  <2>4. disk' \in Disk /\ edits' \in 0..MaxEdits
    BY <2>2, <2>3, WritersAssumption DEF TypeOK, Disk
  <2>5. TypeOK' /\ Documents'
    BY <2>3, <2>4 DEF TypeOK, Documents
  <2> QED
    BY <2>3, <2>5 DEF PlansMade, Made, Holding, Loaded, VaultLease, Apart, Applying, Moving,
                          Active, KeptFirst, Fresh
<1> QED
  BY <1>1, <1>2, <1>3 DEF OwnerStep

\* Every step.
LEMMA WritersStep ==
    ASSUME WInv, [Next]_vars
    PROVE  WInv'
<1>1. ASSUME NEW p \in Clerk, ClerkStep(p)
      PROVE  WInv'
  <2>1. CASE Publish(p)
    BY <2>1, Ending DEF Publish, WInv, TypeOK, bounds
  <2>2. CASE Interrupt(p)
    <3>1. interrupts' \in 0..MaxInterrupts
      BY <2>2, WritersAssumption DEF Interrupt, WInv, TypeOK
    <3> QED
      BY <2>2, <3>1, Ending DEF Interrupt
  <2> QED
    BY <1>1, <2>1, <2>2, PreviewStep, AdmitStep, TakeLeaseStep, ComparisonSteps,
       PreserveStep, WriteSteps, ReplaceStep DEF ClerkStep, ApplyStep
<1>2. CASE UNCHANGED vars
  BY <1>2 DEF vars, files, bounds, WInv, TypeOK, Documents, PlansMade, Made, Holding,
              Loaded, VaultLease, Apart, Applying, Moving, Active, KeptFirst, Fresh
<1> QED
  BY <1>1, <1>2, RelocationStep, OwnerSteps DEF Next

\* The invariant.
THEOREM WritersInvariant ==
    Spec => []WInv
<1>1. Init => WInv
  BY WritersStart
<1>2. WInv /\ [Next]_vars => WInv'
  BY WritersStep
<1> QED
  BY <1>1, <1>2, PTL DEF Spec

\* Every variable keeps its type.
THEOREM RegistryTypeCorrect ==
    Spec => []TypeOK
<1>1. WInv => TypeOK
  BY DEF WInv
<1> QED
  BY <1>1, WritersInvariant, PTL

\* What a rename replaces has been kept, if the owner is quiet in that instant
\* and no relocation is in its own.
THEOREM KeptBeforeReplaced ==
    ASSUME ~ Overlap, QuietOwner
    PROVE  Spec => NothingOverwrittenUnkept
<1>1. WInv => \A p \in Clerk : Replace(p) => registry \in history \cup {Absent}
  BY DEF WInv, KeptFirst, Fresh, Replace
<1>2. WInv /\ [Next]_vars
        => [\A p \in Clerk : Replace(p) => registry \in history \cup {Absent}]_vars
  BY <1>1
<1> QED
  BY <1>2, WritersInvariant, PTL DEF Spec, NothingOverwrittenUnkept

----------------------------------------------------------------------------
(***************************************************************************)
(* The ledger.                                                             *)
(***************************************************************************)

\* The ledger speaks of the same documents and operations.
LEMMA SameOperations ==
    ASSUME NEW doc, NEW req, NEW d
    PROVE  /\ Ledger!Document(doc) = Document(doc)
           /\ Ledger!After(doc, req, d) = After(doc, req, d)
           /\ Ledger!Buildable(doc, req, d) <=> Buildable(doc, req, d)
<1>1. Ledger!Document(doc) = Document(doc)
  BY DEF Document, Ledger!Document, EmptyBindings, Ledger!EmptyBindings, NoSelections, Ledger!NoSelections, NoEpochs, Ledger!NoEpochs
<1>2. ASSUME NEW e
      PROVE  Ledger!Bound(e) = Bound(e)
  BY DEF Bound, Ledger!Bound
<1>3. Ledger!After(doc, req, d) = After(doc, req, d)
  BY DEF After, Ledger!After, Adopted, Ledger!Adopted, Registered, Ledger!Registered, Unregistered, Ledger!Unregistered, ViewSet, Ledger!ViewSet, ViewRemoved, Ledger!ViewRemoved, Restored, Ledger!Restored, NextViews, Ledger!NextViews, Observed, Ledger!Observed, EpochsAbove, Ledger!EpochsAbove, AtEpochs, Ledger!AtEpochs, RevokedByEither, Ledger!RevokedByEither, Bound, Ledger!Bound, Named, Ledger!Named
<1>4. ASSUME NEW e
      PROVE  Ledger!Valid(e) <=> Valid(e)
  <2>1. ASSUME NEW S
        PROVE  Ledger!Cardinality(S) = Cardinality(S)
    BY DEF Cardinality, Ledger!Cardinality
  <2> QED
    BY <1>2, <2>1 DEF Valid, Ledger!Valid, Named, Ledger!Named, Marked, Ledger!Marked
<1>5. ASSUME NEW e
      PROVE  Ledger!AllHeld(e, d) <=> AllHeld(e, d)
  BY <1>2 DEF AllHeld, Ledger!AllHeld, Holds, Ledger!Holds
<1>6. Ledger!Accepts(doc, req, d) <=> Accepts(doc, req, d)
  BY <1>2, <1>4, <1>5 DEF Accepts, Ledger!Accepts
<1> QED
  BY <1>1, <1>3, <1>4, <1>6 DEF Buildable, Ledger!Buildable

Reads == {plan[p].before : p \in {q \in Clerk : plan[q] # NoPlan}}

\* A new plan is a new reading of the document.
LEMMA PreviewReads ==
    ASSUME WInv, NEW p \in Clerk, Preview(p)
    PROVE  Ledger!Read
<1>1. PICK req \in Request(history) :
          /\ CanBuild(registry, req)
          /\ plan' = [plan EXCEPT ![p] = PlanFor(registry, req)]
  BY DEF Preview
<1>2. UNCHANGED <<registry, history, pin>>
  BY DEF Preview, files
<1>3. PlanFor(registry, req) # NoPlan
  BY <1>1, PlanForType, PlanAssumption
<1>4. PlanFor(registry, req).before = registry
  BY DEF PlanFor
<1> DEFINE still == {plan[q].before : q \in {r \in Clerk : plan[r] # NoPlan /\ r # p}}
<1>5. \A q \in Clerk : plan'[q] = IF q = p THEN PlanFor(registry, req) ELSE plan[q]
  BY <1>1 DEF WInv, TypeOK
<1>6. still \in SUBSET Reads
  BY DEF Reads
<1>7. Reads' = still \cup {registry}
  BY <1>3, <1>4, <1>5 DEF Reads
<1> HIDE DEF still
<1> QED
  BY <1>2, <1>6, <1>7 DEF Ledger!Read, Reads

\* Every step is one of the ledger's, or changes nothing it speaks of.
LEMMA StepRefines ==
    ASSUME ~ Overlap, QuietOwner, WInv, [Next]_vars
    PROVE  [Ledger!Next]_(Ledger!vars)
<1>s. ASSUME UNCHANGED <<registry, history, pin, plan>>
      PROVE  UNCHANGED Ledger!vars
  BY <1>s DEF Ledger!vars
<1>1. ASSUME NEW p \in Clerk, Preview(p)
      PROVE  Ledger!Next
  BY <1>1, PreviewReads DEF Ledger!Next
<1>2. ASSUME NEW p \in Clerk, WriteSnapshot(p)
      PROVE  Ledger!Next
  <2>1. plan[p] # NoPlan /\ plan[p].before # Absent
    BY <1>2 DEF WriteSnapshot, WInv, Holding, KeptFirst
  <2>2. history' = history \cup {plan[p].before} /\ UNCHANGED <<registry, pin, plan>>
    BY <1>2 DEF WriteSnapshot
  <2>3. plan[p].before \in Reads \ {Absent} /\ Reads' = Reads
    BY <2>1, <2>2 DEF Reads
  <2>4. Ledger!Keep
    BY <2>2, <2>3 DEF Ledger!Keep, Reads
  <2> QED
    BY <2>4 DEF Ledger!Next
<1>3. ASSUME NEW p \in Clerk, Replace(p)
      PROVE  Ledger!Next
  <2>1. plan[p] # NoPlan /\ registry = plan[p].before /\ registry \in history \cup {Absent}
    BY <1>3 DEF Replace, WInv, Holding, KeptFirst, Fresh
  <2>2. registry' = plan[p].after /\ UNCHANGED <<history, pin, plan>>
    BY <1>3 DEF Replace
  <2>3. PICK d \in Disk : /\ Buildable(Document(plan[p].before), plan[p].request, d)
                          /\ plan[p].after = After(Document(plan[p].before), plan[p].request, d)
    BY <2>1 DEF WInv, PlansMade, Made
  <2>4. plan[p].request \in Request(history)
    BY <2>1 DEF WInv, PlansMade
  <2>5. /\ Ledger!Buildable(Ledger!Document(registry), plan[p].request, d)
        /\ registry' = Ledger!After(Ledger!Document(registry), plan[p].request, d)
    BY <2>1, <2>2, <2>3, SameOperations
  <2>6. plan[p].request \in Ledger!Request(history) /\ d \in Ledger!Disk
    BY <2>4 DEF Request, Ledger!Request, InitRequest, Ledger!InitRequest, RegisterRequest, Ledger!RegisterRequest, UnregisterRequest, Ledger!UnregisterRequest, SetViewRequest, Ledger!SetViewRequest, RemoveViewRequest, Ledger!RemoveViewRequest, RestoreRequest, Ledger!RestoreRequest, Disk, Ledger!Disk, Manifest, Ledger!Manifest
  <2>7. Ledger!Change
    BY <2>1, <2>2, <2>5, <2>6 DEF Ledger!Change
  <2> QED
    BY <2>7 DEF Ledger!Next
<1>4. ASSUME NEW m \in Mover, ReplaceBindings(m)
      PROVE  Ledger!Next
  <2>1. registry = loaded[m] /\ registry # Absent
    BY <1>4 DEF ReplaceBindings, WInv, Loaded, Active, Fresh
  <2>2. PICK q \in Place : registry' = [registry EXCEPT !.vault = q]
    BY <1>4, <2>1 DEF ReplaceBindings
  <2>3. Ledger!Relocate
    BY <1>4, <2>1, <2>2 DEF Ledger!Relocate, ReplaceBindings
  <2> QED
    BY <2>3 DEF Ledger!Next
<1>5. ASSUME NEW s \in Session, Revoke(s)
      PROVE  Ledger!Next
  <2>1. Ledger!Revoke
    BY <1>5 DEF Revoke, Ledger!Revoke
  <2> QED
    BY <2>1 DEF Ledger!Next
<1>6. ASSUME NEW s \in Session, MakeSession(s)
      PROVE  Ledger!Next
  <2>1. PICK v \in Named(registry) :
            pin' = [pin EXCEPT ![s] = [view |-> v, selection |-> registry.views[v]]]
    BY <1>6 DEF MakeSession
  <2>2. Ledger!MakeSession
    BY <1>6, <2>1 DEF MakeSession, Ledger!MakeSession, Named
  <2> QED
    BY <2>2 DEF Ledger!Next
<1>7. ASSUME NEW r \in Root, EditGarden(r)
      PROVE  UNCHANGED Ledger!vars
  BY <1>7, <1>s DEF EditGarden
<1>8. ASSUME NEW m \in Mover, PlanMove(m) \/ VerifyMove(m)
      PROVE  UNCHANGED Ledger!vars
  BY <1>8, <1>s DEF PlanMove, VerifyMove, files
<1>9. ASSUME NEW p \in Clerk,
             \/ Admit(p) \/ TakeLease(p) \/ Recheck(p) \/ Compare(p) \/ Preserve(p)
             \/ WriteMarker(p) \/ Reverify(p) \/ Reread(p) \/ Publish(p) \/ Interrupt(p)
      PROVE  UNCHANGED Ledger!vars
  <2>1. Prepare(p) \in {"stale", "unchanged", "changes"}
    BY DEF Prepare
  <2>2. marker \in {"absent", "torn", "whole"}
    BY DEF WInv, TypeOK
  <2>3. Preserve(p) => UNCHANGED <<registry, history, pin, plan>>
    BY <2>2 DEF Preserve, Refuse, Proceed, files
  <2>4. UNCHANGED <<registry, history, pin, plan>>
    BY <1>9, <2>1, <2>3 DEF Admit, TakeLease, Recheck, Compare, WriteMarker,
       Reverify, Reread, Publish, Interrupt, Refuse, Proceed, files
  <2> QED
    BY <2>4, <1>s
<1>10. CASE UNCHANGED vars
  BY <1>10, <1>s DEF vars, files
<1> QED
  BY <1>1, <1>2, <1>3, <1>4, <1>5, <1>6, <1>7, <1>8, <1>9, <1>10
     DEF Next, ClerkStep, ApplyStep, MoverStep, OwnerStep

\* The writers implement the ledger.
THEOREM WritersImplementLedger ==
    ASSUME ~ Overlap, QuietOwner
    PROVE  Spec => RefinesLedger
<1>1. Init => Ledger!Init
  <2>1. Init => Reads = {}
    BY DEF Init, Reads
  <2> QED
    BY <2>1 DEF Init, Ledger!Init, Reads
<1>2. WInv /\ [Next]_vars => [Ledger!Next]_(Ledger!vars)
  BY StepRefines
<1> QED
  BY <1>1, <1>2, WritersInvariant, PTL DEF Spec, RefinesLedger, Ledger!Spec

----------------------------------------------------------------------------
(***************************************************************************)
(* Sessions and revocations.                                               *)
(***************************************************************************)

\* A session pins a generation that has been reached.
PinsReached ==
    \A s \in Session : pin[s] # NoView => registry # Absent /\ Reached(registry, pin[s])

\* The file only moves forward.
Onward == registry # Absent => registry' # Absent /\ Advances(registry, registry')

\* Every step moves the file forward.
LEMMA StepOnward ==
    ASSUME ~ Overlap, QuietOwner, WInv, [Next]_vars
    PROVE  Onward
<1>0. registry # Absent => registry \in Registry /\ Consistent(registry)
  BY DEF WInv, TypeOK, Documents
<1>s. ASSUME registry' = registry
      PROVE  Onward
  BY <1>0, <1>s, AdvancesReflexive DEF Onward
<1>1. ASSUME NEW p \in Clerk, Replace(p)
      PROVE  Onward
  <2>1. plan[p] # NoPlan /\ registry = plan[p].before /\ registry' = plan[p].after
    BY <1>1 DEF Replace, WInv, Holding, Fresh
  <2>2. registry' \in Registry /\ Advances(Document(registry), registry')
    BY <2>1, PlanAdvances
  <2> QED
    BY <2>2, RegistryAssumption DEF Onward, Document
<1>2. ASSUME NEW m \in Mover, ReplaceBindings(m)
      PROVE  Onward
  <2>1. registry = loaded[m] /\ registry # Absent
    BY <1>2 DEF ReplaceBindings, WInv, Loaded, Active, Fresh
  <2>2. PICK q \in Place : registry' = [registry EXCEPT !.vault = q]
    BY <1>2, <2>1 DEF ReplaceBindings
  <2>3. /\ registry' \in Registry /\ registry'.views = registry.views
        /\ registry'.epoch = registry.epoch /\ registry'.root = registry.root
        /\ registry'.revoked = registry.revoked
    BY <1>0, <2>1, <2>2 DEF Registry
  <2> QED
    BY <1>0, <2>1, <2>3, SameViews, RegistryAssumption DEF Onward
<1>3. ASSUME NEW s \in Session, Revoke(s)
      PROVE  Onward
  <2>1. registry # Absent /\ registry' = [registry EXCEPT !.revoked = registry.revoked \cup {s}]
    BY <1>3 DEF Revoke
  <2>2. /\ registry' \in Registry /\ registry'.views = registry.views
        /\ registry'.epoch = registry.epoch /\ registry'.root = registry.root
        /\ registry'.revoked = registry.revoked \cup {s}
    BY <1>0, <2>1 DEF Registry
  <2> QED
    BY <1>0, <2>1, <2>2, SameViews, RegistryAssumption DEF Onward
<1>4. ASSUME NEW p \in Clerk, ClerkStep(p), ~ Replace(p)
      PROVE  registry' = registry
  <2>1. Prepare(p) \in {"stale", "unchanged", "changes"}
    BY DEF Prepare
  <2>2. marker \in {"absent", "torn", "whole"}
    BY DEF WInv, TypeOK
  <2>3. Preserve(p) => registry' = registry
    BY <2>2 DEF Preserve, Refuse, Proceed, files
  <2> QED
    BY <1>4, <2>1, <2>3 DEF ClerkStep, ApplyStep, Preview, Admit, TakeLease, Recheck, Compare,
       WriteMarker, WriteSnapshot, Reverify, Reread, Publish, Interrupt, Refuse, Proceed, files
<1>5. ASSUME NEW m \in Mover, PlanMove(m) \/ VerifyMove(m)
      PROVE  registry' = registry
  BY <1>5 DEF PlanMove, VerifyMove, files
<1>6. ASSUME OwnerStep, \A s \in Session : ~ Revoke(s)
      PROVE  registry' = registry
  BY <1>6 DEF OwnerStep, MakeSession, EditGarden
<1>7. CASE UNCHANGED vars
  BY <1>7, <1>s DEF vars, files
<1> QED
  BY <1>s, <1>1, <1>2, <1>3, <1>4, <1>5, <1>6, <1>7 DEF Next, MoverStep

\* Only making a session changes a pin.
LEMMA OtherPins ==
    ASSUME WInv, [Next]_vars, \A s \in Session : ~ MakeSession(s)
    PROVE  pin' = pin
<1>1. ASSUME NEW p \in Clerk, ClerkStep(p)
      PROVE  pin' = pin
  <2>1. Prepare(p) \in {"stale", "unchanged", "changes"}
    BY DEF Prepare
  <2>2. marker \in {"absent", "torn", "whole"}
    BY DEF WInv, TypeOK
  <2>3. Preserve(p) => pin' = pin
    BY <2>2 DEF Preserve, Refuse, Proceed, files
  <2> QED
    BY <1>1, <2>1, <2>3 DEF ClerkStep, ApplyStep, Preview, Admit, TakeLease, Recheck, Compare,
       WriteMarker, WriteSnapshot, Reverify, Reread, Replace, Publish, Interrupt, Refuse,
       Proceed, files
<1>2. ASSUME NEW m \in Mover, MoverStep(m)
      PROVE  pin' = pin
  BY <1>2 DEF MoverStep, PlanMove, VerifyMove, ReplaceBindings, files
<1>3. OwnerStep => pin' = pin
  BY DEF OwnerStep, Revoke, EditGarden
<1>4. CASE UNCHANGED vars
  BY <1>4 DEF vars, files
<1> QED
  BY <1>1, <1>2, <1>3, <1>4 DEF Next

\* Pins stay, and what is pinned has been reached.
LEMMA PinStep ==
    ASSUME ~ Overlap, QuietOwner, WInv, WInv', PinsReached, [Next]_vars
    PROVE  PinsReached' /\ \A s \in Session : pin[s] # NoView => pin'[s] = pin[s]
<1>0. pin \in [Session -> Pin \cup {NoView}] /\ Onward
  BY StepOnward DEF WInv, TypeOK
<1>1. CASE pin' = pin
  <2>1. ASSUME NEW s \in Session, pin[s] # NoView
        PROVE  registry' # Absent /\ Reached(registry', pin[s])
    <3>1. registry # Absent /\ Reached(registry, pin[s]) /\ pin[s] \in Pin
      BY <2>1, <1>0 DEF PinsReached
    <3>2. registry' # Absent /\ Advances(registry, registry')
      BY <3>1, <1>0 DEF Onward
    <3>3. registry \in Registry /\ registry' \in Registry
      BY <3>1, <3>2 DEF WInv, TypeOK
    <3> QED
      BY <3>1, <3>2, <3>3, ReachedForward
  <2> QED
    BY <1>1, <2>1 DEF PinsReached
<1>2. ASSUME NEW s \in Session, MakeSession(s)
      PROVE  PinsReached' /\ \A t \in Session : pin[t] # NoView => pin'[t] = pin[t]
  <2>1. PICK v \in Named(registry) :
            pin' = [pin EXCEPT ![s] = [view |-> v, selection |-> registry.views[v]]]
    BY <1>2 DEF MakeSession
  <2>2. /\ registry # Absent /\ registry' = registry /\ pin[s] = NoView
    BY <1>2 DEF MakeSession
  <2>3. registry \in Registry /\ Consistent(registry) /\ v \in View /\ registry.views[v] # NoView
    BY <2>1, <2>2 DEF WInv, TypeOK, Documents, Named
  <2>4. Reached(registry, [view |-> v, selection |-> registry.views[v]])
    BY <2>3, Parts DEF Consistent, Reached
  <2>5. \A t \in Session : pin'[t] = IF t = s THEN [view |-> v, selection |-> registry.views[v]]
                                             ELSE pin[t]
    BY <2>1, <1>0
  <2> QED
    BY <2>2, <2>4, <2>5 DEF PinsReached
<1> QED
  BY <1>1, <1>2, OtherPins

\* A session that has stopped being valid never becomes valid again.
THEOREM RegistrySessionsStayStale ==
    ASSUME ~ Overlap, QuietOwner
    PROVE  Spec => NoRevival
<1>1. Init => PinsReached
  BY DEF Init, PinsReached
<1>2. WInv /\ WInv' /\ PinsReached /\ [Next]_vars => PinsReached'
  BY PinStep
<1>3. WInv /\ WInv' /\ PinsReached /\ [Next]_vars
        => [\A s \in Session : pin[s] # NoView /\ ~ Live(s) => ~ Live(s)']_vars
  <2> SUFFICES ASSUME WInv, WInv', PinsReached, [Next]_vars,
                      NEW s \in Session, pin[s] # NoView, ~ Live(s)
               PROVE  ~ Live(s)'
    OBVIOUS
  <2>1. pin[s] \in Pin /\ registry # Absent /\ Reached(registry, pin[s])
    BY DEF WInv, TypeOK, PinsReached
  <2>2. pin'[s] = pin[s] /\ registry' # Absent /\ Advances(registry, registry')
    BY <2>1, PinStep, StepOnward DEF Onward
  <2>3. registry \in Registry /\ registry' \in Registry /\ Consistent(registry)
    BY <2>1, <2>2 DEF WInv, TypeOK, Documents
  <2>4. ~ Authorized(registry, s, pin[s])
    BY <2>1 DEF Live
  <2>5. ~ Authorized(registry', s, pin[s])
    BY <2>1, <2>2, <2>3, <2>4, StaleForward
  <2> QED
    BY <2>2, <2>5 DEF Live
<1> QED
  BY <1>1, <1>2, <1>3, WritersInvariant, PTL DEF Spec, NoRevival

\* What the owner has revoked stays revoked.
THEOREM RegistryRevocationsStay ==
    ASSUME ~ Overlap, QuietOwner
    PROVE  Spec => RevocationsKept
<1>1. WInv /\ [Next]_vars
        => [registry # Absent =>
              registry' # Absent /\ registry.revoked \subseteq registry'.revoked]_vars
  BY StepOnward DEF Onward, Advances
<1> QED
  BY <1>1, WritersInvariant, PTL DEF Spec, RevocationsKept

----------------------------------------------------------------------------
(***************************************************************************)
(* What stays possible: unregistering, and restoring.                      *)
(***************************************************************************)

\* How a step changes the file, the history, the plans and what relocations
\* have read.
FileChange ==
    \/ registry' = registry
    \/ \E p \in Clerk : plan[p] # NoPlan /\ registry' = plan[p].after
    \/ \E m \in Mover : \E q \in Place :
           loaded[m] # Absent /\ registry' = [loaded[m] EXCEPT !.vault = q]
    \/ \E s \in Session : registry # Absent
           /\ registry' = [registry EXCEPT !.revoked = registry.revoked \cup {s}]

HistoryChange ==
    \/ history' = history
    \/ \E p \in Clerk : /\ plan[p] # NoPlan /\ plan[p].before # Absent
                        /\ history' = history \cup {plan[p].before}

PlanChange ==
    \/ plan' = plan
    \/ /\ registry' = registry
       /\ \A p \in Clerk : plan'[p] # NoPlan => plan'[p] = plan[p] \/ plan'[p].before = registry

LoadedChange == \A m \in Mover : loaded'[m] \in {loaded[m], registry, Absent}

DocumentChange == FileChange /\ HistoryChange /\ PlanChange /\ LoadedChange

\* A step of a clerk changes documents in one of these ways.
LEMMA ClerkChange ==
    ASSUME WInv, NEW p \in Clerk, ClerkStep(p)
    PROVE  DocumentChange
<1> USE DEF WInv
<1>0. /\ Prepare(p) \in {"stale", "unchanged", "changes"}
      /\ marker \in {"absent", "torn", "whole"}
  BY DEF Prepare, TypeOK
<1>1. CASE Preview(p)
  <2>1. PICK req \in Request(history) : plan' = [plan EXCEPT ![p] = PlanFor(registry, req)]
    BY <1>1 DEF Preview
  <2>2. \A q \in Clerk : plan'[q] = IF q = p THEN PlanFor(registry, req) ELSE plan[q]
    BY <2>1 DEF TypeOK
  <2>3. PlanFor(registry, req).before = registry
    BY DEF PlanFor
  <2>4. UNCHANGED <<registry, history, loaded>>
    BY <1>1 DEF Preview, files
  <2> QED
    BY <2>2, <2>3, <2>4
       DEF DocumentChange, FileChange, HistoryChange, PlanChange, LoadedChange
<1>2. CASE WriteSnapshot(p)
  <2>1. plan[p] # NoPlan /\ plan[p].before # Absent
    BY <1>2 DEF WriteSnapshot, Holding, KeptFirst
  <2> QED
    BY <1>2, <2>1
       DEF WriteSnapshot, DocumentChange, FileChange, HistoryChange, PlanChange, LoadedChange
<1>3. CASE Replace(p)
  <2>1. plan[p] # NoPlan
    BY <1>3 DEF Replace, Holding
  <2> QED
    BY <1>3, <2>1
       DEF Replace, DocumentChange, FileChange, HistoryChange, PlanChange, LoadedChange
<1>4. ASSUME ~ Preview(p), ~ WriteSnapshot(p), ~ Replace(p)
      PROVE  UNCHANGED <<registry, history, plan, loaded>>
  <2>1. Preserve(p) => UNCHANGED <<registry, history, plan, loaded>>
    BY <1>0 DEF Preserve, Refuse, Proceed, files
  <2> QED
    BY <1>0, <1>4, <2>1 DEF ClerkStep, ApplyStep, Admit, TakeLease, Recheck, Compare,
       WriteMarker, Reverify, Reread, Publish, Interrupt, Refuse, Proceed, files
<1> QED
  BY <1>1, <1>2, <1>3, <1>4
     DEF DocumentChange, FileChange, HistoryChange, PlanChange, LoadedChange

\* So does every step.
LEMMA StepChange ==
    ASSUME WInv, [Next]_vars
    PROVE  DocumentChange
<1> USE DEF WInv
<1>1. ASSUME NEW m \in Mover, MoverStep(m)
      PROVE  DocumentChange
  <2>0. loaded \in [Mover -> Registry \cup {Absent}]
    BY DEF TypeOK
  <2>1. UNCHANGED <<history, plan>>
    BY <1>1 DEF MoverStep, PlanMove, VerifyMove, ReplaceBindings, files
  <2>2. LoadedChange
    BY <1>1, <2>0 DEF MoverStep, PlanMove, VerifyMove, ReplaceBindings, LoadedChange
  <2>3. FileChange
    <3>1. CASE ReplaceBindings(m)
      <4>1. loaded[m] # Absent
        BY <3>1 DEF ReplaceBindings, Loaded, Active
      <4> QED
        BY <3>1, <4>1 DEF ReplaceBindings, FileChange
    <3>2. CASE ~ ReplaceBindings(m)
      BY <1>1, <3>2 DEF MoverStep, PlanMove, VerifyMove, FileChange, files
    <3> QED
      BY <3>1, <3>2
  <2> QED
    BY <2>1, <2>2, <2>3 DEF DocumentChange, HistoryChange, PlanChange
<1>2. CASE OwnerStep
  <2>1. UNCHANGED <<history, plan, loaded>>
    BY <1>2 DEF OwnerStep, Revoke, MakeSession, EditGarden
  <2>2. FileChange
    BY <1>2 DEF OwnerStep, Revoke, MakeSession, EditGarden, FileChange
  <2> QED
    BY <2>1, <2>2 DEF DocumentChange, HistoryChange, PlanChange, LoadedChange
<1>3. CASE UNCHANGED vars
  BY <1>3 DEF vars, files, DocumentChange, FileChange, HistoryChange, PlanChange, LoadedChange
<1> QED
  BY <1>1, <1>2, <1>3, ClerkChange DEF Next

\* Every document is within the budgets, and valid once it is managed.
Editable ==
    /\ registry # Absent => Acceptable(registry)
    /\ \A d \in history : WithinBudgets(d)
    /\ \A p \in Clerk : plan[p] # NoPlan => WithinBudgets(Document(plan[p].before))
    /\ \A m \in Mover : loaded[m] # Absent => Acceptable(loaded[m])

\* Bindings written by hand are within the budgets.
LEMMA EditableStart ==
    ASSUME Init
    PROVE  Editable
<1>1. ASSUME NEW d \in Handwritten
      PROVE  Acceptable(d)
  <2>1. /\ ~ d.managed /\ d.views = NoSelections /\ d.epoch = NoEpochs
        /\ Cardinality(Bound(d)) <= MaxGardens
    BY WritersAssumption
  <2>2. Named(d) = {} /\ Marked(d) = {}
    BY <2>1 DEF Named, Marked, NoSelections, NoEpochs
  <2> QED
    BY <2>1, <2>2, FS_EmptySet, RegistryAssumption DEF Acceptable, WithinBudgets
<1> QED
  BY <1>1 DEF Init, Editable

\* What a step puts in place, keeps, plans for or reads is a result that was
\* valid, or a sound document with another vault or more revocations.
LEMMA EditableStep ==
    ASSUME WInv, Editable, [Next]_vars
    PROVE  Editable'
<1> USE DEF Editable
<1>0. DocumentChange
  BY StepChange
<1>1. registry' # Absent => Acceptable(registry')
  <2>1. ASSUME NEW p \in Clerk, plan[p] # NoPlan
        PROVE  Acceptable(plan[p].after)
    <3>1. Valid(plan[p].after)
      BY <2>1 DEF WInv, PlansMade, Made, Buildable
    <3> QED
      BY <3>1 DEF Acceptable, Valid, WithinBudgets
  <2>2. ASSUME NEW m \in Mover, NEW q \in Place, loaded[m] # Absent
        PROVE  Acceptable([loaded[m] EXCEPT !.vault = q])
    <3>1. loaded[m] \in Registry
      BY <2>2 DEF WInv, TypeOK
    <3>2. LET new == [loaded[m] EXCEPT !.vault = q]
          IN  /\ new.managed = loaded[m].managed /\ new.root = loaded[m].root
              /\ new.label = loaded[m].label /\ new.views = loaded[m].views
              /\ new.epoch = loaded[m].epoch
      BY <3>1 DEF Registry
    <3> QED
      BY <2>2, <3>2, SameAcceptable
  <2>3. ASSUME NEW s \in Session, registry # Absent
        PROVE  Acceptable([registry EXCEPT !.revoked = registry.revoked \cup {s}])
    <3>1. registry \in Registry
      BY <2>3 DEF WInv, TypeOK
    <3>2. LET new == [registry EXCEPT !.revoked = registry.revoked \cup {s}]
          IN  /\ new.managed = registry.managed /\ new.root = registry.root
              /\ new.label = registry.label /\ new.views = registry.views
              /\ new.epoch = registry.epoch
      BY <3>1 DEF Registry
    <3> QED
      BY <2>3, <3>2, SameAcceptable
  <2> QED
    BY <1>0, <2>1, <2>2, <2>3 DEF DocumentChange, FileChange
<1>2. \A d \in history' : WithinBudgets(d)
  BY <1>0 DEF DocumentChange, HistoryChange, Document
<1>3. WithinBudgets(Document(registry))
  BY EmptyIsAcceptable DEF Document, Acceptable
<1>4. \A p \in Clerk : plan'[p] # NoPlan => WithinBudgets(Document(plan'[p].before))
  BY <1>0, <1>3 DEF DocumentChange, PlanChange
<1>5. \A m \in Mover : loaded'[m] # Absent => Acceptable(loaded'[m])
  BY <1>0 DEF DocumentChange, LoadedChange
<1> QED
  BY <1>1, <1>2, <1>4, <1>5

\* Whatever was planned, applied, relocated, interrupted or revoked, any garden
\* can be unregistered.
THEOREM GardensStayUnregisterable ==
    Spec => []AlwaysUnregisterable
<1>1. Init => Editable
  BY EditableStart
<1>2. WInv /\ Editable /\ [Next]_vars => Editable'
  BY EditableStep
<1>3. WInv /\ Editable => AlwaysUnregisterable
  <2> SUFFICES ASSUME WInv, Editable, registry # Absent, registry.managed, NEW g \in Garden
               PROVE  Buildable(registry, [op |-> "unregister", garden |-> g], disk)
    BY DEF AlwaysUnregisterable
  <2> DEFINE req == [op |-> "unregister", garden |-> g]
  <2>1. registry \in Registry /\ Consistent(registry) /\ Valid(registry)
    BY DEF WInv, TypeOK, Documents, Editable, Acceptable
  <2>2. req.op = "unregister" /\ req.garden = g
    OBVIOUS
  <2> HIDE DEF req
  <2>3. After(registry, req, disk) = Unregistered(registry, g)
    BY <2>2 DEF After
  <2>4. Accepts(registry, req, disk)
    BY <2>1, <2>2 DEF Accepts
  <2>5. Buildable(registry, req, disk)
    BY <2>1, <2>3, <2>4, UnregisteredValid DEF Buildable
  <2> QED
    BY <2>5 DEF req
<1> QED
  BY <1>1, <1>2, <1>3, WritersInvariant, PTL DEF Spec

\* The views that have been given a generation keep one, in the file.
MarksReached ==
    /\ \A d \in history : Marked(d) \subseteq Marked(Document(registry))
    /\ \A p \in Clerk : plan[p] # NoPlan =>
           Marked(Document(plan[p].before)) \subseteq Marked(Document(registry))

\* The file moves forward, and its marks with it.
LEMMA MarksStep ==
    ASSUME ~ Overlap, QuietOwner, WInv, WInv', MarksReached, [Next]_vars
    PROVE  MarksReached'
<1> USE DEF MarksReached
<1>0. DocumentChange /\ Onward
  BY StepChange, StepOnward
<1>1. Marked(Document(registry)) \subseteq Marked(Document(registry'))
  <2>1. CASE registry = Absent
    BY <2>1 DEF Marked, Document, EmptyBindings, NoEpochs
  <2>2. CASE registry # Absent
    <3>1. registry' # Absent /\ Advances(registry, registry')
      BY <1>0, <2>2 DEF Onward
    <3>2. registry \in Registry /\ registry' \in Registry
      BY <2>2, <3>1 DEF WInv, TypeOK
    <3>3. \A v \in View : /\ registry.epoch[v] \in Nat /\ registry'.epoch[v] \in Nat
                          /\ registry.epoch[v] <= registry'.epoch[v]
      BY <3>1, <3>2, Parts DEF Advances
    <3> QED
      BY <2>2, <3>1, <3>3 DEF Marked, Document
  <2> QED
    BY <2>1, <2>2
<1>2. \A d \in history' : Marked(d) \subseteq Marked(Document(registry'))
  BY <1>0, <1>1 DEF DocumentChange, HistoryChange, Document
<1>3. \A p \in Clerk : plan'[p] # NoPlan =>
          Marked(Document(plan'[p].before)) \subseteq Marked(Document(registry'))
  BY <1>0, <1>1 DEF DocumentChange, PlanChange
<1> QED
  BY <1>2, <1>3 DEF Document

\* Every snapshot can be restored over whatever came later.
THEOREM SnapshotsStayRestorable ==
    ASSUME ~ Overlap, QuietOwner
    PROVE  Spec => []SnapshotsRestorable
<1>1. Init => Editable /\ MarksReached
  BY EditableStart DEF Init, MarksReached
<1>2. WInv /\ WInv' /\ Editable /\ MarksReached /\ [Next]_vars => Editable' /\ MarksReached'
  BY EditableStep, MarksStep
<1>3. WInv /\ Editable /\ MarksReached => SnapshotsRestorable
  <2> SUFFICES ASSUME WInv, Editable, MarksReached, NEW snap \in history, AllHeld(snap, disk)
               PROVE  Buildable(Document(registry), [op |-> "restore", snapshot |-> snap], disk)
    BY DEF SnapshotsRestorable
  <2> DEFINE req == [op |-> "restore", snapshot |-> snap]
             doc == Document(registry)
  <2>1. snap \in Registry /\ Consistent(snap) /\ WithinBudgets(snap) /\ disk \in Disk
    BY DEF WInv, TypeOK, Documents, Editable
  <2>2. doc \in Registry /\ Marked(snap) \subseteq Marked(doc)
    BY DocumentType DEF WInv, TypeOK, Documents, MarksReached
  <2>3. WithinBudgets(doc)
    BY EmptyIsAcceptable DEF Document, Editable, Acceptable
  <2>4. req.op = "restore" /\ req.snapshot = snap
    OBVIOUS
  <2> HIDE DEF req, doc
  <2>5. After(doc, req, disk) = Restored(doc, snap, disk)
    BY <2>4 DEF After
  <2>6. Accepts(doc, req, disk)
    BY <2>4 DEF Accepts
  <2>7. Buildable(doc, req, disk)
    BY <2>1, <2>2, <2>3, <2>5, <2>6, RestoredValid DEF Buildable
  <2> QED
    BY <2>7 DEF req, doc
<1> QED
  BY <1>1, <1>2, <1>3, WritersInvariant, PTL DEF Spec

=============================================================================

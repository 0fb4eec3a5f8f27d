--------------------------- MODULE Routers_proofs ---------------------------
(***************************************************************************)
(* What is routed to a public garden names nothing private, for any number *)
(* of gardens, requests, catalogs, transitions and invocations, in any     *)
(* order.  A plan is made under the bindings it has read and is applied    *)
(* under the same ones; a note is placed in a public garden only when all  *)
(* that it was made from is public, because the join of its restrictions   *)
(* must not be more than the garden's own scope.                           *)
(*                                                                         *)
(* And a unit has one home.  What is there is sound: all that names a home *)
(* of a unit leads to one note.  A placement gives a unit the home that it *)
(* has already, or that nothing else is; a transition gives it a new one   *)
(* only when it retires the old one in favour of that.  Transitions lead   *)
(* from revision to revision, consistency is about places: the two walks   *)
(* are taken side by side, so that the first one ends where the second     *)
(* does, at a note that stands.                                            *)
(***************************************************************************)
EXTENDS Routers, FiniteSetTheorems, WellFoundedInduction, TLAPS

PublicScope(s) == s.visibility = "public"

(***************************************************************************)
(* The policy.                                                             *)
(***************************************************************************)

\* A join is public exactly when everything that is joined is.
LEMMA PublicJoin ==
    ASSUME NEW scopes
    PROVE  PublicScope(Inherit(scopes)) <=> \A s \in scopes : PublicScope(s)
<1> DEFINE labels == {s.visibility : s \in scopes}
           private == labels \ {"public"}
           class == Classification(labels)
<1>1. class = "public" <=> private = {}
  <2>1. CASE private = {}
    BY <2>1 DEF Classification
  <2>2. CASE private # {} /\ \E v \in private : private = {v}
    <3>1. class = CHOOSE v \in private : private = {v}
      BY <2>2 DEF Classification
    <3>2. class \in private
      BY <2>2, <3>1
    <3> QED
      BY <2>2, <3>2
  <2>3. CASE private # {} /\ ~ \E v \in private : private = {v}
    BY <2>3 DEF Classification
  <2> QED
    BY <2>1, <2>2, <2>3
<1>2. private = {} <=> \A s \in scopes : PublicScope(s)
  BY DEF PublicScope
<1> HIDE DEF class, private, labels
<1>3. Inherit(scopes).visibility = IF class = "restricted" THEN "restricted" ELSE class
  BY DEF Inherit, Restricted, class, labels
<1> QED
  BY <1>1, <1>2, <1>3 DEF PublicScope

\* A record is public when its garden and its own scope are.
LEMMA PublicRecord ==
    ASSUME NEW own, NEW home
    PROVE  PublicScope(RecordScope(own, "none", home))
               <=> own # NoScope /\ PublicScope(own) /\ PublicScope(home)
<1>1. CASE own # NoScope
  <2>1. RecordScope(own, "none", home) = Inherit({home, own})
    BY <1>1 DEF RecordScope
  <2> QED
    BY <1>1, <2>1, PublicJoin
<1>2. CASE own = NoScope
  <2>1. LegacyVisibility(home.visibility) \in {"public", "internal", "private"}
    BY DEF LegacyVisibility
  <2>2. RecordScope(own, "none", home) = NoScope
    BY <1>2, <2>1 DEF RecordScope
  <2> QED
    BY <1>2, <2>2 DEF NoScope, PublicScope
<1> QED
  BY <1>1, <1>2

(***************************************************************************)
(* The files of a plan.                                                    *)
(***************************************************************************)

\* Every record is in the garden that it says.
Situated(W) == \A g \in DOMAIN W.bind : \A r \in W.garden[g] : r.garden = g

\* What a public garden may hold.
Fits(r, b) == Decent(r, b) /\ (r.scope = NoScope \/ PublicScope(r.scope))

\* A file goes to a bound garden, and fits it when that is public.
Files(files, b) ==
    \A r \in files : r.garden \in DOMAIN b /\ (r.garden \in PublicIn(b) => Fits(r, b))

\* What a reference leads to is in a bound garden.
LEMMA RecordFound ==
    ASSUME NEW W, Situated(W), NEW ref, Exists(W, ref)
    PROVE  /\ Record(W, ref) \in All(W) /\ RefTo(Record(W, ref)) = ref
           /\ ref.garden = Record(W, ref).garden
           /\ ref.garden \in DOMAIN W.bind /\ Record(W, ref) \in W.garden[ref.garden]
<1>1. Record(W, ref) \in All(W) /\ RefTo(Record(W, ref)) = ref
  BY DEF Record, Exists
<1>2. ref.garden = Record(W, ref).garden
  BY <1>1 DEF RefTo, Ref
<1> QED
  BY <1>1, <1>2 DEF All, Situated

\* A home accepts what is placed there.
LEMMA HomeAccepts ==
    ASSUME NEW W, NEW C, NEW q, NEW c, Home(W, C, q, c) # Nowhere
    PROVE  AcceptsHome(W, C, q, c, Home(W, C, q, c))
<1> DEFINE accepted == {g \in q.routes[c.id].preferred : AcceptsHome(W, C, q, c, g)}
<1>1. CASE Cardinality(accepted) = 1
  <2>1. accepted # {}
    BY <1>1, FS_EmptySet
  <2>2. Home(W, C, q, c) = CHOOSE g \in accepted : TRUE
    BY <1>1 DEF Home
  <2> QED
    BY <2>1, <2>2
<1>2. CASE Cardinality(accepted) # 1
  BY <1>2 DEF Home
<1> QED
  BY <1>1, <1>2

\* The catalog says the scope that the bindings say.
LEMMA Described ==
    ASSUME NEW W, NEW C, Describes(W, C), NEW g \in DOMAIN C.entries
    PROVE  g \in DOMAIN W.bind /\ C.entries[g].scope = W.bind[g]
<1>1. /\ g \in DOMAIN W.bind
      /\ C.entries[g] = [scope |-> W.bind[g], domains |-> Manifest[g].domains,
                         contracts |-> Manifest[g].contracts]
  BY DEF Describes
<1>2. C.entries[g].scope = W.bind[g]
  BY <1>1
<1> QED
  BY <1>1, <1>2

\* What is known of a candidate that is placed.
LEMMA PlacedParts ==
    ASSUME NEW W, NEW C, NEW q, Situated(W), Routable(W, C, q), NEW x \in Placed(W, C, q)
    PROVE  /\ AcceptsHome(W, C, q, x.c, x.home)
           /\ x.home \in DOMAIN C.entries /\ x.home \in DOMAIN W.bind
           /\ C.entries[x.home].scope = W.bind[x.home]
           /\ \A ref \in Evidence(x.c) : Exists(W, ref)
<1>1. PICK c \in q.candidates : /\ c.output.approved
                                /\ x = [c |-> c, home |-> Home(W, C, q, c)]
                                /\ Home(W, C, q, c) # Nowhere
  BY DEF Placed
<1>2. AcceptsHome(W, C, q, x.c, x.home)
  BY <1>1, HomeAccepts
<1>3. x.home \in DOMAIN C.entries
  BY <1>2 DEF AcceptsHome, Accepts
<1>4. x.home \in DOMAIN W.bind /\ C.entries[x.home].scope = W.bind[x.home]
  BY <1>3, Described DEF Routable
<1>5. \A ref \in Evidence(x.c) : Exists(W, ref)
  BY <1>1 DEF Routable
<1> QED
  BY <1>2, <1>3, <1>4, <1>5

\* Restrictions that are public come from evidence in public gardens.
LEMMA PublicEvidence ==
    ASSUME NEW W, Situated(W), NEW c, \A ref \in Evidence(c) : Exists(W, ref),
           \A s \in Restrictions(W, c) : PublicScope(s)
    PROVE  \A ref \in Evidence(c) : ref.garden \in PublicIn(W.bind)
<1> TAKE ref \in Evidence(c)
<1>1. ref.garden = Record(W, ref).garden /\ ref.garden \in DOMAIN W.bind
  BY RecordFound
<1>2. PublicScope(ScopeIn(W, Record(W, ref)))
  BY DEF Restrictions
<1>3. PublicScope(W.bind[ref.garden])
  BY <1>1, <1>2, PublicRecord DEF ScopeIn
<1> QED
  BY <1>1, <1>3 DEF PublicIn, PublicScope

\* A record without decisions names what it is made from, and its home.
LEMMA NoDecisions ==
    ASSUME NEW r, NEW gardens, r.decisions = {},
           \A ref \in r.inputs : ref.garden \in gardens, r.home.garden \in gardens
    PROVE  Names(r) \subseteq gardens
<1>1. {d.home.garden : d \in r.decisions} = {}
  OBVIOUS
<1>2. {{ref.garden : ref \in d.references} : d \in r.decisions} = {}
  OBVIOUS
<1>3. {ref.garden : ref \in r.inputs} \subseteq gardens
  OBVIOUS
<1> QED
  BY <1>1, <1>2, <1>3 DEF Names

\* In a public garden a unit does not have the name of a request.
LEMMA PortableName ==
    ASSUME NEW C, NEW q, NEW x, IsPublic(C, x.home)
    PROVE  PortableUnit(C, q, x)[1] = "public-selection"
<1>1. PortableUnit(C, q, x) = <<"public-selection", x.home, x.c.output, Evidence(x.c)>>
  BY DEF PortableUnit
<1>2. \A a, b, c, d : <<a, b, c, d>>[1] = a
  OBVIOUS
<1> QED
  BY <1>1, <1>2

\* A note that is placed fits its home.
LEMMA KnowledgeFits ==
    ASSUME NEW W, NEW C, NEW q, Situated(W), Routable(W, C, q), NEW x \in Placed(W, C, q)
    PROVE  Files({Knowledge(W, C, q, x)}, W.bind)
<1> DEFINE r == Knowledge(W, C, q, x)
<1>1. /\ r.garden = x.home /\ r.inputs = Evidence(x.c) /\ r.decisions = {}
      /\ r.home = HomeRef(x) /\ r.scope = KnowledgeScope(W, x)
      /\ r.unit = PortableUnit(C, q, x)
      /\ r.by = IF IsPublic(C, x.home) THEN "" ELSE q.digest
  BY DEF Knowledge, Blank
<1> HIDE DEF r
<1>2. /\ AcceptsHome(W, C, q, x.c, x.home)
      /\ x.home \in DOMAIN W.bind /\ C.entries[x.home].scope = W.bind[x.home]
      /\ \A ref \in Evidence(x.c) : Exists(W, ref)
  BY PlacedParts
<1>3. ASSUME x.home \in PublicIn(W.bind)
      PROVE  Fits(r, W.bind)
  <2>1. IsPublic(C, x.home) /\ PublicScope(C.entries[x.home].scope)
    BY <1>2, <1>3 DEF IsPublic, PublicIn, PublicScope
  <2>2. Bounded(C, x.home, Restrictions(W, x.c))
    BY <1>2 DEF AcceptsHome, Accepts
  <2>3. PublicScope(Inherit({C.entries[x.home].scope} \cup Restrictions(W, x.c)))
    BY <2>1, <2>2 DEF Bounded, PublicScope
  <2>4. \A s \in Restrictions(W, x.c) : PublicScope(s)
    BY <2>3, PublicJoin
  <2>5. PublicScope(r.scope)
    BY <1>1, <1>2, <2>3 DEF KnowledgeScope
  <2>6. \A ref \in Evidence(x.c) : ref.garden \in PublicIn(W.bind)
    BY <1>2, <2>4, PublicEvidence
  <2>7. HomeRef(x).garden = x.home
    BY DEF HomeRef, Ref
  <2>8. Names(r) \subseteq PublicIn(W.bind)
    BY <1>1, <1>3, <2>6, <2>7, NoDecisions
  <2>9. r.by = "" /\ r.unit[1] = "public-selection"
    BY <1>1, <2>1, PortableName
  <2> QED
    BY <2>5, <2>8, <2>9 DEF Fits, Decent
<1>4. r.garden \in DOMAIN W.bind /\ (r.garden \in PublicIn(W.bind) => Fits(r, W.bind))
  BY <1>1, <1>2, <1>3
<1> QED
  BY <1>4 DEF Files, r

\* So do its references: a public garden has none to a note in a private one.
LEMMA ReferencesFit ==
    ASSUME NEW W, NEW C, NEW q, Situated(W), Routable(W, C, q), NEW x \in Placed(W, C, q)
    PROVE  Files(References(W, C, q, x), W.bind)
<1> SUFFICES ASSUME NEW r \in References(W, C, q, x)
             PROVE  /\ r.garden \in DOMAIN W.bind
                    /\ r.garden \in PublicIn(W.bind) => Fits(r, W.bind)
  BY DEF Files
<1>1. PICK g : /\ Accepts(W, C, q, x.c, g, BoundedBy(W, x), {"knowledge", "synapse"})
               /\ r.garden = g /\ r.inputs = {HomeRef(x)} /\ r.decisions = {}
               /\ r.home = HomeRef(x) /\ r.by = ""
               /\ r.scope = Inherit({C.entries[g].scope, KnowledgeScope(W, x)})
               /\ r.unit = PortableUnit(C, q, x)
  BY DEF References, Blank
<1>2. g \in DOMAIN W.bind /\ C.entries[g].scope = W.bind[g]
  <2>1. g \in DOMAIN C.entries /\ Describes(W, C)
    BY <1>1 DEF Accepts, Routable
  <2> QED
    BY <2>1, Described
<1>3. ASSUME g \in PublicIn(W.bind)
      PROVE  Fits(r, W.bind)
  <2>1. PublicScope(C.entries[g].scope)
    BY <1>2, <1>3 DEF PublicIn, PublicScope
  <2>2. PublicScope(Inherit({C.entries[g].scope} \cup BoundedBy(W, x)))
    BY <1>1, <2>1 DEF Accepts, Bounded, PublicScope
  <2>3. PublicScope(KnowledgeScope(W, x))
    BY <2>2, PublicJoin DEF BoundedBy
  <2>4. PublicScope(W.bind[x.home])
    BY <2>3, PublicJoin DEF KnowledgeScope
  <2>5. PublicScope(r.scope)
    <3>1. \A s \in {C.entries[g].scope, KnowledgeScope(W, x)} : PublicScope(s)
      BY <2>1, <2>3
    <3>2. PublicScope(Inherit({C.entries[g].scope, KnowledgeScope(W, x)}))
      BY <3>1, PublicJoin
    <3> QED
      BY <1>1, <3>2
  <2>6. x.home \in PublicIn(W.bind) /\ IsPublic(C, x.home)
    BY <2>4, PlacedParts DEF PublicIn, PublicScope, IsPublic
  <2>7. HomeRef(x).garden = x.home
    BY DEF HomeRef, Ref
  <2>8. Names(r) \subseteq PublicIn(W.bind)
    BY <1>1, <2>6, <2>7, NoDecisions
  <2>9. r.unit[1] = "public-selection"
    BY <1>1, <2>6, PortableName
  <2> QED
    BY <1>1, <2>5, <2>8, <2>9 DEF Fits, Decent
<1> QED
  BY <1>1, <1>2, <1>3

\* No receipt is in a public garden.
LEMMA ReceiptsFit ==
    ASSUME NEW W, NEW C, NEW q, Situated(W), Routable(W, C, q)
    PROVE  Files(Receipts(W, C, q, Placed(W, C, q)), W.bind)
<1> SUFFICES ASSUME NEW r \in Receipts(W, C, q, Placed(W, C, q))
             PROVE  r.garden \in DOMAIN W.bind /\ r.garden \notin PublicIn(W.bind)
  BY DEF Files
<1>1. PICK x \in Placed(W, C, q) : r.garden = AuditHome(C, q, x)
  <2>1. PICK g \in {AuditHome(C, q, x) : x \in Placed(W, C, q)} : r.garden = g
    BY DEF Receipts, Blank
  <2> QED
    BY <2>1
<1>2. /\ AcceptsHome(W, C, q, x.c, x.home)
      /\ x.home \in DOMAIN W.bind /\ C.entries[x.home].scope = W.bind[x.home]
  BY PlacedParts
<1>3. CASE IsPublic(C, x.home)
  <2>1. /\ q.controller \in DOMAIN C.entries
        /\ C.entries[q.controller].scope.visibility = "personal"
    BY <1>2, <1>3 DEF AcceptsHome, Accepts, Publishes
  <2>2. q.controller \in DOMAIN W.bind /\ W.bind[q.controller].visibility = "personal"
    BY <2>1, Described DEF Routable
  <2> QED
    BY <1>1, <1>3, <2>2 DEF AuditHome, PublicIn
<1>4. CASE ~ IsPublic(C, x.home)
  BY <1>1, <1>2, <1>4 DEF AuditHome, PublicIn, IsPublic
<1> QED
  BY <1>3, <1>4

\* The files of a routing plan fit their gardens.
LEMMA RouteFits ==
    ASSUME NEW W, NEW C, NEW q, Situated(W), Routable(W, C, q)
    PROVE  Files(RouteFiles(W, C, q, Placed(W, C, q)), W.bind)
BY KnowledgeFits, ReferencesFit, ReceiptsFit DEF RouteFiles, Files

\* A transition is between gardens that are not public, if what public gardens
\* hold is public.
LEMMA TransitionFits ==
    ASSUME NEW W, NEW t, Situated(W), Transferable(W, t),
           \A g \in PublicIn(W.bind) : \A r \in W.garden[g] : Fits(r, W.bind)
    PROVE  Files(TransitionFiles(W, t), W.bind)
<1>1. SamePolicy(W, t) /\ t.to.garden \in DOMAIN W.bind
  BY DEF Transferable
<1>2. ASSUME NEW r \in Originals(W, t)
      PROVE  /\ r.garden \in DOMAIN W.bind /\ r.garden \notin PublicIn(W.bind)
             /\ t.to.garden \notin PublicIn(W.bind)
  <2>1. PICK ref \in t.from : r = Record(W, ref)
    BY DEF Originals
  <2>2. Exists(W, ref)
    BY DEF Transferable, Resolves
  <2>3. r.garden \in DOMAIN W.bind /\ r \in W.garden[r.garden]
    BY <2>1, <2>2, RecordFound
  <2>4. ScopeIn(W, r).visibility = "personal" /\ W.bind[r.garden] = W.bind[t.to.garden]
    BY <1>1 DEF SamePolicy
  <2>5. ASSUME r.garden \in PublicIn(W.bind)
        PROVE  FALSE
    <3>1. r.scope = NoScope \/ PublicScope(r.scope)
      BY <2>3, <2>5 DEF Fits
    <3>2. PublicScope(W.bind[r.garden])
      BY <2>5 DEF PublicIn, PublicScope
    <3>3. CASE r.scope = NoScope
      <4>1. LegacyVisibility(W.bind[r.garden].visibility) \in {"public", "internal", "private"}
        BY DEF LegacyVisibility
      <4>2. ScopeIn(W, r) = NoScope
        BY <3>3, <4>1 DEF ScopeIn, RecordScope
      <4> QED
        BY <2>4, <4>2 DEF NoScope
    <3>4. CASE r.scope # NoScope
      <4>1. PublicScope(ScopeIn(W, r))
        BY <3>1, <3>2, <3>4, PublicRecord DEF ScopeIn
      <4> QED
        BY <2>4, <4>1 DEF PublicScope
    <3> QED
      BY <3>3, <3>4
  <2> QED
    BY <1>1, <2>3, <2>4, <2>5 DEF PublicIn
<1>3. \A r \in Retirements(W, t) : \E s \in Originals(W, t) : r.garden = s.garden
  BY DEF Retirements, Blank
<1>4. ASSUME NEW r \in Originals(W, t)
      PROVE  Derivative(W, t, r).garden = t.to.garden
  <2>1. r \in All(W)
    BY RecordFound DEF Originals, Transferable, Resolves
  <2> QED
    BY <2>1 DEF Derivative
<1> QED
  BY <1>1, <1>2, <1>3, <1>4 DEF TransitionFiles, Files

(***************************************************************************)
(* The invocations.                                                        *)
(***************************************************************************)

\* Tasks are records, the bindings are among those that may be, and every
\* record is in the garden that it says.
Typed ==
    /\ task = [p \in Router |-> [pc |-> task[p].pc, plan |-> task[p].plan]]
    /\ bind \in Bindings
    /\ \A b \in Bindings : DOMAIN b \subseteq DOMAIN garden
    /\ \A g \in DOMAIN garden : \A r \in garden[g] : r.garden = g

\* What a public garden holds is public, and stays so when more is bound.
HoldsPublic ==
    \A b \in Bindings : DOMAIN bind \subseteq DOMAIN b =>
        \A g \in PublicIn(b) : \A r \in garden[g] : Fits(r, b)

\* The files of a plan fit the bindings it was made under.
PlansFit ==
    \A p \in Router : task[p].pc # "idle" =>
        /\ task[p].plan.seen.bind \in Bindings
        /\ Files(task[p].plan.files, task[p].plan.seen.bind)

RoutersInv == Typed /\ HoldsPublic /\ PlansFit

\* A record that fits fits when more is bound.
LEMMA FitsMore ==
    ASSUME NEW b \in Bindings, NEW c \in Bindings, DOMAIN b \subseteq DOMAIN c,
           NEW r, Fits(r, b)
    PROVE  Fits(r, c)
<1>1. PublicIn(b) \subseteq PublicIn(c)
  BY BindingsAssumption DEF PublicIn
<1> QED
  BY <1>1 DEF Fits, Decent

\* What the gardens hold at first fits.
LEMMA RoutersStart ==
    ASSUME Init
    PROVE  RoutersInv
<1>1. Typed
  <2>1. task = [p \in Router |-> [pc |-> task[p].pc, plan |-> task[p].plan]]
    BY DEF Init, Idle
  <2> QED
    BY <2>1, BindingsAssumption DEF Init, Typed
<1>2. HoldsPublic
  <2> SUFFICES ASSUME NEW b \in Bindings, NEW g \in PublicIn(b), NEW r \in garden[g]
               PROVE  Fits(r, b)
    BY DEF HoldsPublic
  <2>1. garden \in Gardens /\ g \in DOMAIN garden
    BY BindingsAssumption DEF Init, PublicIn
  <2> QED
    BY <2>1, BindingsAssumption DEF Fits, PublicScope
<1>3. PlansFit
  BY DEF Init, Idle, PlansFit
<1> QED
  BY <1>1, <1>2, <1>3 DEF RoutersInv

\* A plan is saved.
LEMMA PlanStep ==
    ASSUME RoutersInv, NEW p \in Router, NEW files, Files(files, bind), PlanWith(p, files)
    PROVE  RoutersInv'
<1> DEFINE new == [pc |-> "planned", plan |-> Plan(files)]
<1>1. task' = [task EXCEPT ![p] = new] /\ UNCHANGED <<garden, bind>>
  BY DEF PlanWith
<1>2. \A q \in Router : task'[q] = IF q = p THEN new ELSE task[q]
  BY <1>1 DEF RoutersInv, Typed
<1>3. task' = [q \in Router |-> [pc |-> task'[q].pc, plan |-> task'[q].plan]]
  BY <1>1 DEF RoutersInv, Typed
<1>4. Typed' /\ HoldsPublic'
  BY <1>1, <1>3 DEF RoutersInv, Typed, HoldsPublic
<1>5. Plan(files).files = files /\ Plan(files).seen.bind = bind
  BY DEF Plan, World
<1>6. PlansFit'
  BY <1>1, <1>2, <1>5 DEF RoutersInv, Typed, PlansFit
<1> QED
  BY <1>4, <1>6 DEF RoutersInv

\* The gardens that a plan is made from.
LEMMA WorldFits ==
    ASSUME RoutersInv
    PROVE  /\ Situated(World) /\ World.bind = bind
           /\ \A g \in PublicIn(World.bind) : \A r \in World.garden[g] : Fits(r, World.bind)
<1>1. World.bind = bind /\ World.garden = garden
  BY DEF World
<1> QED
  BY <1>1 DEF RoutersInv, Typed, HoldsPublic, Situated

\* A plan is applied, or stops because something has changed.
LEMMA SelectStep ==
    ASSUME RoutersInv, NEW p \in Router, Select(p)
    PROVE  RoutersInv'
<1> DEFINE plan == task[p].plan
<1>1. /\ task[p].pc = "checked" /\ task' = [task EXCEPT ![p] = Idle] /\ bind' = bind
      /\ garden' = IF Verified(plan) THEN Staged(plan) ELSE garden
  BY DEF Select, Give
<1>2. /\ \A q \in Router : task'[q] = IF q = p THEN Idle ELSE task[q]
      /\ task' = [q \in Router |-> [pc |-> task'[q].pc, plan |-> task'[q].plan]]
  BY <1>1 DEF RoutersInv, Typed, Idle
<1>3. PlansFit'
  BY <1>2 DEF RoutersInv, PlansFit, Idle
<1>4. CASE ~ Verified(plan)
  BY <1>1, <1>2, <1>3, <1>4 DEF RoutersInv, Typed, HoldsPublic
<1>5. CASE Verified(plan)
  <2>1. /\ bind = plan.seen.bind /\ Files(plan.files, bind)
        /\ DOMAIN garden' = DOMAIN garden
        /\ \A g \in DOMAIN garden : garden'[g] = garden[g] \cup FilesOf(plan, g)
    BY <1>1, <1>5 DEF Verified, Staged, RoutersInv, PlansFit
  <2>2. \A g \in DOMAIN garden' : \A r \in garden'[g] : r.garden = g
    BY <2>1 DEF FilesOf, RoutersInv, Typed
  <2>3. Typed'
    BY <1>1, <1>2, <2>1, <2>2 DEF RoutersInv, Typed
  <2>4. ASSUME NEW b \in Bindings, DOMAIN bind \subseteq DOMAIN b,
               NEW g \in PublicIn(b), NEW r \in garden'[g]
        PROVE  Fits(r, b)
    <3>1. g \in DOMAIN garden /\ bind \in Bindings
      BY <2>4 DEF PublicIn, RoutersInv, Typed
    <3>2. CASE r \in garden[g]
      BY <2>4, <3>2 DEF RoutersInv, HoldsPublic
    <3>3. CASE r \in FilesOf(plan, g)
      <4>1. r \in plan.files /\ r.garden = g
        BY <3>3 DEF FilesOf
      <4>2. g \in DOMAIN bind /\ (g \in PublicIn(bind) => Fits(r, bind))
        BY <2>1, <4>1 DEF Files
      <4>3. g \in PublicIn(bind)
        BY <2>4, <3>1, <4>2, BindingsAssumption DEF PublicIn
      <4> QED
        BY <2>4, <3>1, <4>2, <4>3, FitsMore
    <3> QED
      BY <2>1, <2>4, <3>1, <3>2, <3>3
  <2>5. HoldsPublic'
    BY <1>1, <2>4 DEF HoldsPublic
  <2> QED
    BY <1>3, <2>3, <2>5 DEF RoutersInv
<1> QED
  BY <1>4, <1>5

\* Every step keeps it so, while nothing that is bound is unbound.
LEMMA RoutersStep ==
    ASSUME "unbind" \notin Gaps, RoutersInv, [Next]_vars
    PROVE  RoutersInv'
<1>1. ASSUME NEW p \in Router, PlanRoute(p)
      PROVE  RoutersInv'
  <2>1. PICK q \in Requests, C \in Catalogs :
            /\ Routable(World, C, q)
            /\ PlanWith(p, RouteFiles(World, C, q, Placed(World, C, q)))
    BY <1>1 DEF PlanRoute
  <2>2. Files(RouteFiles(World, C, q, Placed(World, C, q)), bind)
    BY <2>1, WorldFits, RouteFits
  <2> QED
    BY <2>1, <2>2, PlanStep
<1>2. ASSUME NEW p \in Router, PlanTransition(p)
      PROVE  RoutersInv'
  <2>1. PICK t \in Transitions :
            Transferable(World, t) /\ PlanWith(p, TransitionFiles(World, t))
    BY <1>2 DEF PlanTransition
  <2>2. Files(TransitionFiles(World, t), bind)
    BY <2>1, WorldFits, TransitionFits
  <2> QED
    BY <2>1, <2>2, PlanStep
<1>3. ASSUME NEW p \in Router, Check(p)
      PROVE  RoutersInv'
  <2>1. /\ task[p].pc = "planned" /\ UNCHANGED <<garden, bind>>
        /\ \/ task' = [task EXCEPT ![p].pc = "checked"]
           \/ task' = [task EXCEPT ![p] = Idle]
    BY <1>3 DEF Check, Goto, Give
  <2>2. /\ task' = [q \in Router |-> [pc |-> task'[q].pc, plan |-> task'[q].plan]]
        /\ \A q \in Router : \/ task'[q].pc = "idle"
                             \/ task'[q].plan = task[q].plan /\ task[q].pc # "idle"
    BY <2>1 DEF RoutersInv, Typed, Idle
  <2> QED
    BY <2>1, <2>2 DEF RoutersInv, Typed, HoldsPublic, PlansFit
<1>4. ASSUME Rebind
      PROVE  RoutersInv'
  <2>1. /\ bind' \in Bindings /\ DOMAIN bind \subseteq DOMAIN bind'
        /\ UNCHANGED <<garden, task>>
    BY <1>4 DEF Rebind
  <2> QED
    BY <2>1 DEF RoutersInv, Typed, HoldsPublic, PlansFit
<1>5. CASE UNCHANGED vars
  BY <1>5 DEF vars, RoutersInv, Typed, HoldsPublic, PlansFit
<1> QED
  BY <1>1, <1>2, <1>3, <1>4, <1>5, SelectStep DEF Next

\* What a public garden holds names no private garden and no private request,
\* whoever routes and moves what, unless gardens are unbound meanwhile.
THEOREM PublicGardensNamePublic ==
    ASSUME "unbind" \notin Gaps
    PROVE  Spec => []PublicNamesPublic
<1>1. Init => RoutersInv
  BY RoutersStart
<1>2. RoutersInv /\ [Next]_vars => RoutersInv'
  BY RoutersStep
<1>3. RoutersInv => PublicNamesPublic
  BY DEF RoutersInv, Typed, HoldsPublic, PublicNamesPublic, Fits
<1> QED
  BY <1>1, <1>2, <1>3, PTL DEF Spec

(***************************************************************************)
(* Where a walk ends.                                                      *)
(***************************************************************************)

\* A non-empty set of natural numbers has a smallest member.
LEMMA Smallest ==
    ASSUME NEW T, T \subseteq Nat, T # {}
    PROVE  \E n \in T : \A m \in T : n <= m
<1> DEFINE U == {0..n : n \in T}
<1>1. U \subseteq FiniteSubsetsOf(Nat) /\ U # {}
  <2>1. ASSUME NEW n \in T
        PROVE  0..n \in FiniteSubsetsOf(Nat)
    BY FS_Interval DEF FiniteSubsetsOf
  <2> QED BY <2>1
<1>2. PICK u \in U : \A t \in U : ~ (<<t, u>> \in StrictSubsetOrdering(Nat))
  <2> HIDE DEF U
  <2> QED BY <1>1, FS_StrictSubsetOrderingWellFounded, WFMin
<1>3. PICK n \in T : u = 0..n
  OBVIOUS
<1>4. ASSUME NEW m \in T, ~ (n <= m)
      PROVE  FALSE
  <2>1. n \in Nat /\ m \in Nat /\ m < n
    BY <1>4
  <2>2. 0..m \subseteq 0..n /\ n \in 0..n /\ n \notin 0..m
    BY <2>1
  <2>3. <<0..m, 0..n>> \in StrictSubsetOrdering(Nat)
    BY <2>2 DEF StrictSubsetOrdering
  <2> QED BY <1>2, <1>3, <2>3
<1> QED BY <1>4

\* What holds at 0 and of each number after one it holds of holds of all up to k.
LEMMA Upwards ==
    ASSUME NEW P, NEW k \in Nat, 0 \in P, \A n \in 1..k : n - 1 \in P => n \in P
    PROVE  \A n \in 0..k : n \in P
<1> DEFINE Bad == {n \in 0..k : n \notin P}
<1> SUFFICES ASSUME Bad # {}
             PROVE  FALSE
  OBVIOUS
<1>1. PICK n \in Bad : \A m \in Bad : n <= m
  <2>1. Bad \subseteq Nat
    OBVIOUS
  <2> HIDE DEF Bad
  <2> QED BY <2>1, Smallest
<1>2. n \in 1..k /\ n - 1 \in 0..k /\ ~ (n <= n - 1)
  OBVIOUS
<1>3. n - 1 \notin Bad
  BY <1>1, <1>2
<1> QED BY <1>2, <1>3

\* One step of a walk, and the walk of k steps.
Onward(next, x) == IF x \in DOMAIN next THEN next[x] ELSE x

Trail(f, k, next, from) == f[0] = from /\ \A n \in 1..k : f[n] = Onward(next, f[n - 1])

LEMMA Trails ==
    ASSUME NEW next, NEW from, NEW k \in Nat
    PROVE  \E f : f = [m \in 0..k |-> f[m]] /\ Trail(f, k, next, from)
<1> DEFINE Walked(n) == \E f : f = [m \in 0..n |-> f[m]] /\ Trail(f, n, next, from)
           P == {n \in 0..k : Walked(n)}
<1>1. 0 \in P
  <2> DEFINE f == [m \in 0..0 |-> from]
  <2>1. f = [m \in 0..0 |-> f[m]] /\ f[0] = from
    OBVIOUS
  <2>2. Trail(f, 0, next, from)
    BY <2>1 DEF Trail
  <2> QED BY <2>1, <2>2
<1>2. ASSUME NEW n \in 1..k, n - 1 \in P
      PROVE  n \in P
  <2>1. PICK f : f = [m \in 0..(n - 1) |-> f[m]] /\ Trail(f, n - 1, next, from)
    BY <1>2
  <2>2. n \in Nat /\ n # 0 /\ n \in 0..k
    OBVIOUS
  <2> DEFINE g == [m \in 0..n |-> IF m = n THEN Onward(next, f[n - 1]) ELSE f[m]]
  <2>3. ASSUME NEW m \in 0..n, m # n
        PROVE  g[m] = f[m]
    BY <2>3
  <2>4. g = [m \in 0..n |-> g[m]] /\ g[n] = Onward(next, f[n - 1])
    BY <2>2
  <2> HIDE DEF g
  <2>5. g[0] = from
    <3>1. 0 \in 0..n /\ 0 # n
      BY <2>2
    <3> QED BY <3>1, <2>1, <2>3 DEF Trail
  <2>6. ASSUME NEW m \in 1..n
        PROVE  g[m] = Onward(next, g[m - 1])
    <3>1. m - 1 \in 0..n /\ m - 1 # n /\ m \in 0..n
      BY <2>2
    <3>2. g[m - 1] = f[m - 1]
      BY <3>1, <2>3
    <3>3. CASE m = n
      BY <3>2, <3>3, <2>4
    <3>4. CASE m # n
      <4>1. m \in 1..(n - 1)
        BY <3>4, <2>2
      <4>2. f[m] = Onward(next, f[m - 1])
        BY <4>1, <2>1 DEF Trail
      <4> QED BY <4>2, <3>1, <3>2, <3>4, <2>3
    <3> QED BY <3>3, <3>4
  <2>7. Trail(g, n, next, from)
    BY <2>5, <2>6 DEF Trail
  <2> QED BY <2>2, <2>4, <2>7
<1>3. \A n \in 0..k : n \in P
  <2> HIDE DEF P
  <2> QED BY <1>1, <1>2, Upwards
<1>4. k \in 0..k
  OBVIOUS
<1> QED BY <1>3, <1>4

\* Follow is the end of such a walk.
Ends(next, from, f) ==
    /\ Trail(f, Cardinality(DOMAIN next), next, from)
    /\ Follow(next, from) = f[Cardinality(DOMAIN next)]

LEMMA Followed ==
    ASSUME NEW next, NEW from, IsFiniteSet(DOMAIN next)
    PROVE  \E f : Ends(next, from, f)
<1> DEFINE k == Cardinality(DOMAIN next)
           Is(f) == f = [n \in 0..k |-> IF n = 0 THEN from
                                    ELSE IF f[n - 1] \in DOMAIN next THEN next[f[n - 1]]
                                         ELSE f[n - 1]]
           walk == CHOOSE f : Is(f)
<1>1. k \in Nat
  BY FS_CardinalityType
<1>2. PICK f : f = [m \in 0..k |-> f[m]] /\ Trail(f, k, next, from)
  <2> HIDE DEF k
  <2> QED BY <1>1, Trails
<1>3. ASSUME NEW n \in 1..k
      PROVE  f[n] = IF f[n - 1] \in DOMAIN next THEN next[f[n - 1]] ELSE f[n - 1]
  BY <1>2 DEF Trail, Onward
<1>4. Is(f)
  <2> DEFINE g == [n \in 0..k |-> IF n = 0 THEN from
                                  ELSE IF f[n - 1] \in DOMAIN next THEN next[f[n - 1]]
                                       ELSE f[n - 1]]
  <2>1. ASSUME NEW n \in 0..k
        PROVE  f[n] = g[n]
    <3>1. CASE n = 0
      BY <3>1, <1>2 DEF Trail
    <3>2. CASE n # 0
      <4>1. n \in 1..k
        BY <3>2
      <4>2. f[n] = IF f[n - 1] \in DOMAIN next THEN next[f[n - 1]] ELSE f[n - 1]
        BY <4>1, <1>3
      <4> QED BY <4>2, <3>2
    <3> QED BY <3>1, <3>2
  <2>2. f = [n \in 0..k |-> f[n]]
    BY <1>2
  <2>3. g = [n \in 0..k |-> g[n]]
    OBVIOUS
  <2> HIDE DEF g
  <2>4. f = g
    BY <2>1, <2>2, <2>3
  <2> QED BY <2>4 DEF g
<1>5. Is(walk)
  BY <1>4
<1>6. Follow(next, from) = walk[k]
  BY DEF Follow
<1>7. walk[0] = from /\ \A n \in 1..k : walk[n] = Onward(next, walk[n - 1])
  <2> HIDE DEF walk, k
  <2>1. 0 \in 0..k /\ \A n \in 1..k : n \in 0..k /\ n # 0
    BY <1>1
  <2> QED BY <1>5, <2>1 DEF Onward
<1> QED BY <1>6, <1>7 DEF Ends, Trail

\* A walk stays where next does not lead out of.
LEMMA FollowIn ==
    ASSUME NEW next, NEW from, IsFiniteSet(DOMAIN next), NEW X, from \in X,
           \A x \in X \cap DOMAIN next : next[x] \in X
    PROVE  Follow(next, from) \in X
<1> DEFINE k == Cardinality(DOMAIN next)
<1>1. k \in Nat
  BY FS_CardinalityType
<1>2. PICK f : Ends(next, from, f)
  BY Followed
<1> DEFINE P == {n \in 0..k : f[n] \in X}
<1>3. 0 \in P
  BY <1>1, <1>2 DEF Ends, Trail
<1>4. ASSUME NEW n \in 1..k, n - 1 \in P
      PROVE  n \in P
  <2>1. f[n] = Onward(next, f[n - 1]) /\ f[n - 1] \in X /\ n \in 0..k
    BY <1>1, <1>2, <1>4 DEF Ends, Trail
  <2> QED BY <2>1 DEF Onward
<1>5. \A n \in 0..k : n \in P
  <2> HIDE DEF P, k
  <2> QED BY <1>1, <1>3, <1>4, Upwards
<1>6. k \in P
  <2>1. k \in 0..k
    BY <1>1
  <2> HIDE DEF P, k
  <2> QED BY <2>1, <1>5
<1> QED BY <1>2, <1>6 DEF Ends

LEMMA FollowHere ==
    ASSUME NEW next, NEW from, IsFiniteSet(DOMAIN next), from \notin DOMAIN next
    PROVE  Follow(next, from) = from
<1> DEFINE X == {from}
<1>1. from \in X /\ \A x \in X \cap DOMAIN next : next[x] \in X
  OBVIOUS
<1>2. Follow(next, from) \in X
  <2> HIDE DEF X
  <2> QED BY <1>1, FollowIn
<1> QED BY <1>2

\* Two walks that meet and end outside next end at the same place.
Cap(n, k) == IF n <= k THEN n ELSE k

LEMMA Meeting ==
    ASSUME NEW next, NEW a, NEW b, NEW f, NEW g, NEW k \in Nat, NEW l \in Nat,
           Trail(f, k, next, a), Trail(g, l, next, b),
           f[k] \notin DOMAIN next, g[l] \notin DOMAIN next,
           NEW i \in 0..k, NEW j \in 0..l, f[i] = g[j]
    PROVE  f[k] = g[l]
<1> DEFINE P == {n \in 0..(k + l) : f[Cap(i + n, k)] = g[Cap(j + n, l)]}
<1>1. 0 \in P
  BY DEF Cap
<1>2. ASSUME NEW n \in 1..(k + l), n - 1 \in P
      PROVE  n \in P
  <2> DEFINE c == Cap(i + (n - 1), k)
             d == Cap(j + (n - 1), l)
  <2>0. f[c] = g[d] /\ n \in 0..(k + l)
    BY <1>2
  <2>1. \/ c \in 0..(k - 1) /\ Cap(i + n, k) = c + 1
        \/ c = k /\ Cap(i + n, k) = k
    BY DEF Cap
  <2>2. \/ d \in 0..(l - 1) /\ Cap(j + n, l) = d + 1
        \/ d = l /\ Cap(j + n, l) = l
    BY DEF Cap
  <2>3. f[Cap(i + n, k)] = Onward(next, f[c])
    <3>1. CASE c \in 0..(k - 1) /\ Cap(i + n, k) = c + 1
      <4> HIDE DEF c
      <4>1. c + 1 \in 1..k /\ (c + 1) - 1 = c
        BY <3>1
      <4>2. f[c + 1] = Onward(next, f[(c + 1) - 1])
        BY <4>1 DEF Trail
      <4> QED BY <4>1, <4>2, <3>1
    <3>2. CASE c = k /\ Cap(i + n, k) = k
      BY <3>2 DEF Onward
    <3> QED BY <2>1, <3>1, <3>2
  <2>4. g[Cap(j + n, l)] = Onward(next, g[d])
    <3>1. CASE d \in 0..(l - 1) /\ Cap(j + n, l) = d + 1
      <4> HIDE DEF d
      <4>1. d + 1 \in 1..l /\ (d + 1) - 1 = d
        BY <3>1
      <4>2. g[d + 1] = Onward(next, g[(d + 1) - 1])
        BY <4>1 DEF Trail
      <4> QED BY <4>1, <4>2, <3>1
    <3>2. CASE d = l /\ Cap(j + n, l) = l
      BY <3>2 DEF Onward
    <3> QED BY <2>2, <3>1, <3>2
  <2> QED BY <2>0, <2>3, <2>4
<1>3. \A n \in 0..(k + l) : n \in P
  <2>1. k + l \in Nat
    OBVIOUS
  <2> HIDE DEF P
  <2> QED BY <2>1, <1>1, <1>2, Upwards
<1>4. k + l \in P
  <2>1. k + l \in 0..(k + l)
    OBVIOUS
  <2> HIDE DEF P
  <2> QED BY <2>1, <1>3
<1>5. Cap(i + (k + l), k) = k /\ Cap(j + (k + l), l) = l
  BY DEF Cap
<1> QED BY <1>4, <1>5

\* One step on, a walk ends where it did.
LEMMA FollowStep ==
    ASSUME NEW next, NEW x \in DOMAIN next, IsFiniteSet(DOMAIN next),
           Follow(next, x) \notin DOMAIN next, Follow(next, next[x]) \notin DOMAIN next
    PROVE  Follow(next, x) = Follow(next, next[x])
<1> DEFINE k == Cardinality(DOMAIN next)
<1>1. k \in Nat /\ k # 0
  BY FS_CardinalityType, FS_EmptySet
<1>2. PICK f : Ends(next, x, f)
  BY Followed
<1>3. PICK g : Ends(next, next[x], g)
  BY Followed
<1>4. f[1] = g[0]
  <2>1. 1 \in 1..k /\ 1 - 1 = 0
    BY <1>1
  <2>2. f[1] = Onward(next, f[0]) /\ f[0] = x /\ g[0] = next[x]
    BY <2>1, <1>2, <1>3 DEF Ends, Trail
  <2> QED BY <2>2 DEF Onward
<1>5. 1 \in 0..k /\ 0 \in 0..k
  BY <1>1
<1>6. /\ Trail(f, k, next, x) /\ Trail(g, k, next, next[x])
      /\ Follow(next, x) = f[k] /\ Follow(next, next[x]) = g[k]
  BY <1>2, <1>3 DEF Ends
<1> HIDE DEF k
<1>7. f[k] = g[k]
  BY <1>1, <1>4, <1>5, <1>6, Meeting
<1> QED BY <1>6, <1>7

\* next leads as before wherever it led before.
Extends(new, old) ==
    /\ IsFiniteSet(DOMAIN new)
    /\ DOMAIN old \subseteq DOMAIN new
    /\ \A x \in DOMAIN old : new[x] = old[x]

\* A longer way goes on where the shorter one ended.
LEMMA FollowOn ==
    ASSUME NEW old, NEW new, NEW x, Extends(new, old),
           Follow(new, x) \notin DOMAIN new,
           Follow(new, Follow(old, x)) \notin DOMAIN new
    PROVE  Follow(new, x) = Follow(new, Follow(old, x))
<1> DEFINE k == Cardinality(DOMAIN old)
           l == Cardinality(DOMAIN new)
           e == Follow(old, x)
<1>1. k \in Nat /\ l \in Nat /\ k <= l /\ IsFiniteSet(DOMAIN old) /\ IsFiniteSet(DOMAIN new)
  BY FS_Subset, FS_CardinalityType DEF Extends
<1>2. PICK f : Ends(old, x, f)
  BY <1>1, Followed
<1>3. PICK g : Ends(new, x, g)
  BY <1>1, Followed
<1>4. PICK h : Ends(new, e, h)
  BY <1>1, Followed
<1>5. /\ Trail(f, k, old, x) /\ Trail(g, l, new, x) /\ Trail(h, l, new, e)
      /\ e = f[k] /\ Follow(new, x) = g[l] /\ Follow(new, e) = h[l]
  BY <1>2, <1>3, <1>4 DEF Ends
<1> DEFINE Met(n) == \E i \in 0..n : g[i] = f[n]
           P == {n \in 0..k : Met(n)}
<1> HIDE DEF k, l, e
<1>6. 0 \in P
  <2>1. g[0] = f[0] /\ 0 \in 0..0 /\ 0 \in 0..k
    BY <1>1, <1>5 DEF Trail
  <2> QED BY <2>1
<1>7. ASSUME NEW n \in 1..k, n - 1 \in P
      PROVE  n \in P
  <2>1. PICK i \in 0..(n - 1) : g[i] = f[n - 1]
    BY <1>7
  <2>2. f[n] = Onward(old, f[n - 1])
    BY <1>5 DEF Trail
  <2>3. n \in 0..k /\ i \in 0..n /\ i + 1 \in 0..n /\ i + 1 \in 1..l /\ (i + 1) - 1 = i
    BY <1>1
  <2>4. g[i + 1] = Onward(new, g[i])
    <3>1. g[i + 1] = Onward(new, g[(i + 1) - 1])
      BY <1>5, <2>3 DEF Trail
    <3> QED BY <2>3, <3>1
  <2>5. CASE f[n - 1] \in DOMAIN old
    <3>1. g[i + 1] = f[n]
      BY <2>1, <2>2, <2>4, <2>5 DEF Onward, Extends
    <3> QED BY <2>3, <3>1
  <2>6. CASE f[n - 1] \notin DOMAIN old
    <3>1. g[i] = f[n]
      BY <2>1, <2>2, <2>6 DEF Onward
    <3> QED BY <2>3, <3>1
  <2> QED BY <2>5, <2>6
<1>8. \A n \in 0..k : n \in P
  <2> HIDE DEF P
  <2> QED BY <1>1, <1>6, <1>7, Upwards
<1>9. PICK i \in 0..k : g[i] = f[k]
  <2>1. k \in 0..k
    BY <1>1
  <2>2. k \in P
    BY <2>1, <1>8
  <2> QED BY <2>2
<1>10. i \in 0..l /\ 0 \in 0..l /\ g[i] = h[0]
  BY <1>1, <1>5, <1>9 DEF Trail
<1>11. g[l] \notin DOMAIN new /\ h[l] \notin DOMAIN new
  BY <1>5 DEF e
<1>12. g[l] = h[l]
  BY <1>1, <1>5, <1>10, <1>11, Meeting
<1> QED BY <1>5, <1>12 DEF e

(***************************************************************************)
(* Where references lead.                                                  *)
(***************************************************************************)
Known(E, ref) == \E r \in E : r.kind = "knowledge" /\ RefTo(r) = ref

\* There is one note at each place.
Unique(E) ==
    \A r, s \in E :
        r.kind = "knowledge" /\ s.kind = "knowledge" /\ Place(r) = Place(s) => r = s

\* What retires and what takes its place are notes.
MovesKnown(E) == \A m \in Moves(E) : Known(E, m.home) /\ Known(E, m.to)

\* The transitions lead from note to note and never in a circle.
Linked(E) ==
    Unique(E) /\ MovesKnown(E) /\ IsFiniteSet(Moves(E)) /\ Consistent(E)

\* Where each retired note, and each retired place, has gone.
NextRef(E) ==
    [f \in {m.home : m \in Moves(E)} |-> (CHOOSE m \in Moves(E) : m.home = f).to]
NextPlace(E) ==
    [place \in Retired(E) |-> Place((CHOOSE m \in Moves(E) : Place(m.home) = place).to)]

LEMMA LeadIs == \A E, ref : Lead(E, ref) = Follow(NextRef(E), ref)
BY DEF Lead, NextRef

LEMMA ConsistentIs ==
    ASSUME NEW E
    PROVE  Consistent(E) <=>
             /\ \A m, n \in Moves(E) :
                   Place(m.home) = Place(n.home) => <<m.by, m.home, m.to>> = <<n.by, n.home, n.to>>
             /\ \A place \in Retired(E) : Follow(NextPlace(E), place) \notin Retired(E)
BY DEF Consistent, NextPlace

\* A transition tells where its original, and its original's place, have gone.
LEMMA MoveLeads ==
    ASSUME NEW E, Linked(E), NEW m \in Moves(E)
    PROVE  /\ m.home \in DOMAIN NextRef(E) /\ NextRef(E)[m.home] = m.to
           /\ Place(m.home) \in Retired(E)
           /\ NextPlace(E)[Place(m.home)] = Place(m.to)
<1>1. \A x, y \in Moves(E) : Place(x.home) = Place(y.home) => x.to = y.to
  <2> SUFFICES ASSUME NEW x \in Moves(E), NEW y \in Moves(E), Place(x.home) = Place(y.home)
               PROVE  x.to = y.to
    OBVIOUS
  <2>1. <<x.by, x.home, x.to>> = <<y.by, y.home, y.to>>
    BY ConsistentIs DEF Linked
  <2> QED BY <2>1
<1>2. NextRef(E)[m.home] = m.to
  <2> DEFINE n == CHOOSE x \in Moves(E) : x.home = m.home
  <2>1. n \in Moves(E) /\ n.home = m.home
    OBVIOUS
  <2>2. NextRef(E)[m.home] = n.to
    BY DEF NextRef
  <2> QED BY <1>1, <2>1, <2>2
<1>3. Place(m.home) \in Retired(E)
  BY DEF Retired
<1>4. NextPlace(E)[Place(m.home)] = Place(m.to)
  <2> DEFINE n == CHOOSE x \in Moves(E) : Place(x.home) = Place(m.home)
  <2>1. n \in Moves(E) /\ Place(n.home) = Place(m.home)
    OBVIOUS
  <2>2. NextPlace(E)[Place(m.home)] = Place(n.to)
    BY <1>3 DEF NextPlace
  <2> QED BY <1>1, <2>1, <2>2
<1>5. m.home \in DOMAIN NextRef(E)
  BY DEF NextRef
<1> QED BY <1>2, <1>3, <1>4, <1>5

\* A note is retired exactly when its place is.
LEMMA RetiredExactly ==
    ASSUME NEW E, Linked(E), NEW ref, Known(E, ref)
    PROVE  ref \in DOMAIN NextRef(E) <=> Place(ref) \in Retired(E)
<1>1. ASSUME NEW m \in Moves(E), m.home = ref
      PROVE  Place(ref) \in Retired(E)
  BY <1>1 DEF Retired
<1>2. ASSUME NEW m \in Moves(E), Place(m.home) = Place(ref)
      PROVE  m.home = ref
  <2>1. PICK r \in E : r.kind = "knowledge" /\ RefTo(r) = ref
    BY DEF Known
  <2>2. PICK s \in E : s.kind = "knowledge" /\ RefTo(s) = m.home
    BY DEF Linked, MovesKnown, Known
  <2>3. Place(r) = Place(ref) /\ Place(s) = Place(m.home)
    BY <2>1, <2>2 DEF RefTo, Ref, Place
  <2> QED BY <1>2, <2>1, <2>2, <2>3 DEF Linked, Unique
<1> QED BY <1>1, <1>2 DEF NextRef, Retired

LEMMA FiniteMoves ==
    ASSUME NEW E, Linked(E)
    PROVE  /\ IsFiniteSet(DOMAIN NextRef(E)) /\ IsFiniteSet(DOMAIN NextPlace(E))
           /\ Cardinality(DOMAIN NextPlace(E)) <= Cardinality(DOMAIN NextRef(E))
<1> DEFINE homes == {m.home : m \in Moves(E)}
           place == [h \in homes |-> Place(h)]
           h == [m \in Moves(E) |-> m.home]
<1>1. homes = {h[m] : m \in Moves(E)} /\ h \in [Moves(E) -> homes]
  OBVIOUS
<1>2. IsFiniteSet(homes)
  <2>1. h \in Surjection(Moves(E), homes)
    BY DEF Surjection
  <2> HIDE DEF h, homes
  <2> QED BY <2>1, FS_Surjection DEF Linked
<1>3. place \in Surjection(homes, Retired(E))
  <2>1. Retired(E) = {Place(x) : x \in homes}
    BY DEF Retired
  <2> QED BY <2>1 DEF Surjection
<1>4. IsFiniteSet(Retired(E)) /\ Cardinality(Retired(E)) <= Cardinality(homes)
  <2> HIDE DEF place, homes
  <2> QED BY <1>2, <1>3, FS_Surjection
<1> QED BY <1>2, <1>4 DEF NextRef, NextPlace

\* What a reference to a note leads to is a note that stands: it is there, and its
\* place is not retired.
Stands(E, ref) ==
    Known(E, ref) /\ Place(ref) \notin Retired(E) /\ ref \notin DOMAIN NextRef(E)

LEMMA NextKnown ==
    ASSUME NEW E, Linked(E), NEW ref \in DOMAIN NextRef(E)
    PROVE  /\ Known(E, NextRef(E)[ref]) /\ Place(ref) \in Retired(E)
           /\ NextPlace(E)[Place(ref)] = Place(NextRef(E)[ref])
<1>1. PICK m \in Moves(E) : m.home = ref
  BY DEF NextRef
<1> QED BY <1>1, MoveLeads DEF Linked, MovesKnown

LEMMA LeadStands ==
    ASSUME NEW E, Linked(E), NEW ref, Known(E, ref)
    PROVE  Stands(E, Lead(E, ref))
<1> DEFINE next == NextRef(E)
           over == NextPlace(E)
           k == Cardinality(DOMAIN next)
           l == Cardinality(DOMAIN over)
<1>1. k \in Nat /\ l \in Nat /\ l <= k /\ IsFiniteSet(DOMAIN next) /\ IsFiniteSet(DOMAIN over)
  BY FiniteMoves, FS_CardinalityType
<1>2. PICK f : Ends(next, ref, f)
  BY <1>1, Followed
<1>3. PICK p : Ends(over, Place(ref), p)
  BY <1>1, Followed
<1>4. DOMAIN over = Retired(E)
  BY DEF NextPlace
<1>5. p[l] \notin Retired(E)
  <2>1. CASE Place(ref) \in Retired(E)
    BY <1>3, <2>1, ConsistentIs DEF Linked, Ends
  <2>2. CASE Place(ref) \notin Retired(E)
    <3>1. Follow(over, Place(ref)) = Place(ref)
      <4> HIDE DEF over
      <4> QED BY <1>1, <1>4, <2>2, FollowHere
    <3> QED BY <1>3, <2>2, <3>1 DEF Ends
  <2> QED BY <2>1, <2>2
<1>6. /\ Trail(f, k, next, ref) /\ Trail(p, l, over, Place(ref)) /\ Lead(E, ref) = f[k]
  BY <1>2, <1>3, LeadIs DEF Ends
<1>7. ASSUME NEW x, Known(E, x)
      PROVE  /\ x \in DOMAIN next <=> Place(x) \in DOMAIN over
             /\ Known(E, Onward(next, x))
             /\ Place(Onward(next, x)) = Onward(over, Place(x))
  BY <1>4, <1>7, RetiredExactly, NextKnown DEF Onward
<1> HIDE DEF next, over, k, l
<1> DEFINE P == {n \in 0..k : Known(E, f[n]) /\ Place(f[n]) = p[Cap(n, l)]}
<1>8. 0 \in P
  BY <1>1, <1>6 DEF Trail, Cap
<1>9. ASSUME NEW n \in 1..k, n - 1 \in P
      PROVE  n \in P
  <2>1. /\ Known(E, f[n - 1]) /\ Place(f[n - 1]) = p[Cap(n - 1, l)] /\ n \in 0..k
        /\ f[n] = Onward(next, f[n - 1])
    BY <1>6, <1>9 DEF Trail
  <2>2. Known(E, f[n]) /\ Place(f[n]) = Onward(over, p[Cap(n - 1, l)])
    BY <2>1, <1>7
  <2>3. CASE n <= l
    <3>1. n \in 1..l /\ Cap(n - 1, l) = n - 1 /\ Cap(n, l) = n
      BY <1>1, <2>3 DEF Cap
    <3>2. p[n] = Onward(over, p[n - 1])
      BY <3>1, <1>6 DEF Trail
    <3> QED BY <2>1, <2>2, <3>1, <3>2
  <2>4. CASE ~ (n <= l)
    <3>1. Cap(n - 1, l) = l /\ Cap(n, l) = l
      BY <1>1, <2>4 DEF Cap
    <3>2. Onward(over, p[l]) = p[l]
      BY <1>4, <1>5 DEF Onward
    <3> QED BY <2>1, <2>2, <3>1, <3>2
  <2> QED BY <2>3, <2>4
<1>10. \A n \in 0..k : n \in P
  <2> HIDE DEF P
  <2> QED BY <1>1, <1>8, <1>9, Upwards
<1>11. Known(E, f[k]) /\ Place(f[k]) = p[l]
  <2>1. k \in 0..k /\ Cap(k, l) = l
    BY <1>1 DEF Cap
  <2>2. k \in P
    BY <2>1, <1>10
  <2> QED BY <2>1, <2>2
<1> QED BY <1>4, <1>5, <1>6, <1>7, <1>11 DEF Stands, next

LEMMA LeadHere ==
    ASSUME NEW E, Linked(E), NEW ref, Known(E, ref), Place(ref) \notin Retired(E)
    PROVE  Lead(E, ref) = ref
<1>1. ref \notin DOMAIN NextRef(E) /\ IsFiniteSet(DOMAIN NextRef(E))
  BY RetiredExactly, FiniteMoves
<1> QED BY <1>1, FollowHere, LeadIs

\* A retired note leads to where the note that took its place leads.
LEMMA LeadStep ==
    ASSUME NEW E, Linked(E), NEW m \in Moves(E)
    PROVE  Lead(E, m.home) = Lead(E, m.to)
<1>1. m.home \in DOMAIN NextRef(E) /\ NextRef(E)[m.home] = m.to
  BY MoveLeads
<1>2. Known(E, m.home) /\ Known(E, m.to)
  BY DEF Linked, MovesKnown
<1>3. Lead(E, m.home) \notin DOMAIN NextRef(E) /\ Lead(E, m.to) \notin DOMAIN NextRef(E)
  BY <1>2, LeadStands DEF Stands
<1>4. IsFiniteSet(DOMAIN NextRef(E))
  BY FiniteMoves
<1> QED BY <1>1, <1>3, <1>4, FollowStep, LeadIs

\* When more is retired, what led to a note leads to where that note leads now.
LEMMA LeadOn ==
    ASSUME NEW E, NEW F, Linked(E), Linked(F), E \subseteq F, NEW ref, Known(E, ref)
    PROVE  Lead(F, ref) = Lead(F, Lead(E, ref))
<1>1. Moves(E) \subseteq Moves(F)
  BY DEF Moves
<1>2. ASSUME NEW x \in DOMAIN NextRef(E)
      PROVE  x \in DOMAIN NextRef(F) /\ NextRef(F)[x] = NextRef(E)[x]
  <2>1. PICK m \in Moves(E) : m.home = x
    BY DEF NextRef
  <2> QED BY <1>1, <2>1, MoveLeads
<1>3. Extends(NextRef(F), NextRef(E))
  BY <1>2, FiniteMoves DEF Extends
<1>4. Known(F, ref) /\ Known(F, Lead(E, ref))
  BY LeadStands DEF Known, Stands
<1>5. Lead(F, ref) \notin DOMAIN NextRef(F) /\ Lead(F, Lead(E, ref)) \notin DOMAIN NextRef(F)
  BY <1>4, LeadStands DEF Stands
<1> QED BY <1>3, <1>5, FollowOn, LeadIs

(***************************************************************************)
(* The homes of units.                                                     *)
(***************************************************************************)
\* The records E give unit u the home h; a note that no request placed is its own home.
ByRecord(E, u, h) == \E r \in E : r.unit # <<>> /\ u = r.unit /\ h = r.home
ByReceipt(E, u, h) ==
    \E r \in E : /\ r.kind = "receipt"
                 /\ \E d \in r.decisions : u = <<r.id[2], d.candidate>> /\ h = d.home
ByItself(E, u, h) ==
    \E r \in E : /\ r.kind = "knowledge" /\ r.unit = <<>>
                 /\ u = Unrouted(r) /\ h = RefTo(r)

Gives(E, u, h) == ByRecord(E, u, h) \/ ByReceipt(E, u, h) \/ ByItself(E, u, h)

\* A receipt has the name of its request.
ReceiptsNamed(E) == \A r \in E : r.kind = "receipt" => r.id = <<"routing", r.id[2]>>

\* A record of a unit is a note at its home, or speaks of one that some record is.
UnitsNamed(E) ==
    \A r \in E : r.unit # <<>> =>
        /\ r.role # "reference" => r.home = RefTo(r)
        /\ \E s \in E : s.role = "canonical" /\ s.unit = r.unit /\ s.home = r.home

\* A public selection has the home that its name says.
Selection(g, output, evidence) == <<"public-selection", g, output, evidence>>
SelectionHome(g, output) == Ref(g, output.id, output.body)
Founded(E) ==
    \A g, output, evidence, h :
        Gives(E, Selection(g, output, evidence), h)
            => Gives(E, Selection(g, output, evidence), SelectionHome(g, output))

\* A home is a note that is there, and all homes of a unit lead to one.
HomesKnown(E) == \A u, h : Gives(E, u, h) => Known(E, h)
HomesAgree(E) ==
    \A u, h, i : Gives(E, u, h) /\ Gives(E, u, i) => Lead(E, h) = Lead(E, i)

\* Records have the fields that records have.
Fielded(E) == \A r \in E : DOMAIN r = DOMAIN Blank

Sound(E) ==
    /\ Fielded(E)
    /\ Linked(E)
    /\ ReceiptsNamed(E)
    /\ UnitsNamed(E)
    /\ Founded(E)
    /\ HomesKnown(E)
    /\ HomesAgree(E)

LEMMA GivesUnion ==
    ASSUME NEW E, NEW F, NEW u, NEW h
    PROVE  Gives(E \cup F, u, h) <=> Gives(E, u, h) \/ Gives(F, u, h)
<1>1. ByRecord(E \cup F, u, h) <=> ByRecord(E, u, h) \/ ByRecord(F, u, h)
  BY DEF ByRecord
<1>2. ByReceipt(E \cup F, u, h) <=> ByReceipt(E, u, h) \/ ByReceipt(F, u, h)
  BY DEF ByReceipt
<1>3. ByItself(E \cup F, u, h) <=> ByItself(E, u, h) \/ ByItself(F, u, h)
  BY DEF ByItself
<1> QED BY <1>1, <1>2, <1>3 DEF Gives

\* Consistency and leads depend on the transitions alone.
LEMMA SameMoves ==
    ASSUME NEW E, NEW F, Moves(E) = Moves(F)
    PROVE  /\ Consistent(E) <=> Consistent(F)
           /\ \A ref : Lead(E, ref) = Lead(F, ref)
<1>1. Retired(E) = Retired(F)
  BY DEF Retired
<1> QED BY <1>1 DEF Consistent, Lead

LEMMA KnownMore ==
    ASSUME NEW E, NEW F, NEW ref, Known(E, ref)
    PROVE  Known(E \cup F, ref)
BY DEF Known

\* What holds of the records of two sets one by one.
LEMMA NamedUnion ==
    ASSUME NEW E, NEW F, ReceiptsNamed(E), ReceiptsNamed(F), UnitsNamed(E), UnitsNamed(F)
    PROVE  ReceiptsNamed(E \cup F) /\ UnitsNamed(E \cup F)
<1>1. ReceiptsNamed(E \cup F)
  BY DEF ReceiptsNamed
<1>2. UnitsNamed(E \cup F)
  BY DEF UnitsNamed
<1> QED BY <1>1, <1>2

\* The files of a placement: they retire nothing, and give a unit a home only that it
\* has already, or that nothing else is.
Placing(E, F) ==
    /\ Fielded(F)
    /\ Moves(F) = {}
    /\ Unique(E \cup F)
    /\ ReceiptsNamed(F)
    /\ UnitsNamed(F)
    /\ \A g, output, evidence, h :
          Gives(F, Selection(g, output, evidence), h) => h = SelectionHome(g, output)
    /\ \A u, h : Gives(F, u, h) => Known(F, h)
    /\ \A u, h, i : Gives(F, u, h) /\ Gives(F, u, i) => h = i
    /\ \A u, h, i : Gives(F, u, h) /\ Gives(E, u, i) => i = h \/ Gives(E, u, h)

LEMMA PlacingKeeps ==
    ASSUME NEW E, NEW F, Sound(E), Placing(E, F)
    PROVE  Sound(E \cup F)
<1>1. Moves(E \cup F) = Moves(E)
  BY DEF Placing, Moves
<1>2. /\ Consistent(E \cup F)
      /\ \A ref : Lead(E \cup F, ref) = Lead(E, ref)
  BY <1>1, SameMoves DEF Sound, Linked
<1>3. MovesKnown(E \cup F)
  BY <1>1, KnownMore DEF Sound, Linked, MovesKnown
<1>4. Linked(E \cup F)
  BY <1>1, <1>2, <1>3 DEF Sound, Linked, Placing
<1>5. ReceiptsNamed(E \cup F) /\ UnitsNamed(E \cup F)
  BY NamedUnion DEF Sound, Placing
<1>6. Founded(E \cup F)
  <2> SUFFICES ASSUME NEW g, NEW output, NEW evidence, NEW h,
                      Gives(E \cup F, Selection(g, output, evidence), h)
               PROVE  Gives(E \cup F, Selection(g, output, evidence), SelectionHome(g, output))
    BY DEF Founded
  <2>1. CASE Gives(E, Selection(g, output, evidence), h)
    BY <2>1, GivesUnion DEF Sound, Founded
  <2>2. CASE Gives(F, Selection(g, output, evidence), h)
    BY <2>2 DEF Placing
  <2> QED BY <2>1, <2>2, GivesUnion
<1>7. HomesKnown(E \cup F)
  <2> SUFFICES ASSUME NEW u, NEW h, Gives(E \cup F, u, h)
               PROVE  Known(E \cup F, h)
    BY DEF HomesKnown
  <2>1. Gives(E, u, h) \/ Gives(F, u, h)
    BY GivesUnion
  <2>2. Known(E, h) \/ Known(F, h)
    BY <2>1 DEF Sound, HomesKnown, Placing
  <2> QED BY <2>2 DEF Known
<1>8. HomesAgree(E \cup F)
  <2> SUFFICES ASSUME NEW u, NEW h, NEW i, Gives(E \cup F, u, h), Gives(E \cup F, u, i)
               PROVE  Lead(E, h) = Lead(E, i)
    BY <1>2 DEF HomesAgree
  <2>1. Gives(E, u, h) \/ Gives(F, u, h)
    BY GivesUnion
  <2>2. Gives(E, u, i) \/ Gives(F, u, i)
    BY GivesUnion
  <2>3. h = i \/ (Gives(E, u, h) /\ Gives(E, u, i))
    BY <2>1, <2>2 DEF Placing
  <2> QED BY <2>3 DEF Sound, HomesAgree
<1>9. Fielded(E \cup F)
  BY DEF Fielded, Sound, Placing
<1> QED BY <1>4, <1>5, <1>6, <1>7, <1>8, <1>9 DEF Sound

\* The files of a transition: no unit gets a new home but one whose old one is retired
\* in favour of it.
Moving(E, F) ==
    /\ Fielded(F)
    /\ Linked(E \cup F)
    /\ ReceiptsNamed(F)
    /\ UnitsNamed(F)
    /\ \A u, h : Gives(F, u, h) =>
          \E m \in Moves(F) : m.to = h /\ Gives(E, u, m.home)

LEMMA MovingKeeps ==
    ASSUME NEW E, NEW F, Sound(E), Moving(E, F)
    PROVE  Sound(E \cup F)
<1>1. Linked(E \cup F) /\ Linked(E)
  BY DEF Moving, Sound
<1>2. ReceiptsNamed(E \cup F) /\ UnitsNamed(E \cup F)
  BY NamedUnion DEF Sound, Moving
<1>3. Moves(F) \subseteq Moves(E \cup F)
  BY DEF Moves
<1>4. ASSUME NEW u, NEW h, Gives(E \cup F, u, h)
      PROVE  \E i : Gives(E, u, i) /\ Lead(E \cup F, h) = Lead(E \cup F, i)
  <2>1. CASE Gives(E, u, h)
    BY <2>1
  <2>2. CASE Gives(F, u, h)
    <3>1. PICK m \in Moves(F) : m.to = h /\ Gives(E, u, m.home)
      BY <2>2 DEF Moving
    <3>2. Lead(E \cup F, m.home) = Lead(E \cup F, h)
      BY <1>1, <1>3, <3>1, LeadStep
    <3> QED BY <3>1, <3>2
  <2> QED BY <1>4, <2>1, <2>2, GivesUnion
<1>5. Founded(E \cup F)
  <2> SUFFICES ASSUME NEW g, NEW output, NEW evidence, NEW h,
                      Gives(E \cup F, Selection(g, output, evidence), h)
               PROVE  Gives(E \cup F, Selection(g, output, evidence), SelectionHome(g, output))
    BY DEF Founded
  <2>1. PICK i : Gives(E, Selection(g, output, evidence), i)
    BY <1>4
  <2>2. Gives(E, Selection(g, output, evidence), SelectionHome(g, output))
    BY <2>1 DEF Sound, Founded
  <2> QED BY <2>2, GivesUnion
<1>6. HomesKnown(E \cup F)
  <2> SUFFICES ASSUME NEW u, NEW h, Gives(E \cup F, u, h)
               PROVE  Known(E \cup F, h)
    BY DEF HomesKnown
  <2>1. CASE Gives(E, u, h)
    BY <2>1, KnownMore DEF Sound, HomesKnown
  <2>2. CASE Gives(F, u, h)
    <3>1. PICK m \in Moves(F) : m.to = h
      BY <2>2 DEF Moving
    <3> QED BY <1>1, <1>3, <3>1 DEF Linked, MovesKnown
  <2> QED BY <2>1, <2>2, GivesUnion
<1>7. HomesAgree(E \cup F)
  <2> SUFFICES ASSUME NEW u, NEW h, NEW i, Gives(E \cup F, u, h), Gives(E \cup F, u, i)
               PROVE  Lead(E \cup F, h) = Lead(E \cup F, i)
    BY DEF HomesAgree
  <2>1. PICK a : Gives(E, u, a) /\ Lead(E \cup F, h) = Lead(E \cup F, a)
    BY <1>4
  <2>2. PICK b : Gives(E, u, b) /\ Lead(E \cup F, i) = Lead(E \cup F, b)
    BY <1>4
  <2>3. Known(E, a) /\ Known(E, b) /\ Lead(E, a) = Lead(E, b)
    BY <2>1, <2>2 DEF Sound, HomesKnown, HomesAgree
  <2>4. Lead(E \cup F, a) = Lead(E \cup F, b)
    <3>1. E \subseteq E \cup F
      OBVIOUS
    <3> QED BY <1>1, <2>3, <3>1, LeadOn
  <2> QED BY <2>1, <2>2, <2>4
<1>8. Fielded(E \cup F)
  BY DEF Fielded, Sound, Moving
<1> QED BY <1>1, <1>2, <1>5, <1>6, <1>7, <1>8 DEF Sound

(***************************************************************************)
(* The files of a plan.                                                    *)
(***************************************************************************)
\* E is all there is: W reads its bound gardens, and in the others nothing was routed.
Beyond(E, W) ==
    /\ Situated(W)
    /\ All(W) \subseteq E
    /\ \A r \in E \ All(W) : /\ r.garden \notin DOMAIN W.bind
                             /\ r.unit = <<>>
                             /\ r.kind \notin {"receipt", "transition"}

LEMMA TupleLengths ==
    /\ \A a, b, c, d, e : <<a, b>> # <<c, d, e>>
    /\ \A a, b, c, d, e, f : <<a, b>> # <<c, d, e, f>>
    /\ \A a, b, c, d, e, f, g : <<a, b, c>> # <<d, e, f, g>>
    /\ \A a, b, c : <<a, b, c>> # <<>>
    /\ \A a, b : <<a, b>> # <<>>
    /\ \A a, b, c, d : <<a, b, c, d>> # <<>>
<1>1. /\ \A a, b : Len(<<a, b>>) = 2
      /\ \A a, b, c : Len(<<a, b, c>>) = 3
      /\ \A a, b, c, d : Len(<<a, b, c, d>>) = 4
      /\ Len(<<>>) = 0
  OBVIOUS
<1>2. \A a, b, c, d, e : <<a, b>> # <<c, d, e>>
  BY <1>1
<1>3. \A a, b, c, d, e, f : <<a, b>> # <<c, d, e, f>>
  BY <1>1
<1>4. \A a, b, c, d, e, f, g : <<a, b, c>> # <<d, e, f, g>>
  BY <1>1
<1>5. /\ \A a, b, c : <<a, b, c>> # <<>>
      /\ \A a, b : <<a, b>> # <<>>
      /\ \A a, b, c, d : <<a, b, c, d>> # <<>>
  BY <1>1
<1> QED BY <1>2, <1>3, <1>4, <1>5

\* The names of units of which no two kinds are the same.
LEMMA UnitKinds ==
    /\ \A q, c, g, output, evidence : Unit(q, c) # Selection(g, output, evidence)
    /\ \A q, c, r : Unit(q, c) # Unrouted(r)
    /\ \A a, b, g, output, evidence : <<a, b>> # Selection(g, output, evidence)
    /\ \A r, g, output, evidence : Unrouted(r) # Selection(g, output, evidence)
    /\ \A r : Unrouted(r) # <<>>
    /\ \A q, c : Unit(q, c) # <<>>
    /\ \A g, output, evidence : Selection(g, output, evidence) # <<>>
BY TupleLengths DEF Unit, Selection, Unrouted

LEMMA PairsEqual == \A a, b, c, d : <<a, b>> = <<c, d>> => a = c /\ b = d
OBVIOUS

LEMMA SelectionsEqual ==
    \A a, b, c, d, e, f : Selection(a, b, c) = Selection(d, e, f) => a = d /\ b = e /\ c = f
BY DEF Selection

LEMMA PortableKinds ==
    ASSUME NEW C, NEW q, NEW x
    PROVE  \/ PortableUnit(C, q, x) = Unit(q, x.c)
           \/ PortableUnit(C, q, x) = Selection(x.home, x.c.output, Evidence(x.c))
BY DEF PortableUnit, Selection

\* What is in a note, a reference and a receipt.
LEMMA KnowledgeIs ==
    ASSUME NEW W, NEW C, NEW q, NEW x, NEW r, r = Knowledge(W, C, q, x)
    PROVE  /\ r.kind = "knowledge" /\ r.role = "canonical" /\ r.unit = PortableUnit(C, q, x)
           /\ r.home = HomeRef(x) /\ RefTo(r) = HomeRef(x) /\ DOMAIN r = DOMAIN Blank
<1>1. /\ r.kind = "knowledge" /\ r.role = "canonical" /\ r.unit = PortableUnit(C, q, x)
      /\ r.home = HomeRef(x) /\ r.garden = x.home /\ r.id = x.c.output.id
      /\ r.body = x.c.output.body
  BY DEF Knowledge, Blank
<1>2. DOMAIN r = DOMAIN Blank
  BY DEF Knowledge
<1> QED BY <1>1, <1>2 DEF RefTo, HomeRef

LEMMA ReferenceIs ==
    ASSUME NEW W, NEW C, NEW q, NEW x, NEW r \in References(W, C, q, x)
    PROVE  /\ r.kind = "knowledge" /\ r.role = "reference" /\ r.unit = PortableUnit(C, q, x)
           /\ r.home = HomeRef(x) /\ DOMAIN r = DOMAIN Blank
<1>1. /\ r.kind = "knowledge" /\ r.role = "reference" /\ r.unit = PortableUnit(C, q, x)
      /\ r.home = HomeRef(x)
  BY DEF References, Blank
<1>2. DOMAIN r = DOMAIN Blank
  BY DEF References
<1> QED BY <1>1, <1>2

LEMMA ReceiptIs ==
    ASSUME NEW W, NEW C, NEW q, NEW placed, NEW r \in Receipts(W, C, q, placed)
    PROVE  /\ r.kind = "receipt" /\ r.unit = <<>> /\ r.id = <<"routing", q.id>>
           /\ DOMAIN r = DOMAIN Blank
           /\ \A d \in r.decisions : \E x \in placed : d.candidate = x.c.id /\ d.home = HomeRef(x)
<1>1. PICK g : r = [Blank EXCEPT
        !.garden = g, !.id = ReceiptId(q), !.kind = "receipt",
        !.by = q.digest, !.catalog = C.digest,
        !.decisions = {Decision(W, C, q, x) : x \in {y \in placed : AuditHome(C, q, y) = g}}]
  BY DEF Receipts
<1>2. /\ r.kind = "receipt" /\ r.unit = <<>> /\ r.id = <<"routing", q.id>>
      /\ r.decisions = {Decision(W, C, q, x) : x \in {y \in placed : AuditHome(C, q, y) = g}}
  BY <1>1 DEF Blank, ReceiptId
<1>3. DOMAIN r = DOMAIN Blank
  BY <1>1
<1>4. ASSUME NEW d \in r.decisions
      PROVE  \E x \in placed : d.candidate = x.c.id /\ d.home = HomeRef(x)
  <2>1. PICK x \in placed : d = Decision(W, C, q, x)
    BY <1>2
  <2>2. d.candidate = x.c.id /\ d.home = HomeRef(x)
    BY <2>1 DEF Decision
  <2> QED BY <2>2
<1> QED BY <1>2, <1>3, <1>4

\* What each file of a routing plan is.
LEMMA RouteFileKinds ==
    ASSUME NEW W, NEW C, NEW q, NEW placed, NEW r \in RouteFiles(W, C, q, placed)
    PROVE  \/ r \in Receipts(W, C, q, placed)
           \/ \E x \in placed : r = Knowledge(W, C, q, x) \/ r \in References(W, C, q, x)
BY DEF RouteFiles

\* Which homes a routing plan gives.
LEMMA RouteGives ==
    ASSUME NEW W, NEW C, NEW q, NEW placed, NEW u, NEW h,
           Gives(RouteFiles(W, C, q, placed), u, h)
    PROVE  \E x \in placed : /\ h = HomeRef(x)
                             /\ \/ u = Unit(q, x.c)
                                \/ u = Selection(x.home, x.c.output, Evidence(x.c))
<1> DEFINE F == RouteFiles(W, C, q, placed)
<1>1. ASSUME NEW r \in F, r.kind = "knowledge"
      PROVE  \E x \in placed : r.unit = PortableUnit(C, q, x) /\ r.home = HomeRef(x)
  <2>1. ~ (r \in Receipts(W, C, q, placed))
    BY <1>1, ReceiptIs
  <2>2. PICK x \in placed : r = Knowledge(W, C, q, x) \/ r \in References(W, C, q, x)
    BY <2>1, RouteFileKinds
  <2> QED BY <2>2, KnowledgeIs, ReferenceIs
<1>2. ASSUME NEW r \in F, r.kind # "knowledge"
      PROVE  r \in Receipts(W, C, q, placed)
  <2>1. ASSUME NEW x \in placed
        PROVE  ~ (r = Knowledge(W, C, q, x) \/ r \in References(W, C, q, x))
    BY <1>2, KnowledgeIs, ReferenceIs
  <2> QED BY <2>1, RouteFileKinds
<1>3. ASSUME NEW x \in placed
      PROVE  /\ PortableUnit(C, q, x) # <<>>
             /\ \/ PortableUnit(C, q, x) = Unit(q, x.c)
                \/ PortableUnit(C, q, x) = Selection(x.home, x.c.output, Evidence(x.c))
  BY PortableKinds, UnitKinds
<1> HIDE DEF F
<1>4. Gives(F, u, h)
  BY DEF F
<1>5. CASE ByRecord(F, u, h)
  <2>1. PICK r \in F : r.unit # <<>> /\ u = r.unit /\ h = r.home
    BY <1>5 DEF ByRecord
  <2>2. r.kind = "knowledge"
    BY <2>1, <1>2, ReceiptIs
  <2>3. PICK x \in placed : r.unit = PortableUnit(C, q, x) /\ r.home = HomeRef(x)
    BY <2>2, <1>1
  <2> QED BY <2>1, <2>3, <1>3
<1>6. CASE ByReceipt(F, u, h)
  <2>1. PICK r \in F : r.kind = "receipt" /\ \E d \in r.decisions : u = <<r.id[2], d.candidate>> /\ h = d.home
    BY <1>6 DEF ByReceipt
  <2>2. PICK d \in r.decisions : u = <<r.id[2], d.candidate>> /\ h = d.home
    BY <2>1
  <2>3. r \in Receipts(W, C, q, placed)
    BY <2>1, <1>2
  <2>4. r.id = <<"routing", q.id>> /\ \E x \in placed : d.candidate = x.c.id /\ d.home = HomeRef(x)
    BY <2>3, ReceiptIs
  <2>5. PICK x \in placed : d.candidate = x.c.id /\ d.home = HomeRef(x)
    BY <2>4
  <2>6. r.id[2] = q.id
    BY <2>4
  <2> QED BY <2>2, <2>5, <2>6 DEF Unit
<1>7. CASE ByItself(F, u, h)
  <2>1. PICK r \in F : r.kind = "knowledge" /\ r.unit = <<>>
    BY <1>7 DEF ByItself
  <2> QED BY <2>1, <1>1, <1>3
<1> QED BY <1>4, <1>5, <1>6, <1>7 DEF Gives

\* All that a plan says of one unit is one home.
LEMMA PlacedOnce ==
    ASSUME NEW W, NEW C, NEW q, Routable(W, C, q),
           NEW x \in Placed(W, C, q), NEW y \in Placed(W, C, q),
           \/ Unit(q, x.c) = Unit(q, y.c)
           \/ Selection(x.home, x.c.output, Evidence(x.c))
                = Selection(y.home, y.c.output, Evidence(y.c))
    PROVE  HomeRef(x) = HomeRef(y)
<1>1. PICK c \in q.candidates : x = [c |-> c, home |-> Home(W, C, q, c)]
  BY DEF Placed
<1>2. PICK d \in q.candidates : y = [c |-> d, home |-> Home(W, C, q, d)]
  BY DEF Placed
<1>3. x.c = c /\ x.home = Home(W, C, q, c) /\ y.c = d /\ y.home = Home(W, C, q, d)
  BY <1>1, <1>2
<1>4. CASE Unit(q, x.c) = Unit(q, y.c)
  <2>1. c.id = d.id
    BY <1>3, <1>4, PairsEqual DEF Unit
  <2>2. c = d
    BY <2>1 DEF Routable
  <2> QED BY <2>2, <1>1, <1>2
<1>5. CASE Selection(x.home, x.c.output, Evidence(x.c))
             = Selection(y.home, y.c.output, Evidence(y.c))
  <2>1. x.home = y.home /\ x.c.output = y.c.output
    BY <1>5, SelectionsEqual
  <2> QED BY <2>1 DEF HomeRef
<1> QED BY <1>4, <1>5

\* What is there already gives the units of a plan no other homes.
LEMMA NoOtherHome ==
    ASSUME NEW E, NEW W, NEW q, NEW x, Sound(E), Beyond(E, W), ~ Transferred(W, q, x),
           NEW i, Gives(E, Unit(q, x.c), i)
    PROVE  i = HomeRef(x)
<1> DEFINE u == Unit(q, x.c)
<1>1. CASE ByRecord(E, u, i)
  <2>1. PICK r \in E : r.unit # <<>> /\ u = r.unit /\ i = r.home
    BY <1>1 DEF ByRecord
  <2>2. PICK s \in E : s.role = "canonical" /\ s.unit = r.unit /\ s.home = r.home
    BY <2>1 DEF Sound, UnitsNamed
  <2>3. s \in All(W)
    BY <2>1, <2>2 DEF Beyond
  <2> QED BY <2>1, <2>2, <2>3 DEF Transferred
<1>2. CASE ByReceipt(E, u, i)
  <2>1. PICK r \in E : r.kind = "receipt" /\ \E d \in r.decisions : u = <<r.id[2], d.candidate>> /\ i = d.home
    BY <1>2 DEF ByReceipt
  <2>2. PICK d \in r.decisions : u = <<r.id[2], d.candidate>> /\ i = d.home
    BY <2>1
  <2>3. r.id[2] = q.id /\ d.candidate = x.c.id
    BY <2>2, PairsEqual DEF Unit
  <2>4. r \in All(W) /\ r.id = ReceiptId(q)
    BY <2>1, <2>3 DEF Beyond, Sound, ReceiptsNamed, ReceiptId
  <2> QED BY <2>1, <2>2, <2>3, <2>4 DEF Transferred
<1>3. CASE ByItself(E, u, i)
  BY <1>3, UnitKinds DEF ByItself
<1> QED BY <1>1, <1>2, <1>3 DEF Gives

LEMMA UniqueUnion ==
    ASSUME NEW E, NEW W, NEW F, Unique(E), Unique(F), Beyond(E, W),
           \A r \in F : r.kind = "knowledge" => r.garden \in DOMAIN W.bind,
           Compatible(W, F)
    PROVE  Unique(E \cup F)
<1>1. ASSUME NEW r \in F, NEW s \in E, r.kind = "knowledge", Place(r) = Place(s)
      PROVE  r = s
  <2>1. r.garden = s.garden /\ r.id = s.id
    BY <1>1, PairsEqual DEF Place
  <2>2. s \in All(W)
    BY <1>1, <2>1 DEF Beyond
  <2>3. PICK g \in DOMAIN W.bind : s \in W.garden[g]
    BY <2>2 DEF All
  <2>4. s.garden = g
    BY <2>3 DEF Beyond, Situated
  <2> QED BY <2>1, <2>3, <2>4 DEF Compatible
<1> SUFFICES ASSUME NEW r \in E \cup F, NEW s \in E \cup F, r.kind = "knowledge",
                    s.kind = "knowledge", Place(r) = Place(s)
             PROVE  r = s
  BY DEF Unique
<1>2. CASE r \in E /\ s \in E
  BY <1>2 DEF Unique
<1>3. CASE r \in F /\ s \in F
  BY <1>3 DEF Unique
<1> QED BY <1>1, <1>2, <1>3

\* A routing plan gives each of its units one home, which all agree on.
LEMMA RouteSound ==
    ASSUME NEW E, NEW W, NEW C, NEW q, NEW placed, NEW F, Sound(E), Beyond(E, W),
           Routable(W, C, q), placed = Placed(W, C, q), F = RouteFiles(W, C, q, placed),
           Placeable(W, q, placed, F)
    PROVE  Sound(E \cup F)
<1>1. ASSUME NEW r \in F
      PROVE  /\ DOMAIN r = DOMAIN Blank
             /\ \/ r.kind = "receipt" /\ r.unit = <<>> /\ r.id = <<"routing", q.id>>
                \/ /\ r.kind = "knowledge"
                   /\ r.role # "reference" => r.home = RefTo(r)
                   /\ \E s \in F : s.role = "canonical" /\ s.unit = r.unit /\ s.home = r.home
  <2>1. ASSUME NEW x \in placed
        PROVE  Knowledge(W, C, q, x) \in F
    BY <2>1 DEF RouteFiles
  <2> QED BY <2>1, RouteFileKinds, ReceiptIs, KnowledgeIs, ReferenceIs
<1>2. Fielded(F) /\ Moves(F) = {} /\ ReceiptsNamed(F) /\ UnitsNamed(F)
  <2>1. ReceiptsNamed(F)
    <3>1. \A a, b : <<a, b>>[2] = b
      OBVIOUS
    <3> QED BY <1>1, <3>1 DEF ReceiptsNamed
  <2>2. UnitsNamed(F)
    BY <1>1 DEF UnitsNamed
  <2>3. Fielded(F) /\ Moves(F) = {}
    BY <1>1 DEF Fielded, Moves
  <2> QED BY <2>1, <2>2, <2>3
<1>3. Unique(E \cup F)
  <2>1. Unambiguous(F) /\ Compatible(W, F)
    BY DEF Placeable
  <2>2. Unique(F)
    BY <2>1, PairsEqual DEF Unambiguous, Unique, Place
  <2>3. Files(F, W.bind)
    BY RouteFits DEF Beyond
  <2>4. \A r \in F : r.garden \in DOMAIN W.bind
    BY <2>3 DEF Files
  <2> QED BY <2>1, <2>2, <2>4, UniqueUnion DEF Sound, Linked
<1>4. ASSUME NEW u, NEW h, Gives(F, u, h)
      PROVE  /\ Known(F, h)
             /\ \E x \in placed : /\ h = HomeRef(x)
                                  /\ \/ u = Unit(q, x.c)
                                     \/ u = Selection(x.home, x.c.output, Evidence(x.c))
  <2>1. \E x \in placed : /\ h = HomeRef(x)
                          /\ \/ u = Unit(q, x.c)
                             \/ u = Selection(x.home, x.c.output, Evidence(x.c))
    BY <1>4, RouteGives
  <2>2. PICK x \in placed : h = HomeRef(x)
    BY <2>1
  <2>3. Knowledge(W, C, q, x) \in F
    BY DEF RouteFiles
  <2>4. Known(F, h)
    BY <2>2, <2>3, KnowledgeIs DEF Known
  <2> QED BY <2>1, <2>4
<1>5. ASSUME NEW g, NEW output, NEW evidence, NEW h,
             Gives(F, Selection(g, output, evidence), h)
      PROVE  h = SelectionHome(g, output)
  <2>1. PICK x \in placed : /\ h = HomeRef(x)
                            /\ Selection(g, output, evidence)
                                 = Selection(x.home, x.c.output, Evidence(x.c))
    BY <1>4, <1>5, UnitKinds
  <2>2. g = x.home /\ output = x.c.output
    BY <2>1, SelectionsEqual
  <2> QED BY <2>1, <2>2 DEF HomeRef, SelectionHome
<1>6. ASSUME NEW u, NEW h, NEW i, Gives(F, u, h), Gives(F, u, i)
      PROVE  h = i
  <2>1. PICK x \in placed : /\ h = HomeRef(x)
                            /\ \/ u = Unit(q, x.c)
                               \/ u = Selection(x.home, x.c.output, Evidence(x.c))
    BY <1>4, <1>6
  <2>2. PICK y \in placed : /\ i = HomeRef(y)
                            /\ \/ u = Unit(q, y.c)
                               \/ u = Selection(y.home, y.c.output, Evidence(y.c))
    BY <1>4, <1>6
  <2>3. \/ Unit(q, x.c) = Unit(q, y.c)
        \/ Selection(x.home, x.c.output, Evidence(x.c))
             = Selection(y.home, y.c.output, Evidence(y.c))
    BY <2>1, <2>2, UnitKinds
  <2> QED BY <2>1, <2>2, <2>3, PlacedOnce
<1>7. ASSUME NEW u, NEW h, NEW i, Gives(F, u, h), Gives(E, u, i)
      PROVE  i = h \/ Gives(E, u, h)
  <2>1. PICK x \in placed : /\ h = HomeRef(x)
                            /\ \/ u = Unit(q, x.c)
                               \/ u = Selection(x.home, x.c.output, Evidence(x.c))
    BY <1>4, <1>7
  <2>2. CASE u = Unit(q, x.c)
    <3>1. ~ Transferred(W, q, x)
      BY DEF Placeable
    <3> QED BY <1>7, <2>1, <2>2, <3>1, NoOtherHome
  <2>3. CASE u = Selection(x.home, x.c.output, Evidence(x.c))
    <3>1. Gives(E, u, SelectionHome(x.home, x.c.output))
      BY <1>7, <2>3 DEF Sound, Founded
    <3>2. h = SelectionHome(x.home, x.c.output)
      BY <2>1 DEF HomeRef, SelectionHome
    <3> QED BY <3>1, <3>2
  <2> QED BY <2>1, <2>2, <2>3
<1>8. Placing(E, F)
  <2>1. \A u, h : Gives(F, u, h) => Known(F, h)
    BY <1>4
  <2> QED BY <1>2, <1>3, <1>5, <1>6, <1>7, <2>1 DEF Placing
<1> QED BY <1>8, PlacingKeeps

LEMMA RetirementIs ==
    ASSUME NEW W, NEW t, NEW r \in Retirements(W, t)
    PROVE  /\ r.kind = "transition" /\ r.unit = <<>> /\ DOMAIN r = DOMAIN Blank
           /\ r.to = Target(W, t) /\ \E o \in Originals(W, t) : r.home = RefTo(o)
<1>1. PICK o \in Originals(W, t) :
        r = [Blank EXCEPT !.garden = o.garden, !.id = <<"transition", t.id, RefTo(o)>>,
                          !.kind = "transition", !.by = t.digest, !.home = RefTo(o),
                          !.to = Target(W, t)]
  BY DEF Retirements
<1>2. r.kind = "transition" /\ r.unit = <<>> /\ r.to = Target(W, t) /\ r.home = RefTo(o)
  BY <1>1 DEF Blank
<1>3. DOMAIN r = DOMAIN Blank
  BY <1>1
<1> QED BY <1>2, <1>3

LEMMA Retires ==
    ASSUME NEW W, NEW t, NEW o \in Originals(W, t)
    PROVE  \E m \in Moves(TransitionFiles(W, t)) : m.home = RefTo(o) /\ m.to = Target(W, t)
<1> DEFINE r == [Blank EXCEPT !.garden = o.garden, !.id = <<"transition", t.id, RefTo(o)>>,
                              !.kind = "transition", !.by = t.digest, !.home = RefTo(o),
                              !.to = Target(W, t)]
<1>1. r.kind = "transition" /\ r.to = Target(W, t) /\ r.home = RefTo(o)
  BY DEF Blank
<1>2. r \in Retirements(W, t)
  BY DEF Retirements
<1> QED BY <1>1, <1>2 DEF TransitionFiles, Moves

LEMMA BlankFields ==
    /\ "garden" \in DOMAIN Blank /\ "id" \in DOMAIN Blank /\ "by" \in DOMAIN Blank
    /\ "unit" \in DOMAIN Blank /\ "scope" \in DOMAIN Blank /\ "role" \in DOMAIN Blank
    /\ "home" \in DOMAIN Blank /\ "inputs" \in DOMAIN Blank
BY DEF Blank

LEMMA DerivativeIs ==
    ASSUME NEW W, NEW t, NEW r, DOMAIN r = DOMAIN Blank, NEW d, d = Derivative(W, t, r)
    PROVE  /\ d.kind = r.kind /\ d.role = "canonical" /\ d.home = Target(W, t)
           /\ d.unit = IF r.unit = <<>> THEN Unrouted(r) ELSE r.unit
           /\ RefTo(d) = Ref(t.to.garden, t.to.id, r.body)
           /\ d.garden = t.to.garden /\ DOMAIN d = DOMAIN Blank
<1>1. /\ d.kind = r.kind /\ d.role = "canonical" /\ d.home = Target(W, t)
      /\ d.unit = IF r.unit = <<>> THEN Unrouted(r) ELSE r.unit
      /\ d.garden = t.to.garden /\ d.id = t.to.id /\ d.body = r.body
  BY BlankFields DEF Derivative
<1>2. DOMAIN d = DOMAIN Blank
  BY DEF Derivative
<1> QED BY <1>1, <1>2 DEF RefTo

\* What a transition retires are notes that the plan has read.
LEMMA OriginalIs ==
    ASSUME NEW E, NEW W, NEW t, Sound(E), Beyond(E, W), Transferable(W, t),
           NEW o \in Originals(W, t)
    PROVE  o \in E /\ o.kind = "knowledge" /\ DOMAIN o = DOMAIN Blank
<1>1. PICK ref \in t.from : o = Record(W, ref)
  BY DEF Originals
<1>2. Exists(W, ref) /\ Record(W, ref).kind = "knowledge"
  BY DEF Transferable, Resolves
<1>3. Record(W, ref) \in All(W)
  BY <1>2, RecordFound DEF Beyond
<1> QED BY <1>1, <1>2, <1>3 DEF Beyond, Sound, Fielded

\* A note that retires has the home that its unit has.
LEMMA OwnHome ==
    ASSUME NEW E, Sound(E), NEW o \in E, o.kind = "knowledge", o.role # "reference"
    PROVE  Gives(E, IF o.unit = <<>> THEN Unrouted(o) ELSE o.unit, RefTo(o))
<1>1. CASE o.unit = <<>>
  BY <1>1 DEF Gives, ByItself
<1>2. CASE o.unit # <<>>
  <2>1. o.home = RefTo(o)
    BY <1>2 DEF Sound, UnitsNamed
  <2> QED BY <1>2, <2>1 DEF Gives, ByRecord
<1> QED BY <1>1, <1>2

\* A move makes the one note that it is about again, where it says.
LEMMA MoveIs ==
    ASSUME NEW E, NEW W, NEW t, Sound(E), Beyond(E, W), Transferable(W, t),
           t.operation = "move", IsFiniteSet(t.from)
    PROVE  \E o \in Originals(W, t) :
             /\ Originals(W, t) = {o} /\ o.role # "reference"
             /\ Target(W, t) = Ref(t.to.garden, t.to.id, o.body)
<1>1. Movable(W, t)
  BY DEF Transferable
<1>2. PICK ref : t.from = {ref}
  BY <1>1, FS_Singleton DEF Movable
<1>3. Originals(W, t) = {Record(W, ref)}
  BY <1>2 DEF Originals
<1>4. (CHOOSE r \in Originals(W, t) : TRUE) = Record(W, ref)
  BY <1>3
<1>5. Target(W, t) = Ref(t.to.garden, t.to.id, Record(W, ref).body)
  BY <1>4 DEF Target
<1>6. Record(W, ref) \in Originals(W, t) /\ Record(W, ref).role # "reference"
  BY <1>1, <1>3 DEF Movable
<1> QED BY <1>3, <1>5, <1>6

LEMMA FiniteRetirements ==
    ASSUME NEW W, NEW t, IsFiniteSet(t.from)
    PROVE  IsFiniteSet(Retirements(W, t))
<1> DEFINE Make(ref) == [Blank EXCEPT
              !.garden = Record(W, ref).garden,
              !.id = <<"transition", t.id, RefTo(Record(W, ref))>>,
              !.kind = "transition", !.by = t.digest, !.home = RefTo(Record(W, ref)),
              !.to = Target(W, t)]
           f == [ref \in t.from |-> Make(ref)]
<1>1. Retirements(W, t) = {Make(ref) : ref \in t.from}
  BY DEF Retirements, Originals
<1>2. f \in [t.from -> Retirements(W, t)] /\ Retirements(W, t) = {f[ref] : ref \in t.from}
  <2> HIDE DEF Make
  <2> QED BY <1>1
<1>3. f \in Surjection(t.from, Retirements(W, t))
  <2> HIDE DEF f
  <2> QED BY <1>2 DEF Surjection
<1> QED BY <1>3, FS_Surjection

\* A transition gives a unit a new home only when it retires the old one for it.
LEMMA TransitionSound ==
    ASSUME NEW E, NEW W, NEW t, NEW F, Sound(E), Beyond(E, W), Transferable(W, t),
           IsFiniteSet(t.from), F = TransitionFiles(W, t), Consistent(E \cup F)
    PROVE  Sound(E \cup F)
<1> DEFINE R == Retirements(W, t)
           D == IF t.operation = "move" THEN {Derivative(W, t, r) : r \in Originals(W, t)} ELSE {}
<1>1. F = R \cup D
  BY DEF TransitionFiles
<1>2. ASSUME NEW r \in R
      PROVE  /\ r.kind = "transition" /\ r.unit = <<>> /\ DOMAIN r = DOMAIN Blank
             /\ r.to = Target(W, t) /\ \E o \in Originals(W, t) : r.home = RefTo(o)
  BY RetirementIs
<1>3. ASSUME NEW d \in D
      PROVE  /\ t.operation = "move" /\ D = {d} /\ d.kind = "knowledge" /\ d.role = "canonical"
             /\ d.unit # <<>> /\ d.home = RefTo(d) /\ d.home = Target(W, t)
             /\ d.garden = t.to.garden /\ DOMAIN d = DOMAIN Blank
             /\ \E m \in Moves(F) : m.to = Target(W, t) /\ Gives(E, d.unit, m.home)
  <2>0. t.operation = "move"
    BY <1>3
  <2>1. PICK o \in Originals(W, t) : /\ Originals(W, t) = {o} /\ o.role # "reference"
                                     /\ Target(W, t) = Ref(t.to.garden, t.to.id, o.body)
    BY <2>0, MoveIs
  <2>2. D = {Derivative(W, t, o)} /\ d = Derivative(W, t, o)
    BY <2>0, <2>1, <1>3
  <2>3. o \in E /\ o.kind = "knowledge" /\ DOMAIN o = DOMAIN Blank
    BY OriginalIs
  <2>4. /\ d.kind = o.kind /\ d.role = "canonical" /\ d.home = Target(W, t)
        /\ d.unit = IF o.unit = <<>> THEN Unrouted(o) ELSE o.unit
        /\ RefTo(d) = Ref(t.to.garden, t.to.id, o.body)
        /\ d.garden = t.to.garden /\ DOMAIN d = DOMAIN Blank
    BY <2>2, <2>3, DerivativeIs
  <2>5. d.unit # <<>>
    BY <2>4, UnitKinds
  <2>6. Gives(E, d.unit, RefTo(o))
    BY <2>1, <2>3, <2>4, OwnHome
  <2>7. \E m \in Moves(F) : m.home = RefTo(o) /\ m.to = Target(W, t)
    BY Retires
  <2> QED BY <2>0, <2>1, <2>2, <2>3, <2>4, <2>5, <2>6, <2>7
<1> HIDE DEF R, D
<1>4. Moves(F) = R
  BY <1>1, <1>2, <1>3 DEF Moves
<1>5. Fielded(F) /\ ReceiptsNamed(F) /\ UnitsNamed(F)
  <2>1. Fielded(F) /\ ReceiptsNamed(F)
    BY <1>1, <1>2, <1>3 DEF Fielded, ReceiptsNamed
  <2>2. UnitsNamed(F)
    <3> SUFFICES ASSUME NEW r \in F, r.unit # <<>>
                 PROVE  /\ r.role # "reference" => r.home = RefTo(r)
                        /\ \E s \in F : s.role = "canonical" /\ s.unit = r.unit /\ s.home = r.home
      BY DEF UnitsNamed
    <3>1. r \in D
      BY <1>1, <1>2
    <3>2. r.role = "canonical" /\ r.home = RefTo(r)
      BY <3>1, <1>3
    <3> QED BY <3>2
  <2> QED BY <2>1, <2>2
<1>6. Unique(E \cup F)
  <2>1. Compatible(W, F) /\ t.to.garden \in DOMAIN W.bind
    BY DEF Transferable
  <2>2. ASSUME NEW r \in F, r.kind = "knowledge"
        PROVE  r.garden \in DOMAIN W.bind /\ D = {r}
    <3>1. r \in D
      BY <2>2, <1>1, <1>2
    <3> QED BY <3>1, <2>1, <1>3
  <2>3. Unique(F)
    <3> SUFFICES ASSUME NEW r \in F, NEW s \in F, r.kind = "knowledge", s.kind = "knowledge"
                 PROVE  r = s
      BY DEF Unique
    <3>1. D = {r} /\ D = {s}
      BY <2>2
    <3> QED BY <3>1
  <2> QED BY <2>1, <2>2, <2>3, UniqueUnion DEF Sound, Linked
<1>7. Known(E \cup F, Target(W, t))
  <2>1. CASE t.operation = "move"
    <3>1. PICK o \in Originals(W, t) : Originals(W, t) = {o}
      BY <2>1, MoveIs
    <3>2. Derivative(W, t, o) \in D
      BY <2>1, <3>1 DEF D
    <3>3. PICK d \in D : TRUE
      BY <3>2
    <3>4. d \in E \cup F /\ d.kind = "knowledge" /\ RefTo(d) = Target(W, t)
      BY <3>3, <1>1, <1>3
    <3> QED BY <3>4 DEF Known
  <2>2. CASE t.operation # "move"
    <3>1. Resolves(W, t, t.to) /\ Target(W, t) = t.to
      BY <2>2 DEF Transferable, Mergeable, Target
    <3>2. Record(W, t.to) \in All(W) /\ RefTo(Record(W, t.to)) = t.to
      BY <3>1, RecordFound DEF Resolves, Beyond
    <3>3. Record(W, t.to) \in E \cup F /\ Record(W, t.to).kind = "knowledge"
      BY <3>1, <3>2 DEF Resolves, Beyond
    <3> QED BY <3>1, <3>2, <3>3 DEF Known
  <2> QED BY <2>1, <2>2
<1>8. MovesKnown(E \cup F)
  <2> SUFFICES ASSUME NEW m \in Moves(E \cup F)
               PROVE  Known(E \cup F, m.home) /\ Known(E \cup F, m.to)
    BY DEF MovesKnown
  <2>1. CASE m \in Moves(E)
    BY <2>1, KnownMore DEF Sound, Linked, MovesKnown
  <2>2. CASE m \in R
    <3>1. PICK o \in Originals(W, t) : m.home = RefTo(o)
      BY <2>2, <1>2
    <3>2. o \in E \cup F /\ o.kind = "knowledge"
      BY OriginalIs
    <3>3. Known(E \cup F, m.home)
      BY <3>1, <3>2 DEF Known
    <3> QED BY <2>2, <3>3, <1>2, <1>7
  <2> QED BY <1>4, <2>1, <2>2 DEF Moves
<1>9. IsFiniteSet(Moves(E \cup F))
  <2>1. Moves(E \cup F) = Moves(E) \cup R
    BY <1>4 DEF Moves
  <2>2. IsFiniteSet(R) /\ IsFiniteSet(Moves(E))
    BY FiniteRetirements DEF R, Sound, Linked
  <2> QED BY <2>1, <2>2, FS_Union
<1>10. ASSUME NEW u, NEW h, Gives(F, u, h)
       PROVE  \E m \in Moves(F) : m.to = h /\ Gives(E, u, m.home)
  <2>1. ASSUME NEW r \in F, r.unit # <<>> \/ r.kind \in {"receipt", "knowledge"}
        PROVE  r \in D
    BY <2>1, <1>1, <1>2
  <2>2. ~ ByReceipt(F, u, h)
    BY <2>1, <1>3 DEF ByReceipt
  <2>3. ~ ByItself(F, u, h)
    BY <2>1, <1>3 DEF ByItself
  <2>4. PICK r \in F : r.unit # <<>> /\ u = r.unit /\ h = r.home
    BY <1>10, <2>2, <2>3 DEF Gives, ByRecord
  <2> QED BY <2>1, <2>4, <1>3
<1>11. Moving(E, F)
  BY <1>5, <1>6, <1>8, <1>9, <1>10 DEF Moving, Linked
<1> QED BY <1>11, MovingKeeps

(***************************************************************************)
(* One home, whatever the invocations do.                                  *)
(***************************************************************************)
\* A record that nobody has routed.
Plain(r) == r.unit = <<>> /\ r.kind \notin {"receipt", "transition"}

\* Nothing is routed at first, and a garden has one note of each name.
FirstRouting ==
    \A G \in Gardens : \A g \in DOMAIN G :
        /\ \A r \in G[g] : Plain(r)
        /\ \A r, s \in G[g] :
              r.kind = "knowledge" /\ s.kind = "knowledge" /\ r.id = s.id => r = s

\* A transition is of finitely many notes.
FiniteTransitions == \A t \in Transitions : IsFiniteSet(t.from)

\* What a plan has been made of.
MadeRoute(plan, q, C) ==
    /\ Routable(plan.seen, C, q)
    /\ plan.files = RouteFiles(plan.seen, C, q, Placed(plan.seen, C, q))
    /\ Placeable(plan.seen, q, Placed(plan.seen, C, q), plan.files)
MadeTransition(plan, t) ==
    Transferable(plan.seen, t) /\ plan.files = TransitionFiles(plan.seen, t)
Made(plan) ==
    /\ plan.files # {}
    /\ \/ \E q \in Requests, C \in Catalogs : MadeRoute(plan, q, C)
       \/ \E t \in Transitions : MadeTransition(plan, t)

\* A plan that is being applied is all there, or the gardens are as it has read them,
\* and the transitions are consistent with it.
Ready(plan) ==
    /\ Whole(plan) /\ Unchanged(plan)
    /\ Consistent(All([garden |-> Staged(plan), bind |-> plan.seen.bind]))

UnboundPlain == \A g \in DOMAIN garden \ DOMAIN bind : \A r \in garden[g] : Plain(r)
PlansMade == \A p \in Router : task[p].pc # "idle" => Made(task[p].plan)
PlansReady ==
    \A p \in Router : task[p].pc = "checked" =>
        /\ Ready(task[p].plan)
        /\ \A q \in Router : task[q].pc = "checked" => p = q

HomesInv == RoutersInv /\ Sound(Everything) /\ UnboundPlain /\ PlansMade /\ PlansReady

\* While nothing is routed every note is its own home.
LEMMA PlainSound ==
    ASSUME NEW E, Fielded(E), \A r \in E : Plain(r), Unique(E)
    PROVE  Sound(E)
<1>1. Moves(E) = {}
  BY DEF Moves, Plain
<1>2. Linked(E)
  <2>1. Retired(E) = {}
    BY <1>1 DEF Retired
  <2>2. Consistent(E)
    BY <1>1, <2>1, ConsistentIs
  <2> QED BY <1>1, <2>2, FS_EmptySet DEF Linked, MovesKnown
<1>3. ReceiptsNamed(E) /\ UnitsNamed(E)
  BY DEF ReceiptsNamed, UnitsNamed, Plain
<1>4. ASSUME NEW u, NEW h, Gives(E, u, h)
      PROVE  ByItself(E, u, h)
  BY <1>4 DEF Gives, ByRecord, ByReceipt, Plain
<1>5. Founded(E)
  <2> SUFFICES ASSUME NEW g, NEW output, NEW evidence, NEW h,
                      Gives(E, Selection(g, output, evidence), h)
               PROVE  FALSE
    BY DEF Founded
  <2>1. ByItself(E, Selection(g, output, evidence), h)
    BY <1>4
  <2> QED BY <2>1, UnitKinds DEF ByItself
<1>6. HomesKnown(E)
  BY <1>4 DEF HomesKnown, ByItself, Known
<1>7. HomesAgree(E)
  <2> SUFFICES ASSUME NEW u, NEW h, NEW i, Gives(E, u, h), Gives(E, u, i)
               PROVE  h = i
    BY DEF HomesAgree
  <2>1. PICK r \in E : r.kind = "knowledge" /\ u = Unrouted(r) /\ h = RefTo(r)
    BY <1>4 DEF ByItself
  <2>2. PICK s \in E : s.kind = "knowledge" /\ u = Unrouted(s) /\ i = RefTo(s)
    BY <1>4 DEF ByItself
  <2>3. r.garden = s.garden /\ r.id = s.id
    <3>1. \A a, b, c, d, e, f : <<a, b, c>> = <<d, e, f>> => a = d /\ c = f
      OBVIOUS
    <3> QED BY <2>1, <2>2, <3>1 DEF Unrouted
  <2>4. r = s
    BY <2>1, <2>2, <2>3 DEF Unique, Place
  <2> QED BY <2>1, <2>2, <2>4
<1> QED BY <1>2, <1>3, <1>5, <1>6, <1>7 DEF Sound

\* At first nothing is routed.
LEMMA HomesStart ==
    ASSUME FirstRouting, Init
    PROVE  HomesInv
<1>1. RoutersInv
  BY RoutersStart
<1>2. garden \in Gardens /\ bind \in Bindings /\ task = [p \in Router |-> Idle]
  BY DEF Init
<1>3. ASSUME NEW r \in Everything
      PROVE  Plain(r) /\ DOMAIN r = DOMAIN Blank /\ r \in garden[r.garden] /\ r.garden \in DOMAIN garden
  <2>1. PICK g \in DOMAIN garden : r \in garden[g]
    BY DEF Everything
  <2>2. r.garden = g
    BY <2>1, <1>1 DEF RoutersInv, Typed
  <2>3. Plain(r)
    BY <2>1, <1>2 DEF FirstRouting
  <2>4. DOMAIN r = DOMAIN Blank
    BY <2>1, <1>2, BindingsAssumption
  <2> QED BY <2>1, <2>2, <2>3, <2>4
<1>4. Unique(Everything)
  <2> SUFFICES ASSUME NEW r \in Everything, NEW s \in Everything, r.kind = "knowledge",
                      s.kind = "knowledge", Place(r) = Place(s)
               PROVE  r = s
    BY DEF Unique
  <2>1. r.garden = s.garden /\ r.id = s.id
    BY PairsEqual DEF Place
  <2> QED BY <2>1, <1>2, <1>3 DEF FirstRouting
<1>5. Sound(Everything)
  BY <1>3, <1>4, PlainSound DEF Fielded
<1>6. UnboundPlain
  BY <1>2 DEF UnboundPlain, FirstRouting
<1>7. PlansMade /\ PlansReady
  BY <1>2 DEF PlansMade, PlansReady, Idle
<1> QED BY <1>1, <1>5, <1>6, <1>7 DEF HomesInv

\* What a plan that is saved says of itself.
LEMMA PlanHomes ==
    ASSUME HomesInv, RoutersInv', NEW p \in Router, task[p].pc = "idle", NEW files,
           PlanWith(p, files), Made(Plan(files))
    PROVE  HomesInv'
<1> DEFINE new == [pc |-> "planned", plan |-> Plan(files)]
<1>1. task' = [task EXCEPT ![p] = new] /\ UNCHANGED <<garden, bind>>
  BY DEF PlanWith
<1>2. \A q \in Router : task'[q] = IF q = p THEN new ELSE task[q]
  BY <1>1 DEF HomesInv, RoutersInv, Typed
<1>3. Everything' = Everything /\ (Sound(Everything))'
  BY <1>1 DEF Everything, HomesInv
<1>4. UnboundPlain'
  BY <1>1 DEF HomesInv, UnboundPlain
<1>5. PlansMade'
  BY <1>2 DEF HomesInv, PlansMade
<1>6. PlansReady'
  <2>1. \A q \in Router : task'[q].pc = "checked" => task'[q] = task[q] /\ task[q].pc = "checked"
    BY <1>2
  <2>2. ASSUME NEW q \in Router, task'[q].pc = "checked"
        PROVE  Ready(task[q].plan)' /\ task'[q].plan = task[q].plan
    <3>1. Ready(task[q].plan)
      BY <2>1, <2>2 DEF HomesInv, PlansReady
    <3>2. task'[q].plan = task[q].plan
      BY <2>1, <2>2
    <3> QED BY <3>1, <3>2, <1>1 DEF Ready, Whole, Unchanged, Staged
  <2> QED BY <2>1, <2>2 DEF HomesInv, PlansReady
<1> QED BY <1>3, <1>4, <1>5, <1>6 DEF HomesInv

\* Invocations wait while one applies its plan, and it applies a plan that is whole.
LEMMA CheckHomes ==
    ASSUME Gaps = {}, HomesInv, RoutersInv', NEW p \in Router, Check(p)
    PROVE  HomesInv'
<1>1. /\ task[p].pc = "planned" /\ Locked = {} /\ Whole(task[p].plan)
      /\ UNCHANGED <<garden, bind>>
      /\ \/ task' = [task EXCEPT ![p].pc = "checked"]
            /\ Verified(task[p].plan) /\ Validated(task[p].plan)
         \/ task' = [task EXCEPT ![p] = Idle]
  BY DEF Check, Goto, Give
<1>2. \A q \in Router : task'[q].pc = "idle" \/ (task[q].pc # "idle" /\ task'[q].plan = task[q].plan)
  BY <1>1 DEF HomesInv, RoutersInv, Typed, Idle
<1>3. ASSUME NEW q \in Router, task[q].pc = "checked"
      PROVE  FALSE
  <2>1. Targets(task[q].plan) \subseteq Locked
    BY <1>3 DEF Locked
  <2>2. Made(task[q].plan)
    BY <1>3 DEF HomesInv, PlansMade
  <2>3. Targets(task[q].plan) # {}
    BY <2>2 DEF Made, Targets
  <2> QED BY <1>1, <2>1, <2>3
<1>4. \A q \in Router : task'[q].pc = "checked" => p = q
  BY <1>1, <1>3 DEF HomesInv, RoutersInv, Typed, Idle
<1>5. (Sound(Everything))' /\ UnboundPlain'
  BY <1>1 DEF Everything, HomesInv, UnboundPlain
<1>6. PlansMade'
  BY <1>2 DEF HomesInv, PlansMade
<1>7. PlansReady'
  <2> SUFFICES ASSUME task'[p].pc = "checked"
               PROVE  Ready(task[p].plan)'
    BY <1>4 DEF PlansReady
  <2>1. /\ Verified(task[p].plan) /\ Validated(task[p].plan)
        /\ task'[p].plan = task[p].plan
    BY <1>1, <1>2 DEF HomesInv, RoutersInv, Typed, Idle
  <2>2. [World EXCEPT !.garden = Staged(task[p].plan)]
            = [garden |-> Staged(task[p].plan), bind |-> task[p].plan.seen.bind]
    BY <2>1 DEF World, Verified
  <2>3. Ready(task[p].plan)
    BY <1>1, <2>1, <2>2 DEF Ready, Validated
  <2> QED BY <2>1, <2>3, <1>1 DEF Ready, Whole, Unchanged, Staged
<1> QED BY <1>5, <1>6, <1>7 DEF HomesInv


\* What a plan that is ready has read is what the bound gardens hold.
LEMMA ReadyBeyond ==
    ASSUME RoutersInv, UnboundPlain, NEW plan, plan.seen.bind = bind,
           \A g \in DOMAIN bind : garden[g] = plan.seen.garden[g]
    PROVE  Beyond(Everything, plan.seen)
<1>1. DOMAIN bind \subseteq DOMAIN garden
  BY DEF RoutersInv, Typed
<1>2. Situated(plan.seen)
  BY <1>1 DEF RoutersInv, Typed, Situated
<1>3. All(plan.seen) \subseteq Everything
  BY <1>1 DEF All, Everything
<1>4. ASSUME NEW r \in Everything, r \notin All(plan.seen)
      PROVE  r.garden \notin DOMAIN bind /\ Plain(r)
  <2>1. PICK g \in DOMAIN garden : r \in garden[g] /\ r.garden = g
    BY DEF Everything, RoutersInv, Typed
  <2>2. g \notin DOMAIN bind
    BY <1>4, <2>1 DEF All
  <2> QED BY <2>1, <2>2 DEF UnboundPlain
<1> QED BY <1>2, <1>3, <1>4 DEF Beyond, Plain

\* All that is there when the files of a plan have been selected.
LEMMA StagedIs ==
    ASSUME RoutersInv, UnboundPlain, NEW plan, plan.seen.bind = bind, Files(plan.files, bind)
    PROVE  /\ UNION {Staged(plan)[g] : g \in DOMAIN Staged(plan)} = Everything \cup plan.files
           /\ Moves(Everything \cup plan.files)
                = Moves(All([garden |-> Staged(plan), bind |-> plan.seen.bind]))
           /\ \A g \in DOMAIN garden \ DOMAIN bind : Staged(plan)[g] = garden[g]
<1>1. /\ DOMAIN Staged(plan) = DOMAIN garden
      /\ \A g \in DOMAIN garden : Staged(plan)[g] = garden[g] \cup FilesOf(plan, g)
  BY DEF Staged
<1>2. DOMAIN bind \subseteq DOMAIN garden
  BY DEF RoutersInv, Typed
<1>3. \A r \in plan.files : r.garden \in DOMAIN bind /\ r \in FilesOf(plan, r.garden)
  BY DEF Files, FilesOf
<1>4. \A g \in DOMAIN garden : FilesOf(plan, g) \subseteq plan.files
  BY DEF FilesOf
<1>5. UNION {Staged(plan)[g] : g \in DOMAIN Staged(plan)} = Everything \cup plan.files
  BY <1>1, <1>2, <1>3, <1>4 DEF Everything
<1>6. \A g \in DOMAIN garden \ DOMAIN bind : Staged(plan)[g] = garden[g]
  BY <1>1, <1>3 DEF FilesOf
<1>7. All([garden |-> Staged(plan), bind |-> plan.seen.bind])
          = UNION {Staged(plan)[g] : g \in DOMAIN bind}
  BY DEF All
<1>8. \A r \in Everything \cup plan.files : r.kind = "transition"
          => r \in UNION {Staged(plan)[g] : g \in DOMAIN bind}
  <2> SUFFICES ASSUME NEW r \in Everything \cup plan.files, r.kind = "transition"
               PROVE  \E g \in DOMAIN bind : r \in Staged(plan)[g]
    OBVIOUS
  <2>1. CASE r \in plan.files
    BY <1>1, <1>2, <1>3, <2>1
  <2>2. CASE r \in Everything
    <3>1. PICK g \in DOMAIN garden : r \in garden[g]
      BY <2>2 DEF Everything
    <3>2. g \in DOMAIN bind
      BY <3>1 DEF UnboundPlain, Plain
    <3> QED BY <1>1, <3>1, <3>2
  <2> QED BY <2>1, <2>2
<1>9. UNION {Staged(plan)[g] : g \in DOMAIN bind} \subseteq Everything \cup plan.files
  BY <1>1, <1>2, <1>5
<1>10. Moves(Everything \cup plan.files)
           = Moves(UNION {Staged(plan)[g] : g \in DOMAIN bind})
  BY <1>8, <1>9 DEF Moves
<1> QED BY <1>5, <1>6, <1>7, <1>10

\* A plan that is made of what is there gives no unit a second home.
LEMMA MadeSound ==
    ASSUME FiniteTransitions, NEW E, Sound(E), NEW plan, Made(plan), Beyond(E, plan.seen),
           Consistent(E \cup plan.files)
    PROVE  Sound(E \cup plan.files)
<1>1. CASE \E q \in Requests, C \in Catalogs : MadeRoute(plan, q, C)
  BY <1>1, RouteSound DEF MadeRoute
<1>2. CASE \E t \in Transitions : MadeTransition(plan, t)
  BY <1>2, TransitionSound DEF MadeTransition, FiniteTransitions
<1> QED BY <1>1, <1>2 DEF Made

\* The gardens have the plan's files already, or are as it has read them.
LEMMA SelectHomes ==
    ASSUME FiniteTransitions, HomesInv, RoutersInv', NEW p \in Router, Select(p)
    PROVE  HomesInv'
<1> DEFINE plan == task[p].plan
<1>1. /\ task[p].pc = "checked" /\ task' = [task EXCEPT ![p] = Idle] /\ bind' = bind
      /\ garden' = IF Verified(plan) THEN Staged(plan) ELSE garden
  BY DEF Select, Give
<1>2. \A q \in Router : task'[q] = IF q = p THEN Idle ELSE task[q]
  BY <1>1 DEF HomesInv, RoutersInv, Typed
<1>3. PlansMade'
  BY <1>2 DEF HomesInv, PlansMade, Idle
<1>4. PlansReady'
  <2>1. \A q \in Router : task'[q].pc # "checked"
    BY <1>1, <1>2 DEF HomesInv, PlansReady, Idle
  <2> QED BY <2>1 DEF PlansReady
<1>5. Made(plan) /\ Ready(plan) /\ Files(plan.files, plan.seen.bind)
  BY <1>1 DEF HomesInv, PlansMade, PlansReady, RoutersInv, PlansFit
<1>6. CASE ~ Verified(plan)
  <2>1. garden' = garden
    BY <1>1, <1>6
  <2> QED BY <1>1, <1>3, <1>4, <2>1 DEF HomesInv, Everything, UnboundPlain
<1>7. CASE Verified(plan)
  <2>1. garden' = Staged(plan) /\ plan.seen.bind = bind
    BY <1>1, <1>7 DEF Verified
  <2> HIDE DEF plan
  <2>2. /\ Everything' = Everything \cup plan.files
        /\ Moves(Everything \cup plan.files)
             = Moves(All([garden |-> Staged(plan), bind |-> plan.seen.bind]))
        /\ \A g \in DOMAIN garden \ DOMAIN bind : garden'[g] = garden[g]
    BY <2>1, <1>5, StagedIs DEF HomesInv, Everything
  <2>3. DOMAIN garden' = DOMAIN garden
    BY <2>1 DEF Staged
  <2>4. UnboundPlain'
    BY <1>1, <2>2, <2>3 DEF HomesInv, UnboundPlain
  <2>5. Sound(Everything \cup plan.files)
    <3>1. CASE \A g \in Targets(plan) : FilesOf(plan, g) \subseteq garden[g]
      <4>1. \A r \in plan.files : r \in garden[r.garden] /\ r.garden \in DOMAIN garden
        BY <3>1, <1>5, <2>1 DEF Targets, FilesOf, Files, HomesInv, RoutersInv, Typed
      <4>2. Everything \cup plan.files = Everything
        BY <4>1 DEF Everything
      <4> QED BY <4>2 DEF HomesInv
    <3>2. CASE \A g \in Targets(plan) : garden[g] = plan.seen.garden[g]
      <4>1. \A g \in DOMAIN bind : garden[g] = plan.seen.garden[g]
        BY <3>2, <1>5, <2>1 DEF Ready, Unchanged
      <4>2. Beyond(Everything, plan.seen)
        BY <4>1, <2>1, ReadyBeyond DEF HomesInv
      <4>3. Consistent(Everything \cup plan.files)
        BY <1>5, <2>2, SameMoves DEF Ready
      <4> QED BY <1>5, <4>2, <4>3, MadeSound DEF HomesInv
    <3> QED BY <1>5, <3>1, <3>2 DEF Ready, Whole
  <2>6. (Sound(Everything))'
    BY <2>2, <2>5
  <2> QED BY <1>3, <1>4, <2>4, <2>6 DEF HomesInv
<1> QED BY <1>6, <1>7

\* Every step keeps one home, when none of the gaps is met.
LEMMA HomesStep ==
    ASSUME Gaps = {}, FiniteTransitions, HomesInv, [Next]_vars
    PROVE  HomesInv'
<1>1. RoutersInv'
  BY RoutersStep DEF HomesInv
<1>2. ASSUME NEW p \in Router, PlanRoute(p)
      PROVE  HomesInv'
  <2> DEFINE routed(C, q) == RouteFiles(World, C, q, Placed(World, C, q))
  <2>1. PICK q \in Requests, C \in Catalogs :
            /\ task[p].pc = "idle" /\ PlanWith(p, routed(C, q))
            /\ Routable(World, C, q)
            /\ Placeable(World, q, Placed(World, C, q), routed(C, q))
    BY <1>2 DEF PlanRoute
  <2> DEFINE files == routed(C, q)
  <2>2. Plan(files).seen = World /\ Plan(files).files = files /\ files # {}
    BY <2>1 DEF Plan, PlanWith
  <2>3. MadeRoute(Plan(files), q, C)
    BY <2>1, <2>2 DEF MadeRoute
  <2>4. Made(Plan(files))
    BY <2>2, <2>3 DEF Made
  <2> QED BY <1>1, <2>1, <2>4, PlanHomes
<1>3. ASSUME NEW p \in Router, PlanTransition(p)
      PROVE  HomesInv'
  <2>1. PICK t \in Transitions :
            /\ task[p].pc = "idle" /\ PlanWith(p, TransitionFiles(World, t))
            /\ Transferable(World, t)
    BY <1>3 DEF PlanTransition
  <2> DEFINE files == TransitionFiles(World, t)
  <2>2. Plan(files).seen = World /\ Plan(files).files = files /\ files # {}
    BY <2>1 DEF Plan, PlanWith
  <2>3. Made(Plan(files))
    BY <2>1, <2>2 DEF Made, MadeTransition
  <2> QED BY <1>1, <2>1, <2>3, PlanHomes
<1>4. ASSUME Rebind
      PROVE  HomesInv'
  <2>1. DOMAIN bind \subseteq DOMAIN bind' /\ UNCHANGED <<garden, task>>
    BY <1>4 DEF Rebind
  <2>2. (Sound(Everything))' /\ UnboundPlain' /\ PlansMade'
    BY <2>1 DEF HomesInv, Everything, UnboundPlain, PlansMade
  <2>3. PlansReady'
    BY <2>1 DEF HomesInv, PlansReady, Ready, Whole, Unchanged, Staged
  <2> QED BY <1>1, <2>2, <2>3 DEF HomesInv
<1>5. CASE UNCHANGED vars
  <2>1. UNCHANGED <<garden, bind, task>>
    BY <1>5 DEF vars
  <2> QED BY <1>1, <2>1
        DEF HomesInv, Everything, UnboundPlain, PlansMade, PlansReady, Ready, Whole, Unchanged, Staged
<1>6. CASE Next
  BY <1>6, <1>1, <1>2, <1>3, <1>4, CheckHomes, SelectHomes DEF Next
<1> QED BY <1>5, <1>6

\* All that names a home of a unit leads to one note that stands.
LEMMA SoundHomes ==
    ASSUME Sound(Everything)
    PROVE  OneHome
<1>1. ASSUME NEW c \in Claimed
      PROVE  Gives(Everything, c[1], c[2])
  <2>1. CASE \E r \in Everything : r.unit # <<>> /\ c = <<r.unit, r.home>>
    <3>1. PICK r \in Everything : r.unit # <<>> /\ c = <<r.unit, r.home>>
      BY <2>1
    <3>2. c[1] = r.unit /\ c[2] = r.home
      BY <3>1
    <3> QED BY <3>1, <3>2 DEF Gives, ByRecord
  <2>2. CASE \E r \in Everything : /\ r.kind = "receipt"
                                  /\ \E d \in r.decisions :
                                        c = <<<<r.id[2], d.candidate>>, d.home>>
    <3>1. PICK r \in Everything : /\ r.kind = "receipt"
                                  /\ \E d \in r.decisions :
                                        c = <<<<r.id[2], d.candidate>>, d.home>>
      BY <2>2
    <3>2. PICK d \in r.decisions : c = <<<<r.id[2], d.candidate>>, d.home>>
      BY <3>1
    <3>3. c[1] = <<r.id[2], d.candidate>> /\ c[2] = d.home
      BY <3>2
    <3> QED BY <3>1, <3>3 DEF Gives, ByReceipt
  <2> QED BY <2>1, <2>2 DEF Claimed
<1>2. ASSUME NEW c \in Claimed
      PROVE  Stands(Everything, Lead(Everything, c[2]))
  <2>1. Known(Everything, c[2])
    BY <1>1 DEF Sound, HomesKnown
  <2> QED BY <2>1, LeadStands DEF Sound
<1>3. ASSUME NEW c \in Claimed, NEW d \in Claimed, d[1] = c[1]
      PROVE  Lead(Everything, d[2]) = Lead(Everything, c[2])
  BY <1>1, <1>3 DEF Sound, HomesAgree
<1> QED BY <1>2, <1>3 DEF OneHome, Stands, Known

\* Whatever is routed, moved and merged, all that names a home of a unit leads to
\* one note that is there and is not retired: when one plan is applied at a time,
\* all gardens are read, no plan is half there already, and no unit was routed before.
THEOREM UnitsKeepOneHome ==
    ASSUME Gaps = {}, FirstRouting, FiniteTransitions
    PROVE  Spec => []OneHome
<1>1. Init => HomesInv
  BY HomesStart
<1>2. HomesInv /\ [Next]_vars => HomesInv'
  BY HomesStep
<1>3. HomesInv => OneHome
  BY SoundHomes DEF HomesInv
<1> QED
  BY <1>1, <1>2, <1>3, PTL DEF Spec

=============================================================================

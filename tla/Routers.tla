------------------------------- MODULE Routers -------------------------------
(***************************************************************************)
(* Several invocations of route (application/routing.py run_route), each   *)
(* of which plans a routing request under a catalog, or a transition, from *)
(* all the gardens that the bindings name, and applies the plan later; and *)
(* the owner, who changes the bindings.                                    *)
(*                                                                         *)
(* Selecting all gardens of a plan is one step here (module GroupApply has *)
(* its steps, AtomicPublication what they amount to).  Requests, catalogs  *)
(* and transitions are files; one that is edited after planning makes its  *)
(* plan stale, as if the invocation had stopped.                           *)
(***************************************************************************)
EXTENDS Routing

CONSTANTS
    Gardens,        \* what the gardens may hold at first
    Bindings,       \* what the bindings may say: garden -> scope
    Requests, Catalogs, Transitions,
    Router,
    Gaps,           \* what the code does not guard against and may happen here:
                    \* "disjoint" (two plans without a common target at once),
                    \* "unbind" (a garden is not among those that are read),
                    \* "part" (others have selected a part of a plan)
    MaxRebinds

ASSUME GapsNamed == Gaps \subseteq {"disjoint", "unbind", "part"}

PublicIn(b) == {g \in DOMAIN b : b[g].visibility = "public"}

\* The gardens that a record names.
Names(r) ==
    {ref.garden : ref \in r.inputs} \cup {d.home.garden : d \in r.decisions}
    \cup (UNION {{ref.garden : ref \in d.references} : d \in r.decisions})
    \cup (IF r.home = NoRef THEN {} ELSE {r.home.garden})

\* A record that says nothing of what is private under bindings b.
Decent(r, b) ==
    /\ Names(r) \subseteq PublicIn(b)
    /\ r.by = ""
    /\ r.unit # <<>> => r.unit[1] = "public-selection"

\* What is public stays public and what is not does not become so; records have the
\* fields that records have, and what a public garden holds at first is public.
ASSUME BindingsAssumption ==
    /\ \A b, c \in Bindings : \A g \in DOMAIN b \cap DOMAIN c :
          b[g].visibility = c[g].visibility
    /\ \A G \in Gardens, b \in Bindings :
          /\ DOMAIN b \subseteq DOMAIN G
          /\ \A g \in DOMAIN G : \A r \in G[g] :
                /\ r.garden = g /\ DOMAIN r = DOMAIN Blank
                /\ g \in PublicIn(b) =>
                      Decent(r, b) /\ (r.scope = NoScope \/ r.scope.visibility = "public")

VARIABLES
    garden,     \* what each garden holds
    bind,       \* the scopes of the gardens that are bound
    task,       \* the private state of each invocation
    rebinds

vars == <<garden, bind, task, rebinds>>

World == [garden |-> garden, bind |-> bind]
NoPlan == [none |-> TRUE]
Idle == [pc |-> "idle", plan |-> NoPlan]

Init ==
    /\ garden \in Gardens
    /\ bind \in Bindings
    /\ task = [p \in Router |-> Idle]
    /\ rebinds = 0

Goto(p, pc) == task' = [task EXCEPT ![p].pc = pc]
Give(p) == task' = [task EXCEPT ![p] = Idle]

Plan(files) == [files |-> files, seen |-> World]
Targets(plan) == {r.garden : r \in plan.files}
FilesOf(plan, g) == {r \in plan.files : r.garden = g}

\* The gardens that an apply has locked.
Locked == UNION {Targets(task[p].plan) : p \in {q \in Router : task[q].pc = "checked"}}

(***************************************************************************)
(* build_routing_plan, build_transition_plan                               *)
(***************************************************************************)
\* snapshots_for: no bound garden is locked.
Readable == Locked \cap DOMAIN bind = {}

PlanWith(p, files) ==
    /\ files # {}
    /\ task' = [task EXCEPT ![p] = [pc |-> "planned", plan |-> Plan(files)]]
    /\ UNCHANGED <<garden, bind, rebinds>>

PlanRoute(p) ==
    /\ task[p].pc = "idle" /\ Readable
    /\ \E q \in Requests, C \in Catalogs :
          /\ Routable(World, C, q)
          /\ \E placed \in {Placed(World, C, q)} : \E files \in {RouteFiles(World, C, q, placed)} :
                Placeable(World, q, placed, files) /\ PlanWith(p, files)

PlanTransition(p) ==
    /\ task[p].pc = "idle" /\ Readable
    /\ \E t \in Transitions :
          Transferable(World, t) /\ PlanWith(p, TransitionFiles(World, t))

(***************************************************************************)
(* RoutingPlan.apply                                                       *)
(***************************************************************************)
\* ChangePlan.verify of every target.
Verified(plan) ==
    /\ bind = plan.seen.bind
    /\ \A g \in Targets(plan) :
          FilesOf(plan, g) \subseteq garden[g] \/ garden[g] = plan.seen.garden[g]

Staged(plan) == [g \in DOMAIN garden |-> garden[g] \cup FilesOf(plan, g)]

\* (mutant of Unchanged: only the targets are compared)
TargetsUnchanged(plan) == TRUE

\* validate: the gardens that were only read have not changed either.
Unchanged(plan) ==
    \A g \in DOMAIN plan.seen.bind \ Targets(plan) : garden[g] = plan.seen.garden[g]

Validated(plan) ==
    /\ Unchanged(plan)
    /\ Consistent(All([World EXCEPT !.garden = Staged(plan)]))

\* Every target has its files, or none has changed since planning.
Whole(plan) ==
    \/ \A g \in Targets(plan) : FilesOf(plan, g) \subseteq garden[g]
    \/ \A g \in Targets(plan) : garden[g] = plan.seen.garden[g]

\* The locks of the targets are taken, and everything is compared.
Check(p) ==
    /\ task[p].pc = "planned"
    /\ "disjoint" \in Gaps \/ Locked = {}
    /\ "part" \in Gaps \/ Whole(task[p].plan)
    /\ IF Targets(task[p].plan) \cap Locked = {} /\ Verified(task[p].plan)
          /\ Validated(task[p].plan)
       THEN Goto(p, "checked") ELSE Give(p)
    /\ UNCHANGED <<garden, bind, rebinds>>

\* The targets are compared once more and selected.
Select(p) ==
    /\ task[p].pc = "checked"
    /\ garden' = IF Verified(task[p].plan) THEN Staged(task[p].plan) ELSE garden
    /\ Give(p)
    /\ UNCHANGED <<bind, rebinds>>

\* A registry operation or the owner changes the bindings.
Rebind ==
    /\ rebinds < MaxRebinds
    /\ bind' \in Bindings \ {bind}
    /\ "unbind" \in Gaps \/ DOMAIN bind \subseteq DOMAIN bind'
    /\ rebinds' = rebinds + 1
    /\ UNCHANGED <<garden, task>>

Next ==
    \/ \E p \in Router : PlanRoute(p) \/ PlanTransition(p) \/ Check(p) \/ Select(p)
    \/ Rebind

Spec == Init /\ [][Next]_vars

(***************************************************************************)
(* Properties                                                              *)
(***************************************************************************)
Everything == UNION {garden[g] : g \in DOMAIN garden}

\* Each unit with a home that some record or receipt gives it.
Claimed ==
    {<<r.unit, r.home>> : r \in {s \in Everything : s.unit # <<>>}}
    \cup UNION {{<<<<r.id[2], d.candidate>>, d.home>> : d \in r.decisions} :
                r \in {s \in Everything : s.kind = "receipt"}}

\* Whatever is routed, moved and merged, under whatever catalogs and in any order but
\* those that Gaps names (two routes of one unit that share no target, a home that is
\* not bound any more, a plan of which others have selected a part): all that names a
\* home of a unit leads to the same one note, which is there and has not been retired
\* (routing.py: ROUTE_TRANSFER_REQUIRED and the comparison in validate;
\* routing_transitions.py: retired_references).
OneHome ==
    \A c \in Claimed : \A home \in {Lead(Everything, c[2])} :
        /\ \E r \in Everything : r.kind = "knowledge" /\ RefTo(r) = home
        /\ Place(home) \notin Retired(Everything)
        /\ \A d \in Claimed : d[1] = c[1] => Lead(Everything, d[2]) = home

\* A record in a public garden names no other garden than public ones, and not
\* the private request that it was placed by (routing.py: portable_unit,
\* audit_home, and the home's scope among those that bound a reference).
PublicNamesPublic ==
    \A g \in PublicIn(bind) : \A r \in garden[g] : Decent(r, bind)

=============================================================================

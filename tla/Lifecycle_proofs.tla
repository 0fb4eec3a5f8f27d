-------------------------- MODULE Lifecycle_proofs --------------------------
(***************************************************************************)
(* Theorems about Lifecycle for any v0 gardens, operators and owner, and   *)
(* any number of kills, failing renames and edits.                         *)
(***************************************************************************)
EXTENDS Lifecycle, TLAPS

(***************************************************************************)
(* Directories                                                             *)
(***************************************************************************)
\* A v0 garden that has been read and is valid.
Readable(d) == \E t : d = V0(t) /\ Shaped(t) /\ ValidV0(t)

\* One whose migration has passed its checks: no two records have one name.
Carried(d) ==
    \E t : /\ d = V0(t) /\ Shaped(t) /\ ValidV0(t)
           /\ \A r, s \in Migrated(t).records : r.id = s.id => r = s

\* A directory with a v0 garden that can be read, and one with a v1 garden: a new one, or
\* one that a checked migration has made.
V0Tree(d) == \E t : d = V0(t) /\ Shaped(t)
V1Tree(d) == \E f : d = V1(f) /\ (f = Nothing \/ Carried(f))

\* The three forms of a directory, and that each says what it was made from.
LEMMA Forms ==
    /\ Nothing.form = "none"
    /\ \A t : V0(t).form = "v0" /\ V0(t).of = t
    /\ \A f : V1(f).form = "v1" /\ V1(f).from = f
    /\ \A f, g : V1(f) = V1(g) => f = g
    /\ \A t, u : V0(t) = V0(u) => t = u
<1>1. Nothing.form = "none"
  BY DEF Nothing
<1>2. \A t : V0(t).form = "v0" /\ V0(t).of = t
  BY DEF V0
<1>3. \A f : V1(f).form = "v1" /\ V1(f).from = f
  BY DEF V1
<1> HIDE DEF V1, V0
<1> QED BY <1>1, <1>2, <1>3

\* What a directory with a garden looks like.
LEMMA TreeForms ==
    /\ \A d : V0Tree(d) => d.form = "v0" /\ d # Nothing /\ d = V0(d.of) /\ Shaped(d.of)
    /\ \A d : V1Tree(d) => d.form = "v1" /\ d # Nothing /\ d = V1(d.from)
    /\ \A d : Carried(d) => Readable(d)
    /\ \A d : Readable(d) => V0Tree(d)
<1>1. \A d : V0Tree(d) => d.form = "v0" /\ d # Nothing /\ d = V0(d.of) /\ Shaped(d.of)
  BY Forms DEF V0Tree
<1>2. \A d : V1Tree(d) => d.form = "v1" /\ d # Nothing /\ d = V1(d.from)
  BY Forms DEF V1Tree
<1>3. \A d : Carried(d) => Readable(d)
  BY DEF Carried, Readable
<1>4. \A d : Readable(d) => V0Tree(d)
  BY DEF Readable, V0Tree
<1> QED BY <1>1, <1>2, <1>3, <1>4

\* A stage that passes has one record of each name.
LEMMA CheckedCarries ==
    ASSUME NEW d, Readable(d), Checks(V1(d))
    PROVE  Carried(d)
<1>1. PICK t : d = V0(t) /\ Shaped(t) /\ ValidV0(t)
  BY DEF Readable
<1>2. V1(d).from = d /\ d # Nothing /\ d.of = t
  BY <1>1, Forms
<1>3. GardenIn(V1(d)) = Migrated(t)
  BY <1>2 DEF GardenIn
<1>4. \A r \in Migrated(t).records : Intact(Migrated(t), r)
  BY <1>3 DEF Checks, Valid
<1>5. \A r, s \in Migrated(t).records : r.id = s.id => r = s
  BY <1>4 DEF Intact
<1> QED BY <1>1, <1>5 DEF Carried

\* What an edit leaves has the same shape.
LEMMA EditShaped ==
    ASSUME NEW t, Shaped(t), NEW id \in DOMAIN t.notes, NEW text
    PROVE  Shaped([t EXCEPT !.notes[id].body = text])
<1> DEFINE n == [t.notes[id] EXCEPT !.body = text]
           notes == [t.notes EXCEPT ![id] = n]
           u == [t EXCEPT !.notes = notes]
<1>1. [t EXCEPT !.notes[id].body = text] = u
  OBVIOUS
<1>2. DOMAIN u = DOMAIN t /\ u.notes = notes /\ DOMAIN notes = DOMAIN t.notes
  BY DEF Shaped
<1>3. DOMAIN n = DOMAIN t.notes[id] /\ n.visibility = t.notes[id].visibility
  BY DEF Shaped
<1>4. \A i \in DOMAIN t.notes : notes[i] = IF i = id THEN n ELSE t.notes[i]
  OBVIOUS
<1> HIDE DEF n, notes, u
<1>5. Shaped(u)
  <2> SUFFICES ASSUME NEW i \in DOMAIN u.notes
               PROVE  /\ {"kind", "status", "reviewed", "visibility", "sources", "related",
                          "supersedes", "body", "sidecar"} \subseteq DOMAIN u.notes[i]
                      /\ u.notes[i].visibility \in DOMAIN Privacy
    BY <1>2 DEF Shaped
  <2>1. u.notes[i] = IF i = id THEN n ELSE t.notes[i]
    BY <1>2, <1>4
  <2> QED BY <2>1, <1>2, <1>3 DEF Shaped
<1> QED BY <1>1, <1>5

(***************************************************************************)
(* Operators                                                               *)
(***************************************************************************)
\* What the state o of an operator says, whatever the directories hold.
Sane(o) ==
    /\ o.pc # "idle" => o.op \in {"init", "migrate"} /\ o.result = "none"
    /\ o.pc = "idle" => ~ o.moved
    /\ o.pc # "idle" /\ o.op = "init" => o.plan = Nothing /\ ~ o.moved /\ o.pc # "move"
    /\ o.pc # "idle" /\ o.op = "migrate" => Readable(o.plan)
    /\ o.pc \in {"move", "select"} /\ o.op = "migrate" => Carried(o.plan)

\* The state of an operator has its five fields, and they agree with one another.
Typed ==
    /\ task = [p \in Operator |->
                  [pc |-> task[p].pc, op |-> task[p].op, plan |-> task[p].plan,
                   moved |-> task[p].moved, result |-> task[p].result]]
    /\ \A p \in Operator : Sane(task[p])

\* Directories hold what they can hold.
Directories ==
    /\ tree = Nothing \/ V0Tree(tree) \/ V1Tree(tree)
    /\ rollback = Nothing \/ V0Tree(rollback) \/ V1Tree(rollback)
    /\ kept = Nothing \/ V0Tree(kept)

\* There is one old garden: before it is moved .garden is what must be kept, and after
\* that .garden.v0 is.  (Where the owner retires .garden.v0 while a migration is at work,
\* that one moves the new garden there.)
OneOriginal ==
    /\ tree.form = "v0" => kept = tree /\ rollback = Nothing
    /\ rollback.form = "v0" => kept = rollback
    /\ kept # Nothing => kept \in {tree, rollback}

\* The inductive invariant of OriginalKept and RelationsKept.
LifeInv == Typed /\ Directories /\ OneOriginal

\* A repository with a readable v0 garden or with none satisfies it.
LEMMA LifeStart ==
    ASSUME Init
    PROVE  LifeInv
<1>1. tree \in {Nothing} \cup {V0(t) : t \in V0Gardens}
  BY DEF Init
<1>2. tree = Nothing \/ V0Tree(tree)
  BY <1>1, V0Assumption DEF V0Tree
<1>3. Directories
  BY <1>1, <1>2 DEF Init, Directories
<1>4. Typed
  BY DEF Init, Idle, Typed, Sane
<1>5. OneOriginal
  BY Forms DEF Init, OneOriginal
<1> QED BY <1>3, <1>4, <1>5 DEF LifeInv

\* An operator's state changes to o.
Becomes(p, o) == task' = [task EXCEPT ![p] = o]

\* The state of an operator by its fields.
State(pc, op, plan, moved, result) ==
    [pc |-> pc, op |-> op, plan |-> plan, moved |-> moved, result |-> result]

\* Its fields are what it was made from.
LEMMA StateIs ==
    ASSUME NEW pc, NEW op, NEW plan, NEW moved, NEW result, NEW o,
           o = State(pc, op, plan, moved, result)
    PROVE  o.pc = pc /\ o.op = op /\ o.plan = plan /\ o.moved = moved /\ o.result = result
BY DEF State

\* Two fields of a state are replaced.
LEMMA TwoFields ==
    ASSUME NEW a, NEW b, NEW c, NEW d, NEW e, NEW f, NEW g, NEW x,
           x = [pc |-> a, op |-> b, plan |-> c, moved |-> d, result |-> e],
           NEW y, y = [x EXCEPT !.op = f, !.result = g]
    PROVE  y = [pc |-> a, op |-> f, plan |-> c, moved |-> d, result |-> g]
OBVIOUS

\* What End leaves is the idle state with a result.
LEMMA EndState ==
    ASSUME NEW op, NEW result, NEW y, y = [Idle EXCEPT !.op = op, !.result = result]
    PROVE  y = State("idle", op, Nothing, FALSE, result)
BY TwoFields DEF State, Idle

\* Going on changes the program counter alone.
LEMMA GotoIs ==
    ASSUME Typed, NEW p \in Operator, NEW pc, Goto(p, pc)
    PROVE  Becomes(p, State(pc, task[p].op, task[p].plan, task[p].moved, task[p].result))
<1> DEFINE o == task[p]
<1>1. o = State(o.pc, o.op, o.plan, o.moved, o.result)
  BY DEF Typed, State
<1>2. \A a, b, c, d, e, f : [State(a, b, c, d, e) EXCEPT !.pc = f] = State(f, b, c, d, e)
  BY DEF State
<1>3. task' = [task EXCEPT ![p] = [o EXCEPT !.pc = pc]]
  BY DEF Goto
<1> HIDE DEF o
<1>4. [o EXCEPT !.pc = pc] = State(pc, o.op, o.plan, o.moved, o.result)
  BY <1>1, <1>2
<1> QED BY <1>3, <1>4 DEF Becomes, o

\* Stopping keeps the name of the command alone.
LEMMA EndIs ==
    ASSUME Typed, NEW p \in Operator, NEW result, End(p, result)
    PROVE  Becomes(p, State("idle", task[p].op, Nothing, FALSE, result))
<1>1. PICK y : y = [Idle EXCEPT !.op = task[p].op, !.result = result]
  OBVIOUS
<1>2. task' = [task EXCEPT ![p] = y]
  BY <1>1 DEF End
<1>3. y = State("idle", task[p].op, Nothing, FALSE, result)
  BY <1>1, EndState
<1> QED BY <1>2, <1>3 DEF Becomes

\* One operator's state is replaced; the others' stay.
LEMMA BecomesIs ==
    ASSUME Typed, NEW p \in Operator, NEW pc, NEW op, NEW plan, NEW moved, NEW result,
           NEW o, o = State(pc, op, plan, moved, result), Becomes(p, o)
    PROVE  /\ \A q \in Operator : task'[q] = IF q = p THEN o ELSE task[q]
           /\ Sane(o) => Typed'
<1>1. \A q \in Operator : task'[q] = IF q = p THEN o ELSE task[q]
  BY DEF Becomes, Typed
<1>2. task' = [q \in Operator |->
                  [pc |-> task'[q].pc, op |-> task'[q].op, plan |-> task'[q].plan,
                   moved |-> task'[q].moved, result |-> task'[q].result]]
  BY DEF Becomes, Typed, State
<1> QED BY <1>1, <1>2 DEF Typed

\* A state that has the five fields and no other.
Full(o) == o = State(o.pc, o.op, o.plan, o.moved, o.result)

\* A state made from its fields is one.
LEMMA StateFull ==
    ASSUME NEW pc, NEW op, NEW plan, NEW moved, NEW result, NEW o,
           o = State(pc, op, plan, moved, result)
    PROVE  Full(o)
BY DEF Full, State

\* The state of p is o and the others' are what they were.
OnlyIs(p, o) == \A q \in Operator : task'[q] = IF q = p THEN o ELSE task[q]

\* The same as BecomesIs, for a state that is known to be full.
LEMMA BecomesFull ==
    ASSUME Typed, NEW p \in Operator, NEW o, Full(o), Becomes(p, o)
    PROVE  OnlyIs(p, o) /\ (Sane(o) => Typed')
<1>1. o = State(o.pc, o.op, o.plan, o.moved, o.result)
  BY DEF Full
<1> QED BY <1>1, BecomesIs DEF OnlyIs

\* An idle operator can hold any result.
LEMMA EndSane ==
    ASSUME NEW op, NEW plan, NEW result
    PROVE  Sane(State("idle", op, plan, FALSE, result))
<1> DEFINE o == State("idle", op, plan, FALSE, result)
<1>1. o.pc = "idle" /\ o.moved = FALSE
  BY DEF State
<1> HIDE DEF o
<1>2. Sane(o)
  BY <1>1 DEF Sane
<1> QED BY <1>2 DEF o

(***************************************************************************)
(* Steps of the operators                                                  *)
(***************************************************************************)
\* A step that moves nothing.
LEMMA QuietStep ==
    ASSUME LifeInv, NEW p \in Operator, NEW pc, NEW op, NEW plan, NEW moved, NEW result, NEW o,
           o = State(pc, op, plan, moved, result), Becomes(p, o), Sane(o),
           UNCHANGED <<tree, rollback, kept>>
    PROVE  LifeInv'
<1>1. Typed'
  BY BecomesIs DEF LifeInv
<1> QED BY <1>1 DEF LifeInv, Directories, OneOriginal

\* A state that is reached by going on.
LEMMA GoesOn ==
    ASSUME LifeInv, NEW p \in Operator, NEW pc, Goto(p, pc), UNCHANGED <<tree, rollback, kept>>,
           pc \in {"planned", "stage", "move", "select", "undo"}, task[p].pc # "idle",
           pc = "move" => task[p].op # "init",
           pc \in {"move", "select"} /\ task[p].op = "migrate" => Carried(task[p].plan)
    PROVE  LifeInv'
<1> DEFINE o == State(pc, task[p].op, task[p].plan, task[p].moved, task[p].result)
<1>1. Becomes(p, o)
  BY GotoIs DEF LifeInv
<1>2. /\ o.pc = pc /\ o.op = task[p].op /\ o.plan = task[p].plan /\ o.moved = task[p].moved
      /\ o.result = task[p].result
  BY DEF State
<1>3. Sane(task[p])
  BY DEF LifeInv, Typed
<1>4. PICK x : x = o
  OBVIOUS
<1>5. Sane(x)
  <2> HIDE DEF o
  <2> QED BY <1>2, <1>3, <1>4 DEF Sane
<1> QED BY <1>1, <1>4, <1>5, QuietStep

\* An operator that stops leaves everything as it is.
LEMMA Stops ==
    ASSUME LifeInv, NEW p \in Operator, NEW result, End(p, result),
           UNCHANGED <<tree, rollback, kept>>
    PROVE  LifeInv'
<1> DEFINE o == State("idle", task[p].op, Nothing, FALSE, result)
<1>1. Becomes(p, o)
  BY EndIs DEF LifeInv
<1>2. Sane(o)
  BY EndSane
<1>3. PICK x : x = o
  OBVIOUS
<1>4. Sane(x)
  <2> HIDE DEF o
  <2> QED BY <1>2, <1>3
<1> QED BY <1>1, <1>3, <1>4, QuietStep

\* What the invariant says of the three directories.
LEMMA TreeIs ==
    ASSUME LifeInv
    PROVE  /\ kept # Nothing => V0Tree(kept)
           /\ tree.form = "v0" => V0Tree(tree)
           /\ tree.form = "v1" => V1Tree(tree)
           /\ rollback.form = "v0" => V0Tree(rollback)
           /\ kept # Nothing /\ rollback = Nothing => kept = tree
BY TreeForms, Forms DEF LifeInv, Directories, OneOriginal

\* What Review leaves.
LEMMA ReviewState ==
    ASSUME NEW op, NEW plan, NEW y, y = [Idle EXCEPT !.pc = "reviewed", !.op = op, !.plan = plan]
    PROVE  y = State("reviewed", op, plan, FALSE, "none")
BY DEF State, Idle

\* A plan for a migration is made from a valid v0 garden.
LEMMA ReviewStep ==
    ASSUME LifeInv, NEW p \in Operator, NEW op \in {"init", "migrate"}, Review(p, op)
    PROVE  LifeInv'
<1> DEFINE plan == IF op = "init" THEN Nothing ELSE tree
           o == State("reviewed", op, plan, FALSE, "none")
<1>1. Becomes(p, o)
  <2>1. PICK y : y = [Idle EXCEPT !.pc = "reviewed", !.op = op, !.plan = plan]
    OBVIOUS
  <2>2. task' = [task EXCEPT ![p] = y]
    BY <2>1 DEF Review
  <2> QED BY <2>1, <2>2, ReviewState DEF Becomes
<1>2. o.pc = "reviewed" /\ o.op = op /\ o.plan = plan /\ ~ o.moved /\ o.result = "none"
  BY DEF State
<1>3. op = "migrate" => Readable(plan)
  <2>1. ASSUME op = "migrate"
        PROVE  V0Tree(tree) /\ ValidV0(tree.of)
    BY <2>1, TreeIs DEF Review, CanPlan
  <2> QED BY <2>1, TreeForms DEF Readable
<1>4. PICK x : x = o
  OBVIOUS
<1>5. op = "init" => plan = Nothing
  OBVIOUS
<1>6. Sane(x)
  <2> HIDE DEF o, plan
  <2> QED BY <1>2, <1>3, <1>4, <1>5 DEF Sane
<1>7. UNCHANGED <<tree, rollback, kept>>
  BY DEF Review
<1> QED BY <1>1, <1>4, <1>6, <1>7, QuietStep

\* Who finds a migrated garden stops.
LEMMA CurrentStep ==
    ASSUME LifeInv, NEW p \in Operator, FindCurrent(p)
    PROVE  LifeInv'
<1> DEFINE result == IF rollback.form = "v0" /\ Checks(tree) THEN "current" ELSE "refused"
<1>1. PICK y : y = [Idle EXCEPT !.op = "migrate", !.result = result]
  OBVIOUS
<1>2. y = State("idle", "migrate", Nothing, FALSE, result)
  BY <1>1, EndState
<1>3. Becomes(p, y) /\ UNCHANGED <<tree, rollback, kept>>
  BY <1>1 DEF FindCurrent, Becomes
<1>4. Sane(y)
  BY <1>2, EndSane
<1> QED BY <1>2, <1>3, <1>4, QuietStep

\* Who goes on after the second planning found the garden that it reviewed.
LEMMA ReplanStep ==
    ASSUME LifeInv, NEW p \in Operator, Replan(p)
    PROVE  LifeInv'
<1>1. CASE task[p].op = "init" \/ (tree = task[p].plan /\ CanPlan("migrate"))
  <2>1. Goto(p, "planned") /\ task[p].pc = "reviewed" /\ UNCHANGED <<tree, rollback, kept>>
    BY <1>1 DEF Replan
  <2> QED BY <2>1, GoesOn
<1>2. CASE ~ (task[p].op = "init" \/ (tree = task[p].plan /\ CanPlan("migrate")))
  BY <1>2, Stops DEF Replan
<1> QED BY <1>1, <1>2

\* Init goes on or stops.
LEMMA CheckInitStep ==
    ASSUME LifeInv, NEW p \in Operator, CheckInit(p)
    PROVE  LifeInv'
<1>1. /\ task[p].pc = "planned" /\ task[p].op = "init" /\ UNCHANGED <<tree, rollback, kept>>
      /\ Goto(p, "stage") \/ (\E result : End(p, result))
  BY DEF CheckInit
<1> QED BY <1>1, GoesOn, Stops

\* A migration goes on or stops.
LEMMA CheckMigrationStep ==
    ASSUME LifeInv, NEW p \in Operator, CheckMigration(p)
    PROVE  LifeInv'
<1>1. /\ task[p].pc = "planned" /\ task[p].op = "migrate" /\ UNCHANGED <<tree, rollback, kept>>
      /\ Goto(p, "stage") \/ (\E result : End(p, result))
  BY DEF CheckMigration
<1> QED BY <1>1, GoesOn, Stops

\* Who has written a stage that passes its checks carries a garden whose names are unique.
LEMMA StageStep ==
    ASSUME LifeInv, NEW p \in Operator, Stage(p)
    PROVE  LifeInv'
<1>1. task[p].pc = "stage" /\ UNCHANGED <<tree, rollback, kept>>
  BY DEF Stage
<1>2. Sane(task[p])
  BY DEF LifeInv, Typed
<1>3. CASE Checks(V1(task[p].plan))
  <2>1. Goto(p, IF task[p].op = "init" THEN "select" ELSE "move")
    BY <1>3 DEF Stage
  <2>2. task[p].op = "migrate" => Carried(task[p].plan)
    BY <1>1, <1>2, <1>3, CheckedCarries DEF Sane
  <2>3. task[p].op \in {"init", "migrate"}
    BY <1>1, <1>2 DEF Sane
  <2>4. CASE task[p].op = "init"
    <3>1. Goto(p, "select")
      BY <2>1, <2>4
    <3> QED BY <1>1, <2>4, <3>1, GoesOn
  <2>5. CASE task[p].op # "init"
    <3>1. Goto(p, "move")
      BY <2>1, <2>5
    <3> QED BY <1>1, <1>2, <2>2, <2>3, <2>5, <3>1, GoesOn
  <2> QED BY <2>4, <2>5
<1>4. CASE ~ Checks(V1(task[p].plan))
  BY <1>1, <1>4, Stops DEF Stage
<1> QED BY <1>3, <1>4

\* Two fields of a state are replaced.
LEMMA MovedFields ==
    ASSUME NEW a, NEW b, NEW c, NEW d, NEW e, NEW f, NEW g, NEW x,
           x = [pc |-> a, op |-> b, plan |-> c, moved |-> d, result |-> e],
           NEW y, y = [x EXCEPT !.pc = f, !.moved = g]
    PROVE  y = [pc |-> f, op |-> b, plan |-> c, moved |-> g, result |-> e]
OBVIOUS

\* What MoveSource makes of the state of its operator.
LEMMA MovedState ==
    ASSUME Typed, NEW p \in Operator,
           NEW y, y = [task[p] EXCEPT !.pc = "select", !.moved = TRUE]
    PROVE  y = State("select", task[p].op, task[p].plan, TRUE, task[p].result)
<1>1. PICK x : x = task[p]
  OBVIOUS
<1>2. x = [pc |-> x.pc, op |-> x.op, plan |-> x.plan, moved |-> x.moved, result |-> x.result]
  BY <1>1 DEF Typed
<1>3. y = [x EXCEPT !.pc = "select", !.moved = TRUE]
  BY <1>1
<1> QED BY <1>1, <1>2, <1>3, MovedFields DEF State

\* Whatever is moved, nothing was there before: an old garden is what must be kept.
LEMMA MoveStep ==
    ASSUME LifeInv, NEW p \in Operator, MoveSource(p)
    PROVE  LifeInv'
<1>1. task[p].pc = "move" /\ kept' = kept
  BY DEF MoveSource
<1>2. Sane(task[p])
  BY DEF LifeInv, Typed
<1>3. task[p].op = "migrate" /\ Carried(task[p].plan)
  BY <1>1, <1>2 DEF Sane
<1>4. CASE tree # Nothing /\ rollback = Nothing
  <2>1. /\ rollback' = tree /\ tree' = Nothing
        /\ task' = [task EXCEPT ![p].pc = "select", ![p].moved = TRUE]
    BY <1>4 DEF MoveSource
  <2>2. /\ V0Tree(tree) \/ V1Tree(tree)
        /\ tree.form = "v0" => kept = tree
        /\ kept # Nothing => kept = tree
    BY <1>4, TreeIs DEF LifeInv, Directories, OneOriginal
  <2>3. PICK y : y = [task[p] EXCEPT !.pc = "select", !.moved = TRUE]
    OBVIOUS
  <2>4. Becomes(p, y)
    BY <2>1, <2>3 DEF Becomes
  <2>5. y = State("select", task[p].op, task[p].plan, TRUE, task[p].result)
    BY <2>3, MovedState DEF LifeInv
  <2>6. /\ y.pc = "select" /\ y.op = task[p].op /\ y.plan = task[p].plan /\ y.moved
        /\ y.result = task[p].result
    BY <2>5 DEF State
  <2>7. Sane(y)
    BY <1>1, <1>2, <1>3, <2>6 DEF Sane
  <2>8. Typed'
    BY <2>4, <2>5, <2>7, StateFull, BecomesFull DEF LifeInv
  <2>9. Directories' /\ OneOriginal'
    BY <1>1, <2>1, <2>2, Forms DEF LifeInv, Directories, OneOriginal
  <2> QED BY <2>8, <2>9 DEF LifeInv
<1>5. CASE ~ (tree # Nothing /\ rollback = Nothing)
  BY <1>5, <1>1, Stops DEF MoveSource
<1> QED BY <1>4, <1>5

\* Who stops has the state of an operator still.
LEMMA Ended ==
    ASSUME LifeInv, NEW p \in Operator, NEW result, End(p, result)
    PROVE  Typed'
<1> DEFINE o == State("idle", task[p].op, Nothing, FALSE, result)
<1>1. Becomes(p, o) /\ Sane(o)
  BY EndIs, EndSane DEF LifeInv
<1>2. Full(o)
  BY StateFull
<1> HIDE DEF o
<1> QED BY <1>1, <1>2, BecomesFull DEF LifeInv

\* The stage becomes the garden where there is none.
LEMMA SelectStep ==
    ASSUME LifeInv, NEW p \in Operator, Select(p)
    PROVE  LifeInv'
<1>1. task[p].pc = "select" /\ UNCHANGED <<rollback, kept>>
  BY DEF Select
<1>2. Sane(task[p])
  BY DEF LifeInv, Typed
<1>3. CASE tree = Nothing
  <2>1. tree' = V1(task[p].plan) /\ End(p, "applied")
    BY <1>3 DEF Select
  <2>2. V1Tree(tree')
    BY <1>1, <1>2, <2>1 DEF Sane, V1Tree
  <2>3. Typed'
    BY <2>1, Ended
  <2>4. Directories' /\ OneOriginal'
    <3>1. tree'.form = "v1"
      BY <2>1, Forms
    <3>2. kept # Nothing => kept = rollback
      BY <1>3 DEF LifeInv, OneOriginal
    <3> QED BY <1>1, <2>2, <3>1, <3>2 DEF LifeInv, Directories, OneOriginal
  <2> QED BY <2>3, <2>4 DEF LifeInv
<1>4. CASE tree # Nothing
  <2>1. Goto(p, "undo") /\ UNCHANGED <<tree, rollback, kept>>
    BY <1>1, <1>4 DEF Select
  <2> QED BY <1>1, <2>1, GoesOn
<1> QED BY <1>3, <1>4

\* What was moved goes back.
LEMMA PutBackStep ==
    ASSUME LifeInv, NEW p \in Operator, PutBack(p)
    PROVE  LifeInv'
<1>1. task[p].pc = "undo" /\ kept' = kept /\ End(p, "failed")
  BY DEF PutBack
<1>2. CASE UNCHANGED <<tree, rollback>>
  BY <1>1, <1>2, Stops
<1>3. CASE rollback # Nothing /\ tree = Nothing /\ tree' = rollback /\ rollback' = Nothing
  <2>1. Typed'
    BY <1>1, Ended
  <2>2. Directories' /\ OneOriginal'
    BY <1>1, <1>3, Forms DEF LifeInv, Directories, OneOriginal
  <2> QED BY <2>1, <2>2 DEF LifeInv
<1> QED BY <1>2, <1>3 DEF PutBack

\* A failing rename moves nothing.
LEMMA FailStep ==
    ASSUME LifeInv, NEW p \in Operator, FailRename(p)
    PROVE  LifeInv'
<1>1. task[p].pc \in {"move", "select"} /\ Goto(p, "undo") /\ UNCHANGED <<tree, rollback, kept>>
  BY DEF FailRename
<1> QED BY <1>1, GoesOn

\* What the owner edits is what must be kept then; what is rolled back is the original.
LEMMA OwnerStep ==
    ASSUME LifeInv, EditNote \/ RollBack \/ Retire
    PROVE  LifeInv'
<1>1. CASE EditNote
  <2>1. tree.form = "v0" /\ UNCHANGED <<rollback, task>> /\ kept' = tree'
    BY <1>1 DEF EditNote
  <2>2. Shaped(tree.of) /\ rollback = Nothing
    BY <2>1, TreeIs, TreeForms DEF LifeInv, OneOriginal
  <2>3. PICK id \in DOMAIN tree.of.notes :
            tree' = V0([tree.of EXCEPT !.notes[id].body = [text |-> "edited"]])
    BY <1>1 DEF EditNote
  <2>4. V0Tree(tree')
    <3>1. PICK u : u = [tree.of EXCEPT !.notes[id].body = [text |-> "edited"]]
      OBVIOUS
    <3>2. Shaped(u)
      BY <2>2, <3>1, EditShaped
    <3> QED BY <2>3, <3>1, <3>2 DEF V0Tree
  <2>5. tree' # Nothing
    BY <2>4, TreeForms
  <2> QED BY <2>1, <2>2, <2>4, <2>5, Forms
        DEF LifeInv, Typed, Directories, OneOriginal
<1>2. CASE RollBack
  <2>1. /\ rollback.form = "v0" /\ tree' = rollback /\ rollback' = Nothing
        /\ UNCHANGED <<task, kept>>
    BY <1>2 DEF RollBack
  <2>2. rollback # Nothing /\ V0Tree(rollback) /\ kept = rollback
    BY <2>1, Forms, TreeIs DEF LifeInv, OneOriginal
  <2> QED BY <2>1, <2>2, Forms DEF LifeInv, Typed, Directories, OneOriginal
<1>3. CASE Retire
  <2>1. /\ tree.form = "v1" /\ rollback' = Nothing /\ kept' = Nothing
        /\ UNCHANGED <<task, tree>>
    BY <1>3 DEF Retire
  <2> QED BY <2>1, Forms DEF LifeInv, Typed, Directories, OneOriginal
<1> QED BY <1>1, <1>2, <1>3

\* Every step of an operator, the owner and whatever interrupts them keeps the invariant.
LEMMA LifeStep ==
    ASSUME LifeInv, [Next]_vars
    PROVE  LifeInv'
<1>1. CASE UNCHANGED vars
  BY <1>1 DEF vars, LifeInv, Typed, Directories, OneOriginal
<1>2. ASSUME NEW p \in Operator, Step(p)
      PROVE  LifeInv'
  BY <1>2, ReviewStep, CurrentStep, ReplanStep, CheckInitStep, CheckMigrationStep, StageStep,
     MoveStep, SelectStep, PutBackStep DEF Step
<1>3. ASSUME NEW p \in Operator, Kill(p)
      PROVE  LifeInv'
  BY <1>3, Stops DEF Kill
<1> QED BY <1>1, <1>2, <1>3, FailStep, OwnerStep DEF Next

\* Whatever is killed or fails, whoever else initializes or migrates and whatever the
\* owner edits, rolls back and retires: the garden the owner had is there, whole.
THEOREM OriginalsAreKept == Spec => []OriginalKept
<1>1. Init => LifeInv
  BY LifeStart
<1>2. LifeInv /\ [Next]_vars => LifeInv'
  BY LifeStep
<1>3. LifeInv => OriginalKept
  BY DEF LifeInv, OneOriginal, OriginalKept
<1> QED
  BY <1>1, <1>2, <1>3, PTL DEF Spec

(***************************************************************************)
(* Reports, where nobody edits a garden that is being migrated, rolls back *)
(* or retires while a command runs or initializes beside a rollback tree.  *)
(***************************************************************************)
\* An operator between planning a migration and moving the old garden.
Working1(o) == o.op = "migrate" /\ o.pc \in {"planned", "stage", "move"}

\* What the state o of an operator says of the directories.
Tidy(o) ==
    /\ o.moved => o.pc \in {"select", "undo"} /\ rollback # Nothing /\ rollback = o.plan
    /\ Working1(o) => o.plan = kept /\ kept # Nothing
    /\ o.pc = "select" /\ o.op = "migrate" => o.moved
    /\ o.pc \in {"stage", "select"} /\ o.op = "init" => kept = Nothing

\* One operator has moved the old garden, and what is there beside an old garden is
\* its migration; there is nothing but an old garden in .garden.v0.
Undisturbed ==
    /\ \A p \in Operator : Tidy(task[p])
    /\ \A p, q \in Operator : task[p].moved /\ task[q].moved => p = q
    /\ tree.form = "v1" /\ rollback # Nothing => tree = V1(rollback)
    /\ rollback # Nothing => kept = rollback

\* What the reports of a step say is so.
Reported ==
    \A p \in Operator :
        task'[p] # task[p] /\ task'[p].op = "migrate" /\ task'[p].result \in {"applied", "current"}
            => tree' = V1(rollback')

\* The state of p has these fields now and the others' are what they were.
Now(p, pc, op, plan, moved, result) ==
    /\ \A q \in Operator : q # p => task'[q] = task[q]
    /\ task'[p].pc = pc /\ task'[p].op = op /\ task'[p].plan = plan
    /\ task'[p].moved = moved /\ task'[p].result = result

\* The fields after a replacement.
LEMMA BecomesNow ==
    ASSUME Typed, NEW p \in Operator, NEW pc, NEW op, NEW plan, NEW moved, NEW result,
           NEW o, o = State(pc, op, plan, moved, result), Becomes(p, o)
    PROVE  Now(p, pc, op, plan, moved, result)
<1>1. OnlyIs(p, o)
  BY StateFull, BecomesFull
<1>2. o.pc = pc /\ o.op = op /\ o.plan = plan /\ o.moved = moved /\ o.result = result
  BY StateIs
<1> QED BY <1>1, <1>2 DEF OnlyIs, Now

\* The fields after going on.
LEMMA GotoNow ==
    ASSUME LifeInv, NEW p \in Operator, NEW pc, Goto(p, pc)
    PROVE  Now(p, pc, task[p].op, task[p].plan, task[p].moved, task[p].result)
<1> DEFINE o == State(pc, task[p].op, task[p].plan, task[p].moved, task[p].result)
<1>1. Becomes(p, o)
  BY GotoIs DEF LifeInv
<1>2. PICK x : x = o
  OBVIOUS
<1> QED BY <1>1, <1>2, BecomesNow DEF LifeInv

\* The fields after stopping.
LEMMA EndNow ==
    ASSUME LifeInv, NEW p \in Operator, NEW result, End(p, result)
    PROVE  Now(p, "idle", task[p].op, Nothing, FALSE, result)
<1> DEFINE o == State("idle", task[p].op, Nothing, FALSE, result)
<1>1. Becomes(p, o)
  BY EndIs DEF LifeInv
<1>2. PICK x : x = o
  OBVIOUS
<1> QED BY <1>1, <1>2, BecomesNow DEF LifeInv

\* A step that moves nothing and reports what is so.
LEMMA TidyStep ==
    ASSUME Undisturbed, NEW p \in Operator, NEW pc, NEW op, NEW plan, NEW moved, NEW result,
           Now(p, pc, op, plan, moved, result), UNCHANGED <<tree, rollback, kept>>,
           moved => task[p].moved /\ plan = task[p].plan /\ pc \in {"select", "undo"},
           op = "migrate" /\ pc \in {"planned", "stage", "move"} => plan = kept /\ kept # Nothing,
           op = "migrate" /\ pc = "select" => moved,
           op = "init" /\ pc \in {"stage", "select"} => kept = Nothing,
           op = "migrate" /\ result \in {"applied", "current"} => tree = V1(rollback)
    PROVE  Undisturbed' /\ Reported
<1>1. Tidy(task[p])'
  BY DEF Undisturbed, Now, Tidy, Working1
<1>2. \A q \in Operator : q # p => Tidy(task[q])'
  BY DEF Undisturbed, Now, Tidy, Working1
<1>3. \A q, s \in Operator : task'[q].moved /\ task'[s].moved => q = s
  BY DEF Undisturbed, Now
<1>4. Reported
  BY DEF Reported, Now
<1> QED BY <1>1, <1>2, <1>3, <1>4 DEF Undisturbed

\* An operator that goes on reports nothing.
LEMMA TidyOn ==
    ASSUME LifeInv, Undisturbed, NEW p \in Operator, NEW pc, Goto(p, pc),
           UNCHANGED <<tree, rollback, kept>>, task[p].pc # "idle",
           pc \notin {"select", "undo"} => task[p].pc \notin {"select", "undo"},
           task[p].op = "migrate" /\ pc \in {"planned", "stage", "move"} =>
               task[p].plan = kept /\ kept # Nothing,
           task[p].op = "migrate" => pc # "select",
           task[p].op = "init" /\ pc \in {"stage", "select"} => kept = Nothing
    PROVE  Undisturbed' /\ Reported
<1>1. Now(p, pc, task[p].op, task[p].plan, task[p].moved, task[p].result)
  BY GotoNow
<1>2. task[p].result = "none"
  BY DEF LifeInv, Typed, Sane
<1>3. task[p].moved => pc \in {"select", "undo"}
  BY DEF Undisturbed, Tidy
<1> QED BY <1>1, <1>2, <1>3, TidyStep

\* An operator that stops reports a migration only beside its source.
LEMMA TidyStop ==
    ASSUME LifeInv, Undisturbed, NEW p \in Operator, NEW result, End(p, result),
           UNCHANGED <<tree, rollback, kept>>,
           task[p].op = "migrate" /\ result \in {"applied", "current"} => tree = V1(rollback)
    PROVE  Undisturbed' /\ Reported
<1>1. Now(p, "idle", task[p].op, Nothing, FALSE, result)
  BY EndNow
<1> QED BY <1>1, TidyStep

\* A review reports nothing.
LEMMA ReviewTrue ==
    ASSUME LifeInv, Undisturbed, NEW p \in Operator, NEW op \in {"init", "migrate"}, Review(p, op)
    PROVE  Undisturbed' /\ Reported
<1> DEFINE plan == IF op = "init" THEN Nothing ELSE tree
<1>1. PICK y : y = [Idle EXCEPT !.pc = "reviewed", !.op = op, !.plan = plan]
  OBVIOUS
<1>2. Becomes(p, y) /\ UNCHANGED <<tree, rollback, kept>>
  BY <1>1 DEF Review, Becomes
<1> HIDE DEF plan
<1>3. y = State("reviewed", op, plan, FALSE, "none")
  BY <1>1, ReviewState
<1>4. Now(p, "reviewed", op, plan, FALSE, "none")
  BY <1>2, <1>3, BecomesNow DEF LifeInv
<1> QED BY <1>2, <1>4, TidyStep

\* What is found migrated beside .garden.v0 is its migration.
LEMMA CurrentTrue ==
    ASSUME LifeInv, Undisturbed, NEW p \in Operator, FindCurrent(p)
    PROVE  Undisturbed' /\ Reported
<1> DEFINE result == IF rollback.form = "v0" /\ Checks(tree) THEN "current" ELSE "refused"
<1>1. PICK y : y = [Idle EXCEPT !.op = "migrate", !.result = result]
  OBVIOUS
<1>2. Becomes(p, y) /\ UNCHANGED <<tree, rollback, kept>> /\ tree.form = "v1"
  BY <1>1 DEF FindCurrent, Becomes
<1>3. result = "current" => rollback # Nothing
  BY Forms
<1>4. result \in {"current", "refused"}
  OBVIOUS
<1> HIDE DEF result
<1>5. y = State("idle", "migrate", Nothing, FALSE, result)
  BY <1>1, EndState
<1>6. Now(p, "idle", "migrate", Nothing, FALSE, result)
  BY <1>2, <1>5, BecomesNow DEF LifeInv
<1>7. result \in {"applied", "current"} => tree = V1(rollback)
  BY <1>2, <1>3, <1>4 DEF Undisturbed
<1> QED BY <1>2, <1>6, <1>7, TidyStep

\* What is applied is the garden there is.
LEMMA ReplanTrue ==
    ASSUME LifeInv, Undisturbed, NEW p \in Operator, Replan(p)
    PROVE  Undisturbed' /\ Reported
<1>1. CASE task[p].op = "init" \/ (tree = task[p].plan /\ CanPlan("migrate"))
  <2>1. Goto(p, "planned") /\ task[p].pc = "reviewed" /\ UNCHANGED <<tree, rollback, kept>>
    BY <1>1 DEF Replan
  <2>2. task[p].op = "migrate" => kept = task[p].plan /\ kept # Nothing
    BY <1>1, Forms DEF CanPlan, LifeInv, OneOriginal
  <2> QED BY <2>1, <2>2, TidyOn
<1>2. CASE ~ (task[p].op = "init" \/ (tree = task[p].plan /\ CanPlan("migrate")))
  BY <1>2, TidyStop DEF Replan
<1> QED BY <1>1, <1>2

\* Init goes on only where there is neither garden nor rollback tree: nothing has to be kept.
LEMMA CheckInitTrue ==
    ASSUME LifeInv, Undisturbed, NEW p \in Operator, CheckInit(p), Gaps = {}
    PROVE  Undisturbed' /\ Reported
<1>1. /\ task[p].pc = "planned" /\ task[p].op = "init" /\ UNCHANGED <<tree, rollback, kept>>
      /\ \/ Goto(p, "stage") /\ tree = Nothing
         \/ \E result : End(p, result)
  BY DEF CheckInit
<1>2. rollback = Nothing
  BY DEF CheckInit, InitAwaited
<1>3. tree = Nothing => kept = Nothing
  BY <1>2, TreeIs
<1> QED BY <1>1, <1>3, TidyOn, TidyStop

\* The same for a migration that finds its work done.
LEMMA CheckMigrationTrue ==
    ASSUME LifeInv, Undisturbed, NEW p \in Operator, CheckMigration(p)
    PROVE  Undisturbed' /\ Reported
<1>1. /\ task[p].pc = "planned" /\ task[p].op = "migrate" /\ UNCHANGED <<tree, rollback, kept>>
      /\ \/ Goto(p, "stage")
         \/ End(p, "refused")
         \/ End(p, "current") /\ tree.form = "v1" /\ rollback # Nothing
  BY DEF CheckMigration
<1>2. task[p].plan = kept /\ kept # Nothing
  BY <1>1 DEF Undisturbed, Tidy, Working1
<1>3. tree.form = "v1" /\ rollback # Nothing => tree = V1(rollback)
  BY DEF Undisturbed
<1> QED BY <1>1, <1>2, <1>3, TidyOn, TidyStop

\* Staging reports nothing, and the garden is still the planned one.
LEMMA StageTrue ==
    ASSUME LifeInv, Undisturbed, NEW p \in Operator, Stage(p)
    PROVE  Undisturbed' /\ Reported
<1>1. task[p].pc = "stage" /\ UNCHANGED <<tree, rollback, kept>>
  BY DEF Stage
<1>2. task[p].op \in {"init", "migrate"}
  BY <1>1 DEF LifeInv, Typed, Sane
<1>3. /\ task[p].op = "migrate" => task[p].plan = kept /\ kept # Nothing
      /\ task[p].op = "init" => kept = Nothing
  BY <1>1 DEF Undisturbed, Tidy, Working1
<1>4. \/ task[p].op = "init" /\ Goto(p, "select")
      \/ task[p].op = "migrate" /\ Goto(p, "move")
      \/ End(p, "refused")
  BY <1>2 DEF Stage
<1> QED BY <1>1, <1>3, <1>4, TidyOn, TidyStop

\* What is moved is the planned garden, and nobody else has moved one.
LEMMA MoveTrue ==
    ASSUME LifeInv, Undisturbed, NEW p \in Operator, MoveSource(p)
    PROVE  Undisturbed' /\ Reported
<1>1. task[p].pc = "move" /\ kept' = kept
  BY DEF MoveSource
<1>2. task[p].op = "migrate" /\ task[p].result = "none"
  BY <1>1 DEF LifeInv, Typed, Sane
<1>3. task[p].plan = kept /\ kept # Nothing
  BY <1>1, <1>2 DEF Undisturbed, Tidy, Working1
<1>4. CASE tree # Nothing /\ rollback = Nothing
  <2>1. /\ rollback' = tree /\ tree' = Nothing
        /\ task' = [task EXCEPT ![p].pc = "select", ![p].moved = TRUE]
    BY <1>4 DEF MoveSource
  <2>2. kept = tree
    BY <1>3, <1>4, TreeIs
  <2>3. PICK y : y = [task[p] EXCEPT !.pc = "select", !.moved = TRUE]
    OBVIOUS
  <2>4. Becomes(p, y)
    BY <2>1, <2>3 DEF Becomes
  <2>5. y = State("select", task[p].op, task[p].plan, TRUE, task[p].result)
    BY <2>3, MovedState DEF LifeInv
  <2>6. Now(p, "select", task[p].op, task[p].plan, TRUE, task[p].result)
    BY <2>4, <2>5, BecomesNow DEF LifeInv
  <2>7. \A q \in Operator : ~ task[q].moved
    BY <1>4 DEF Undisturbed, Tidy
  <2>8. Tidy(task[p])'
    BY <1>1, <1>2, <1>3, <1>4, <2>1, <2>2, <2>6 DEF Now, Tidy, Working1
  <2>9. \A q \in Operator : q # p => Tidy(task[q])'
    BY <1>1, <2>6, <2>7 DEF Undisturbed, Now, Tidy, Working1
  <2>10. \A q, s \in Operator : task'[q].moved /\ task'[s].moved => q = s
    BY <2>6, <2>7 DEF Now
  <2>11. tree'.form # "v1"
    BY <2>1, Forms
  <2>12. Reported
    BY <1>2, <2>6 DEF Reported, Now
  <2> QED BY <1>1, <2>1, <2>2, <2>8, <2>9, <2>10, <2>11, <2>12 DEF Undisturbed
<1>5. CASE ~ (tree # Nothing /\ rollback = Nothing)
  BY <1>5, <1>1, TidyStop DEF MoveSource
<1> QED BY <1>4, <1>5

\* What is selected as migrated is the migration of what this operator has moved.
LEMMA SelectTrue ==
    ASSUME LifeInv, Undisturbed, NEW p \in Operator, Select(p)
    PROVE  Undisturbed' /\ Reported
<1>1. task[p].pc = "select" /\ UNCHANGED <<rollback, kept>>
  BY DEF Select
<1>2. task[p].op \in {"init", "migrate"} /\ Tidy(task[p])
  BY <1>1 DEF LifeInv, Typed, Sane, Undisturbed
<1>3. CASE tree = Nothing
  <2>1. tree' = V1(task[p].plan) /\ End(p, "applied")
    BY <1>3 DEF Select
  <2>2. Now(p, "idle", task[p].op, Nothing, FALSE, "applied")
    BY <2>1, EndNow
  <2>3. task[p].op = "migrate" => tree' = V1(rollback)
    BY <1>1, <1>2, <2>1 DEF Tidy
  <2>4. task[p].op = "init" => rollback = Nothing
    BY <1>1, <1>2 DEF Tidy, Undisturbed
  <2>5. Tidy(task[p])'
    BY <2>2 DEF Now, Tidy, Working1
  <2>6. \A q \in Operator : q # p => Tidy(task[q])'
    BY <1>1, <2>2 DEF Undisturbed, Now, Tidy, Working1
  <2>7. \A q, s \in Operator : task'[q].moved /\ task'[s].moved => q = s
    BY <2>2 DEF Now, Undisturbed
  <2>8. Reported
    BY <1>1, <2>2, <2>3 DEF Reported, Now
  <2> QED BY <1>1, <1>2, <2>3, <2>4, <2>5, <2>6, <2>7, <2>8 DEF Undisturbed
<1>4. CASE tree # Nothing
  <2>1. Goto(p, "undo") /\ UNCHANGED <<tree, rollback, kept>>
    BY <1>1, <1>4 DEF Select
  <2> QED BY <1>1, <2>1, TidyOn
<1> QED BY <1>3, <1>4

\* Only who has moved the old garden puts it back.
LEMMA PutBackTrue ==
    ASSUME LifeInv, Undisturbed, NEW p \in Operator, PutBack(p)
    PROVE  Undisturbed' /\ Reported
<1>1. task[p].pc = "undo" /\ kept' = kept /\ End(p, "failed")
  BY DEF PutBack
<1>2. CASE UNCHANGED <<tree, rollback>>
  BY <1>1, <1>2, TidyStop
<1>3. CASE task[p].moved /\ rollback # Nothing /\ tree' = rollback /\ rollback' = Nothing
  <2>1. Now(p, "idle", task[p].op, Nothing, FALSE, "failed")
    BY <1>1, EndNow
  <2>2. \A q \in Operator : q # p => ~ task[q].moved
    BY <1>3 DEF Undisturbed
  <2>3. Tidy(task[p])'
    BY <2>1 DEF Now, Tidy, Working1
  <2>4. \A q \in Operator : q # p => Tidy(task[q])'
    BY <1>1, <2>1, <2>2 DEF Undisturbed, Now, Tidy, Working1
  <2>5. \A q, s \in Operator : task'[q].moved /\ task'[s].moved => q = s
    BY <2>1, <2>2 DEF Now
  <2>6. Reported
    BY <2>1 DEF Reported, Now
  <2> QED BY <1>3, <2>3, <2>4, <2>5, <2>6 DEF Undisturbed
<1> QED BY <1>2, <1>3 DEF PutBack

\* A failing rename reports nothing.
LEMMA FailTrue ==
    ASSUME LifeInv, Undisturbed, NEW p \in Operator, FailRename(p)
    PROVE  Undisturbed' /\ Reported
<1>1. task[p].pc \in {"move", "select"} /\ Goto(p, "undo") /\ UNCHANGED <<tree, rollback, kept>>
  BY DEF FailRename
<1> QED BY <1>1, TidyOn

\* Nobody is between two steps of a command when the owner rolls back or retires, nor
\* between planning and the cutover when a note is edited.
LEMMA OwnerTrue ==
    ASSUME LifeInv, Undisturbed, EditNote \/ RollBack \/ Retire, Gaps = {}
    PROVE  Undisturbed' /\ Reported
<1>1. task' = task
  BY DEF EditNote, RollBack, Retire
<1>2. Reported
  BY <1>1 DEF Reported
<1>3. CASE EditNote
  <2>1. /\ tree.form = "v0" /\ ~ Working /\ rollback' = rollback /\ kept' = tree'
    BY <1>3 DEF EditNote
  <2>2. kept = tree /\ rollback = Nothing /\ kept # Nothing
    BY <2>1, Forms DEF LifeInv, OneOriginal
  <2>3. \A q \in Operator : Tidy(task[q])'
    BY <1>1, <2>1, <2>2 DEF Undisturbed, Tidy, Working1, Working
  <2> QED BY <1>1, <1>2, <2>1, <2>2, <2>3 DEF Undisturbed
<1>4. Unattended => \A q \in Operator : Tidy(task[q]) /\ task[q].pc \in {"idle", "reviewed"}
  BY DEF Undisturbed, Unattended
<1>5. CASE RollBack
  <2>1. Unattended /\ rollback.form = "v0" /\ tree' = rollback /\ rollback' = Nothing /\ kept' = kept
    BY <1>5 DEF RollBack
  <2>2. \A q \in Operator : Tidy(task[q])' /\ ~ task'[q].moved
    BY <1>1, <1>4, <2>1 DEF Tidy, Working1
  <2> QED BY <1>2, <2>1, <2>2 DEF Undisturbed
<1>6. CASE Retire
  <2>1. Unattended /\ rollback' = Nothing /\ kept' = Nothing
    BY <1>6 DEF Retire
  <2>2. \A q \in Operator : Tidy(task[q])' /\ ~ task'[q].moved
    BY <1>1, <1>4, <2>1 DEF Tidy, Working1
  <2> QED BY <1>2, <2>1, <2>2 DEF Undisturbed
<1> QED BY <1>3, <1>5, <1>6

\* Every step keeps Undisturbed and reports what is so.
LEMMA TrueStep ==
    ASSUME LifeInv, Undisturbed, [Next]_vars, Gaps = {}
    PROVE  Undisturbed' /\ Reported
<1>1. CASE UNCHANGED vars
  BY <1>1 DEF vars, Undisturbed, Reported, Tidy, Working1
<1>2. ASSUME NEW p \in Operator, Step(p)
      PROVE  Undisturbed' /\ Reported
  BY <1>2, ReviewTrue, CurrentTrue, ReplanTrue, CheckInitTrue, CheckMigrationTrue, StageTrue,
     MoveTrue, SelectTrue, PutBackTrue DEF Step
<1>3. ASSUME NEW p \in Operator, Kill(p)
      PROVE  Undisturbed' /\ Reported
  BY <1>3, TidyStop DEF Kill
<1> QED BY <1>1, <1>2, <1>3, FailTrue, OwnerTrue DEF Next

\* Who is told that the garden is migrated has the migration of what is in .garden.v0:
\* where neither gap is open, whoever else runs commands and wherever they are killed.
THEOREM ReportsHold == ASSUME Gaps = {} PROVE Spec => ReportsAreTrue
<1>1. Init => LifeInv
  BY LifeStart
<1>2. Init => Undisturbed
  BY DEF Init, Idle, Undisturbed, Tidy, Working1
<1>3. LifeInv /\ Undisturbed /\ [Next]_vars => LifeInv' /\ Undisturbed' /\ Reported
  BY LifeStep, TrueStep
<1>4. Reported => [\A p \in Operator :
          task'[p] # task[p] /\ task'[p].op = "migrate" /\ task'[p].result \in {"applied", "current"}
              => tree' = V1(rollback')]_vars
  BY DEF Reported
<1> QED
  BY <1>1, <1>2, <1>3, <1>4, PTL DEF Spec, ReportsAreTrue

(***************************************************************************)
(* Relations                                                               *)
(***************************************************************************)
\* The order of the ends changes neither the ends nor a directed mention.
LEMMA OrderedEnds ==
    ASSUME NEW type, NEW a, NEW b, a # b, NEW m, m = [type |-> type, from |-> a, to |-> b]
    PROVE  /\ {Ordered(m).from, Ordered(m).to} = {a, b}
           /\ type # "related" => Ordered(m) = m
<1>1. m.type = type /\ m.from = a /\ m.to = b
  OBVIOUS
<1>2. PICK first : first = CHOOSE id \in {a, b} : TRUE
  OBVIOUS
<1>3. PICK second : second = CHOOSE id \in {a, b} : id # first
  OBVIOUS
<1>4. first \in {a, b}
  BY <1>2
<1>5. second \in {a, b} /\ second # first
  BY <1>3, <1>4
<1>6. Ordered(m) = IF type # "related" THEN m ELSE [m EXCEPT !.from = first, !.to = second]
  BY <1>1, <1>2, <1>3 DEF Ordered
<1>7. \A n : n = [m EXCEPT !.from = first, !.to = second] => n.from = first /\ n.to = second
  OBVIOUS
<1> QED BY <1>1, <1>4, <1>5, <1>6, <1>7

\* The more restrictive visibility is no less restrictive than any of them.
LEMMA MostIs ==
    ASSUME NEW S, NEW v \in S, v \in DOMAIN Privacy
    PROVE  Privacy[MostRestrictive(S)] >= Privacy[v]
<1>1. Privacy["public"] = 0 /\ Privacy["internal"] = 1 /\ Privacy["private"] = 2 /\ DOMAIN Privacy = {"public", "internal", "private"}
  BY DEF Privacy
<1>2. CASE "private" \in S
  <2>1. MostRestrictive(S) = "private"
    BY <1>2 DEF MostRestrictive
  <2> QED BY <1>1, <2>1
<1>3. CASE "private" \notin S /\ "internal" \in S
  <2>1. MostRestrictive(S) = "internal"
    BY <1>3 DEF MostRestrictive
  <2> QED BY <1>1, <1>3, <2>1
<1>4. CASE "private" \notin S /\ "internal" \notin S
  <2>1. MostRestrictive(S) = "public"
    BY <1>4 DEF MostRestrictive
  <2>2. v = "public"
    BY <1>1, <1>4
  <2> QED BY <1>1, <2>1, <2>2
<1> QED BY <1>2, <1>3, <1>4

\* The mention m of the note id is a synapse of G, as RelationsKept says.
EdgeKept(t, G, id, m) ==
    \E s \in G.records :
        /\ s.kind = "synapse" /\ s.type = m.type
        /\ Ends(s) = {m.from, m.to}
        /\ s.directed => EndOf(s, "source") = m.from
        /\ Privacy[s.legacy] >= Privacy[t.notes[id].visibility]

\* The locator l of the note id is evidence in G or deferred, as LocatorsCarried says.
LocatorKept(G, id, l) ==
    \/ \E ref \in Record(G, id).refs :
          ref.role = "evidence" /\ ref.id = l /\ ref.revision = G.bodies[l]
    \/ <<id, l>> \in Record(G, MigrationId).marks.deferred

\* The fields of a migrated synapse.
LEMMA SynapseIs ==
    ASSUME NEW t, NEW m, NEW s, s = Synapse(t, m)
    PROVE  /\ s.kind = "synapse" /\ s.type = m.type /\ s.directed = (m.type = "supersedes")
           /\ s.legacy = MostRestrictive({t.notes[id].visibility : id \in
                {i \in DOMAIN t.notes : SynapseId(m) \in {SynapseId(q) : q \in Mentions(t, i)}}})
           /\ s.refs = {Ref("source", Ordered(m).from, Unpinned), Ref("target", Ordered(m).to, Unpinned)}
<1> DEFINE legacy == MostRestrictive({t.notes[id].visibility : id \in
                {i \in DOMAIN t.notes : SynapseId(m) \in {SynapseId(q) : q \in Mentions(t, i)}}})
           refs == {Ref("source", Ordered(m).from, Unpinned), Ref("target", Ordered(m).to, Unpinned)}
           directed == (m.type = "supersedes")
<1>1. PICK x : x = Blank
  OBVIOUS
<1>2. s = [x EXCEPT !.id = SynapseId(m), !.kind = "synapse", !.status = "proposed",
              !.review = "unreviewed", !.type = m.type, !.directed = directed,
              !.legacy = legacy, !.refs = refs]
  BY <1>1 DEF Synapse
<1> HIDE DEF legacy, refs, directed
<1>3. s.kind = "synapse" /\ s.type = m.type /\ s.directed = directed /\ s.legacy = legacy /\ s.refs = refs
  BY <1>1, <1>2 DEF Blank
<1> QED BY <1>3 DEF legacy, refs, directed

\* Its ends are those of its references.
LEMMA EndsAre ==
    ASSUME NEW s, NEW a, NEW b, s.refs = {Ref("source", a, Unpinned), Ref("target", b, Unpinned)}
    PROVE  Ends(s) = {a, b} /\ EndOf(s, "source") = a
<1>1. PICK r : r = Ref("source", a, Unpinned)
  OBVIOUS
<1>2. PICK q : q = Ref("target", b, Unpinned)
  OBVIOUS
<1>3. r.role = "source" /\ r.id = a /\ q.role = "target" /\ q.id = b
  BY <1>1, <1>2 DEF Ref
<1>4. s.refs = {r, q}
  BY <1>1, <1>2
<1>5. Ends(s) = {a, b}
  BY <1>3, <1>4 DEF Ends
<1>6. PICK c : c = CHOOSE ref \in s.refs : ref.role = "source"
  OBVIOUS
<1>7. c \in s.refs /\ c.role = "source"
  BY <1>3, <1>4, <1>6
<1>8. EndOf(s, "source") = c.id
  BY <1>6 DEF EndOf
<1> QED BY <1>3, <1>4, <1>5, <1>7, <1>8

\* Mentions lead from the note that makes them to another.
LEMMA MentionIs ==
    ASSUME NEW t, ValidV0(t), NEW id \in DOMAIN t.notes, NEW m \in Mentions(t, id)
    PROVE  /\ m = [type |-> m.type, from |-> m.from, to |-> m.to]
           /\ m.from = id /\ m.to # id /\ m.type \in {"related", "supersedes"}
<1>1. \/ \E o \in t.notes[id].related : m = [type |-> "related", from |-> id, to |-> o]
      \/ \E o \in t.notes[id].supersedes : m = [type |-> "supersedes", from |-> id, to |-> o]
  BY DEF Mentions
<1>2. t.notes[id].related \cup t.notes[id].supersedes \subseteq DOMAIN t.notes \ {id}
  BY DEF ValidV0
<1> QED BY <1>1, <1>2

\* The records of the notes of t, and of what they say of each other.
NoteRecords(t) == UNION {{NoteRecord(t, id), NoteProvenance(id, t.notes[id])} : id \in DOMAIN t.notes}
Synapses(t) == {Synapse(t, m) : m \in UNION {Mentions(t, id) : id \in DOMAIN t.notes}}

\* The records of a migrated garden.
LEMMA MigratedRecords ==
    ASSUME NEW t
    PROVE  /\ {Profile, MigrationRecord(t), MigrationProvenance(t)} \subseteq Migrated(t).records
           /\ NoteRecords(t) \subseteq Migrated(t).records
           /\ Synapses(t) \subseteq Migrated(t).records
           /\ Migrated(t).bodies = [id \in DOMAIN t.notes |-> t.notes[id].body]
<1> DEFINE base == {Profile, MigrationRecord(t), MigrationProvenance(t)}
           bodies == [id \in DOMAIN t.notes |-> t.notes[id].body]
           notes == UNION {{NoteRecord(t, id), NoteProvenance(id, t.notes[id])} : id \in DOMAIN t.notes}
           synapses == {Synapse(t, m) : m \in UNION {Mentions(t, id) : id \in DOMAIN t.notes}}
<1>0. Migrated(t) = [visibility |-> t.visibility, bodies |-> bodies,
                     records |-> base \cup notes \cup synapses]
  BY DEF Migrated
<1>1. Migrated(t).records = base \cup notes \cup synapses /\ Migrated(t).bodies = bodies
  <2> HIDE DEF base, bodies, notes, synapses
  <2> QED BY <1>0
<1>2. notes = NoteRecords(t)
  BY DEF NoteRecords
<1>3. synapses = Synapses(t)
  BY DEF Synapses
<1> HIDE DEF base, bodies, notes, synapses
<1>4. /\ base \subseteq Migrated(t).records
      /\ NoteRecords(t) \subseteq Migrated(t).records
      /\ Synapses(t) \subseteq Migrated(t).records
  BY <1>1, <1>2, <1>3
<1> QED BY <1>1, <1>4 DEF base, bodies

\* Every mention becomes a synapse that is no more visible than the note.
LEMMA EdgesKept ==
    ASSUME NEW t, Shaped(t), ValidV0(t), NEW id \in DOMAIN t.notes, NEW m \in Mentions(t, id)
    PROVE  EdgeKept(t, Migrated(t), id, m)
<1>1. PICK s : s = Synapse(t, m)
  OBVIOUS
<1> DEFINE S == {t.notes[k].visibility : k \in
                {i \in DOMAIN t.notes : SynapseId(m) \in {SynapseId(q) : q \in Mentions(t, i)}}}
<1>2. /\ s.kind = "synapse" /\ s.type = m.type /\ s.directed = (m.type = "supersedes")
      /\ s.legacy = MostRestrictive(S)
      /\ s.refs = {Ref("source", Ordered(m).from, Unpinned), Ref("target", Ordered(m).to, Unpinned)}
  BY <1>1, SynapseIs
<1>3. s \in Migrated(t).records
  <2>1. m \in UNION {Mentions(t, i) : i \in DOMAIN t.notes}
    OBVIOUS
  <2>2. s \in Synapses(t)
    BY <1>1, <2>1 DEF Synapses
  <2> QED BY <2>2, MigratedRecords
<1>4. t.notes[id].visibility \in S
  OBVIOUS
<1> HIDE DEF S
<1>5. Privacy[s.legacy] >= Privacy[t.notes[id].visibility]
  BY <1>2, <1>4, MostIs DEF Shaped
<1>6. Ends(s) = {Ordered(m).from, Ordered(m).to} /\ EndOf(s, "source") = Ordered(m).from
  BY <1>2, EndsAre
<1>7. {Ordered(m).from, Ordered(m).to} = {m.from, m.to} /\ (m.type # "related" => Ordered(m) = m)
  BY MentionIs, OrderedEnds
<1> QED BY <1>2, <1>3, <1>5, <1>6, <1>7 DEF EdgeKept

\* A knowledge record has its identity and the evidence it found.
LEMMA KnowledgeIs ==
    ASSUME NEW t, NEW id, NEW l \in Verified(t, t.notes[id]), NEW r,
           r = KnowledgeRecord(t, id, t.notes[id])
    PROVE  r.id = id /\ Ref("evidence", l, t.notes[l].body) \in r.refs
<1> DEFINE n == t.notes[id]
           P == Preserved(id, n)
           base == {Ref("provenance", ProvenanceId(id), NoteProvenance(id, n))}
           refs(old) == old \cup {Ref("synapses", SynapseId(m), Unpinned) : m \in Mentions(t, id)}
                        \cup {Ref("supersedes", other, Unpinned) : other \in n.supersedes}
                        \cup {Ref("evidence", i, t.notes[i].body) : i \in Verified(t, n)}
           status == MigratedStatus(n.status)
           review == MigratedReview(n.reviewed)
<1>1. PICK x : x = P
  OBVIOUS
<1>2. r = [x EXCEPT !.kind = "knowledge", !.refs = refs(x.refs)]
  BY <1>1 DEF KnowledgeRecord
<1>3. x = [Blank EXCEPT !.id = id, !.legacy = n.visibility, !.body = n.body,
              !.status = status, !.review = review, !.refs = base]
  BY <1>1 DEF Preserved
<1>4. Ref("evidence", l, t.notes[l].body) \in refs(x.refs)
  OBVIOUS
<1>5. PICK new : new = refs(x.refs)
  OBVIOUS
<1> HIDE DEF base, refs, status, review, n, P
<1>6. PICK v, b : v = n.visibility /\ b = n.body
  OBVIOUS
<1>7. x = [id |-> id, kind |-> "none", status |-> status, review |-> review, legacy |-> v,
           own |-> NoScope, body |-> b, type |-> "none", directed |-> FALSE, refs |-> base,
           marks |-> NoMarks]
  BY <1>3, <1>6 DEF Blank
<1>8. r = [x EXCEPT !.kind = "knowledge", !.refs = new]
  BY <1>2, <1>5
<1>9. r.id = id /\ r.refs = new
  BY <1>7, <1>8
<1> QED BY <1>4, <1>5, <1>9

\* The migration record has its identity and the deferred locators.
LEMMA MigrationIs ==
    ASSUME NEW t, NEW r, r = MigrationRecord(t)
    PROVE  r.id = MigrationId /\ r.marks.deferred = Deferred(t)
<1> DEFINE marks == [preserved |-> DOMAIN t.notes, deferred |-> Deferred(t), source |-> t]
<1>1. r = [Blank EXCEPT !.id = MigrationId, !.kind = "migration", !.status = "applied",
              !.marks = marks]
  BY DEF MigrationRecord
<1>2. marks.deferred = Deferred(t)
  OBVIOUS
<1> HIDE DEF marks
<1>3. r.id = MigrationId /\ r.marks = marks
  BY <1>1 DEF Blank
<1> QED BY <1>2, <1>3

\* Where no two records have one name, who has a name is its record.
LEMMA RecordIs ==
    ASSUME NEW G, NEW r \in G.records, NEW id, r.id = id,
           \A q, s \in G.records : q.id = s.id => q = s
    PROVE  Record(G, id) = r
<1>1. PICK x : x = CHOOSE q \in G.records : q.id = id
  OBVIOUS
<1>2. x \in G.records /\ x.id = id
  BY <1>1
<1> QED BY <1>1, <1>2 DEF Record

\* Every locator of a note that is no source is evidence with the digest of its source,
\* or is deferred.
LEMMA LocatorsKept ==
    ASSUME NEW t, NEW id \in DOMAIN t.notes, t.notes[id].kind # "source",
           NEW l \in t.notes[id].sources,
           \A r, s \in Migrated(t).records : r.id = s.id => r = s
    PROVE  LocatorKept(Migrated(t), id, l)
<1>1. PICK G : G = Migrated(t)
  OBVIOUS
<1>2. G.bodies = [i \in DOMAIN t.notes |-> t.notes[i].body]
  BY <1>1, MigratedRecords
<1>3. CASE l \in Verified(t, t.notes[id])
  <2>1. PICK r : r = KnowledgeRecord(t, id, t.notes[id])
    OBVIOUS
  <2>2. r = NoteRecord(t, id)
    BY <2>1 DEF NoteRecord
  <2>3. r \in NoteRecords(t)
    BY <2>2 DEF NoteRecords
  <2>4. r \in G.records
    BY <1>1, <2>3, MigratedRecords
  <2>5. r.id = id /\ Ref("evidence", l, t.notes[l].body) \in r.refs
    BY <1>3, <2>1, KnowledgeIs
  <2>6. Record(G, id) = r
    BY <1>1, <2>4, <2>5, RecordIs
  <2>7. l \in DOMAIN t.notes
    BY <1>3 DEF Verified
  <2>8. PICK ref : ref = Ref("evidence", l, t.notes[l].body)
    OBVIOUS
  <2>9. ref.role = "evidence" /\ ref.id = l /\ ref.revision = t.notes[l].body
    BY <2>8 DEF Ref
  <2>10. G.bodies[l] = t.notes[l].body
    BY <1>2, <2>7
  <2> QED BY <1>1, <2>5, <2>6, <2>8, <2>9, <2>10 DEF LocatorKept
<1>4. CASE l \notin Verified(t, t.notes[id])
  <2>1. PICK r : r = MigrationRecord(t)
    OBVIOUS
  <2>2. r.id = MigrationId /\ r.marks.deferred = Deferred(t)
    BY <2>1, MigrationIs
  <2>3. <<id, l>> \in Deferred(t)
    BY <1>4 DEF Deferred
  <2>4. r \in G.records
    BY <1>1, <2>1, MigratedRecords
  <2>5. Record(G, MigrationId) = r
    BY <1>1, <2>2, <2>4, RecordIs
  <2> QED BY <1>1, <2>2, <2>3, <2>5 DEF LocatorKept
<1> QED BY <1>3, <1>4

\* The locators of a source note, though, are dropped, whatever they name: its record has
\* no evidence and no deferred mapping is its own.
LEMMA SourceLocatorsDropped ==
    ASSUME NEW t, NEW id \in DOMAIN t.notes, t.notes[id].kind = "source"
    PROVE  /\ \A ref \in NoteRecord(t, id).refs : ref.role # "evidence"
           /\ \A l : <<id, l>> \notin Deferred(t)
<1>1. \A l : <<id, l>> \notin Deferred(t)
  BY DEF Deferred
<1>2. PICK base : base = {Ref("provenance", ProvenanceId(id), NoteProvenance(id, t.notes[id]))}
  OBVIOUS
<1>3. NoteRecord(t, id).refs = base
  BY <1>2 DEF NoteRecord, SourceRecord, Preserved, Blank
<1> QED BY <1>1, <1>2, <1>3 DEF Ref

\* Every relation of the v0 garden is in the v1 garden there is, no more visible than a
\* note that mentions it, and so is every locator of a note that is no source: for
\* gardens of any size, whatever operators and the owner do meanwhile.
THEOREM RelationsCarried == Spec => []RelationsKept
<1>1. Init => LifeInv
  BY LifeStart
<1>2. LifeInv /\ [Next]_vars => LifeInv'
  BY LifeStep
<1>3. LifeInv => RelationsKept
  <2> SUFFICES ASSUME LifeInv, tree.form = "v1", tree.from # Nothing,
                      NEW t \in {tree.from.of}, NEW G \in {GardenIn(tree)}, NEW id \in DOMAIN t.notes
               PROVE  /\ \A m \in Mentions(t, id) :
                            \E s \in G.records :
                                /\ s.kind = "synapse" /\ s.type = m.type
                                /\ Ends(s) = {m.from, m.to}
                                /\ s.directed => EndOf(s, "source") = m.from
                                /\ Privacy[s.legacy] >= Privacy[t.notes[id].visibility]
                      /\ t.notes[id].kind # "source" => LocatorsCarried(t, G, id)
    BY Zenon DEF RelationsKept
  <2>1. Carried(tree.from)
    BY TreeIs, Forms DEF V1Tree
  <2>2. PICK u : /\ tree.from = V0(u) /\ Shaped(u) /\ ValidV0(u)
                 /\ \A r, s \in Migrated(u).records : r.id = s.id => r = s
    BY <2>1 DEF Carried
  <2>3. t = u
    BY <2>2, Forms
  <2>4. G = Migrated(t)
    BY <2>3 DEF GardenIn
  <2>5. \A m \in Mentions(t, id) : EdgeKept(t, G, id, m)
    BY <2>2, <2>3, <2>4, EdgesKept
  <2>6. ASSUME t.notes[id].kind # "source", NEW l \in t.notes[id].sources
        PROVE  LocatorKept(G, id, l)
    BY <2>2, <2>3, <2>4, <2>6, LocatorsKept
  <2>7. t.notes[id].kind # "source" => LocatorsCarried(t, G, id)
    BY <2>6, Zenon DEF LocatorsCarried, LocatorKept
  <2> QED BY <2>5, <2>7, Zenon DEF EdgeKept
<1> QED
  BY <1>1, <1>2, <1>3, PTL DEF Spec

=============================================================================

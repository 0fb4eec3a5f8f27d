------------------------ MODULE GardenWriters_proofs -------------------------
(***************************************************************************)
(* Theorems about GardenWriters for any number of gardens, invocations and *)
(* plans, any budget of kills and failing operations, any owner.  First    *)
(* those about invocations that overlap, then those about invocations that *)
(* follow one another (MaxLive <= 1): an interrupted selection can be      *)
(* taken back and recovery accepts it; without interruptions nothing is    *)
(* left behind; and, where nobody edits a tree by hand, the writers        *)
(* implement AtomicPublication.  (Where routing invocations and recoveries *)
(* overlap a lock can be released that its owner no longer holds, see the  *)
(* run lock_released_twice: the second half's invariants are not preserved *)
(* then.)                                                                  *)
(***************************************************************************)
EXTENDS GardenWriters, FiniteSetTheorems, WellFoundedInduction, TLAPS

\* Which kind of invocation can be at which step.
Roles ==
    \A p \in Proc :
       /\ pc[p] \in ChangeSteps => Kind[p] = "change"
       /\ pc[p] \in ApplySteps \cup {"except", "finally", "release"} => Kind[p] = "route"
       /\ pc[p] \in RecoverSteps => Kind[p] # "change"
       /\ ctx[p] # "cli" => Kind[p] = "route"

\* An invocation that takes locks has one left to take.
Looping == \A p \in Proc : pc[p] = "lock" => todo[p] # {}

TypeInv == TypeOK /\ Roles /\ Looping

-----------------------------------------------------------------------------
(***************************************************************************)
(* Facts about plans and journals.                                         *)
(***************************************************************************)

\* Routes and recoveries are given routing digests, change invocations change plans.
LEMMA PlanKinds ==
    ASSUME NEW p \in Proc
    PROVE  /\ PlanOf[p] \in Plan
           /\ Kind[p] = "change" => PlanOf[p] \in Change
           /\ Kind[p] # "change" => PlanOf[p] \in Route
  BY StoreAssumption DEF Plan

\* The one garden of a change plan.
LEMMA HomeInGarden ==
    ASSUME NEW p \in Proc, Kind[p] = "change"
    PROVE  Home(p) \in Garden
<1>1. PlanOf[p] \in Change
  BY PlanKinds
<1>2. PICK g \in Garden : Targets[PlanOf[p]] = {g}
  BY <1>1, StoreAssumption
<1>3. Home(p) \in {g}
  BY <1>2 DEF Home
<1>. QED  BY <1>3

\* The document a routing apply starts from is a journal document.
LEMMA NewJournalType ==
    ASSUME NEW p \in Proc, NEW v \in Nat
    PROVE  NewJournal(p, v) \in Journal
  BY DEF NewJournal, Journal, JournalState, Tree, Missing

\* So is the absent journal.
LEMMA NoJournalType == NoJournal \in Journal
<1>1. AnyProc \in Proc
  BY StoreAssumption DEF AnyProc
<1>. QED  BY <1>1, NewJournalType DEF NoJournal

\* Rewriting the state of a journal document.
LEMMA JournalStateType ==
    ASSUME NEW j \in Journal, NEW s \in JournalState
    PROVE  [j EXCEPT !.state = s] \in Journal
  BY DEF Journal

\* Adding one entry to a journal document.
LEMMA JournalEntryType ==
    ASSUME NEW j \in Journal, NEW g, NEW b, NEW a, g \in Garden => b \in Tree /\ a \in Tree
    PROVE  [j EXCEPT !.before[g] = b, !.after[g] = a] \in Journal
  BY DEF Journal

\* Targets of a plan and entries of a journal are gardens.
LEMMA TargetsInGarden ==
    ASSUME NEW p \in Proc
    PROVE  Targets[PlanOf[p]] \in SUBSET Garden
  BY PlanKinds, StoreAssumption

LEMMA EntriesInGarden ==
    ASSUME NEW j
    PROVE  Entries(j) \in SUBSET Garden
  BY DEF Entries

-----------------------------------------------------------------------------
(***************************************************************************)
(* Type correctness.                                                       *)
(***************************************************************************)

\* The initial state has the types.
LEMMA TypeInit == Init => TypeInv
  BY StoreAssumption, NoJournalType
     DEF Init, StoreInit, TypeInv, TypeOK, Roles, Looping, Tree, Missing, Step, ChangeSteps,
         ApplySteps, RecoverSteps

\* A non-empty set of gardens has a smallest member: the initial segments up to
\* its members are well-founded under inclusion.
LEMMA SmallestGarden ==
    ASSUME NEW S, S \subseteq Garden, S # {}
    PROVE  \E g \in S : \A h \in S : g <= h
<1>. DEFINE T == {1..g : g \in S}
<1>1. IsWellFoundedOn(StrictSubsetOrdering(Garden), SUBSET Garden)
  <2>1. IsFiniteSet(Garden)
    BY StoreAssumption, FS_Interval DEF Garden
  <2>2. FiniteSubsetsOf(Garden) = SUBSET Garden
    BY <2>1, FS_FiniteSubsetsOfFinite
  <2>. QED BY <2>2, FS_StrictSubsetOrderingWellFounded
<1>2. T \subseteq SUBSET Garden /\ T # {}
  <2>1. \A g \in S : 1..g \in SUBSET Garden
    BY StoreAssumption DEF Garden
  <2>. QED BY <2>1
<1>3. PICK t \in T : \A u \in T : <<u, t>> \notin StrictSubsetOrdering(Garden)
  <2>. HIDE DEF T
  <2>. QED BY <1>1, <1>2, WFMin
<1>4. PICK g \in S : t = 1..g
  BY <1>3
<1>5. \A h \in S : g <= h
  <2>. S \subseteq Int
    BY StoreAssumption DEF Garden
  <2>. SUFFICES ASSUME NEW h \in S, h < g PROVE FALSE
    OBVIOUS
  <2>1. 1..h \subseteq 1..g /\ 1..h # 1..g
    BY <1>4, StoreAssumption DEF Garden
  <2>2. 1..h \in T /\ 1..h \in SUBSET Garden /\ 1..g \in SUBSET Garden
    BY StoreAssumption DEF Garden
  <2>3. <<1..h, t>> \in StrictSubsetOrdering(Garden)
    BY <1>4, <2>1, <2>2 DEF StrictSubsetOrdering
  <2>. QED BY <1>3, <2>2, <2>3
<1>. QED BY <1>5

\* Identity order: the first garden of a set is one of its members.
LEMMA FirstMember ==
    ASSUME NEW S, S \subseteq Garden, S # {}
    PROVE  First(S) \in S
  BY SmallestGarden DEF First

\* Replacing one tree beside a garden.
LEMMA PairUpdate ==
    ASSUME NEW f \in [Proc -> [Garden -> Tree]], NEW p \in Proc, NEW g, NEW t,
           g \in Garden => t \in Tree
    PROVE  [f EXCEPT ![p][g] = t] \in [Proc -> [Garden -> Tree]]
  OBVIOUS

\* Missing and torn directories are trees, and so is a tree with one more change.
LEMMA TreeFacts ==
    /\ Missing \in Tree
    /\ {Torn} \in Tree
    /\ \A t \in Tree, d \in Plan \cup Edit : t \cup {d} \in Tree
  BY DEF Tree, Missing

\* Steps of a single-garden apply keep the types.
LEMMA TypeChange ==
    ASSUME TypeOK, NEW p \in Proc, Kind[p] = "change", ChangeStep(p)
    PROVE  TypeOK'
<1>trees. /\ canonical \in [Garden -> Tree]
          /\ stage \in [Proc -> [Garden -> Tree]]
          /\ backup \in [Proc -> [Garden -> Tree]]
          /\ Missing \in Tree /\ {Torn} \in Tree
          /\ \A t \in Tree, d \in Plan : t \cup {d} \in Tree
  BY TreeFacts DEF TypeOK
<1>locks. lock \in [Garden -> Plan \cup {Free, Blank}]
  BY DEF TypeOK
<1>docs. journal \in [Route -> Journal] /\ mem \in [Proc -> Journal]
  BY DEF TypeOK
<1>steps. pc \in [Proc -> Step]
  BY DEF TypeOK
<1>sets. todo \in [Proc -> SUBSET Garden] /\ held \in [Proc -> SUBSET Garden]
  BY DEF TypeOK
<1>tags. /\ ctx \in [Proc -> {"commit", "except", "cli"}]
         /\ ret \in [Proc -> {"none", "applied", "unchanged"}]
  BY DEF TypeOK
<1>home. Home(p) \in Garden /\ PlanOf[p] \in Change /\ PlanOf[p] \in Plan
  BY HomeInGarden, PlanKinds
<1>values. /\ canonical[Home(p)] \in Tree /\ canonical[Home(p)] \cup {PlanOf[p]} \in Tree
           /\ stage[p][Home(p)] \in Tree /\ backup[p][Home(p)] \in Tree
  BY <1>home, <1>trees
<1>1. CASE ChangeLock(p)
<2>1. lock' \in [Garden -> Plan \cup {Free, Blank}]
  BY <1>1, <1>locks, <1>home DEF ChangeLock
<2>2. held' \in [Proc -> SUBSET Garden]
  BY <1>1, <1>sets, <1>home DEF ChangeLock
<2>3. pc' \in [Proc -> Step]
  BY <1>1, <1>steps DEF ChangeLock, Goto, Step, ChangeSteps
<2>4. QED
  BY <1>1, <2>1, <2>2, <2>3 DEF ChangeLock, TypeOK, files, budget
<1>2. CASE ChangeVerify(p)
<2>1. pc' \in [Proc -> Step]
  BY <1>2, <1>steps DEF ChangeVerify, Goto, Step, ChangeSteps
<2>2. ret' \in [Proc -> {"none", "applied", "unchanged"}]
  BY <1>2, <1>tags DEF ChangeVerify
<2>3. QED
  BY <1>2, <2>1, <2>2 DEF ChangeVerify, TypeOK, files, budget
<1>3. CASE ChangeBlob(p)
<2>1. pc' \in [Proc -> Step]
  BY <1>3, <1>steps DEF ChangeBlob, Goto, Step, ChangeSteps
<2>2. QED
  BY <1>3, <1>home, <2>1 DEF ChangeBlob, TypeOK, files, budget
<1>4. CASE ChangeStage(p)
<2>1. stage' \in [Proc -> [Garden -> Tree]]
<3>1. [stage EXCEPT ![p][Home(p)] = canonical[Home(p)] \cup {PlanOf[p]}] \in [Proc -> [Garden -> Tree]]
  BY <1>trees, <1>home, <1>values, PairUpdate
<3>2. stage' \in {stage, [stage EXCEPT ![p][Home(p)] = canonical[Home(p)] \cup {PlanOf[p]}]}
  BY <1>4 DEF ChangeStage
<3>. QED
  BY <3>1, <3>2, <1>trees
<2>2. pc' \in [Proc -> Step]
  BY <1>4, <1>steps DEF ChangeStage, Goto, Step, ChangeSteps
<2>3. QED
  BY <1>4, <2>1, <2>2 DEF ChangeStage, TypeOK, files, budget
<1>5. CASE ChangeRecheck(p)
<2>1. pc' \in [Proc -> Step]
  BY <1>5, <1>steps DEF ChangeRecheck, Goto, Step, ChangeSteps
<2>2. QED
  BY <1>5, <2>1 DEF ChangeRecheck, TypeOK, files, budget
<1>6. CASE ChangeJournal(p)
<2>1. lock' \in [Garden -> Plan \cup {Free, Blank}]
  BY <1>6, <1>locks, <1>home DEF ChangeJournal
<2>2. pc' \in [Proc -> Step]
  BY <1>6, <1>steps DEF ChangeJournal, Goto, Step, ChangeSteps
<2>3. QED
  BY <1>6, <2>1, <2>2 DEF ChangeJournal, TypeOK, files, budget
<1>7. CASE ChangeRetire(p)
<2>1. canonical' \in [Garden -> Tree]
  BY <1>7, <1>trees, <1>home, <1>values DEF ChangeRetire
<2>2. backup' \in [Proc -> [Garden -> Tree]]
<3>1. [backup EXCEPT ![p][Home(p)] = canonical[Home(p)]] \in [Proc -> [Garden -> Tree]]
  BY <1>trees, <1>home, <1>values, PairUpdate
<3>2. backup' \in {backup, [backup EXCEPT ![p][Home(p)] = canonical[Home(p)]]}
  BY <1>7 DEF ChangeRetire
<3>. QED
  BY <3>1, <3>2, <1>trees
<2>3. pc' \in [Proc -> Step]
  BY <1>7, <1>steps DEF ChangeRetire, Goto, Step, ChangeSteps
<2>4. QED
  BY <1>7, <2>1, <2>2, <2>3 DEF ChangeRetire, TypeOK, files, budget
<1>8. CASE ChangeSelect(p)
<2>1. canonical' \in [Garden -> Tree]
  BY <1>8, <1>trees, <1>home, <1>values DEF ChangeSelect
<2>2. stage' \in [Proc -> [Garden -> Tree]]
<3>1. [stage EXCEPT ![p][Home(p)] = Missing] \in [Proc -> [Garden -> Tree]]
  BY <1>trees, <1>home, <1>values, PairUpdate
<3>2. stage' \in {stage, [stage EXCEPT ![p][Home(p)] = Missing]}
  BY <1>8 DEF ChangeSelect
<3>. QED
  BY <3>1, <3>2, <1>trees
<2>3. pc' \in [Proc -> Step]
  BY <1>8, <1>steps DEF ChangeSelect, Goto, Step, ChangeSteps
<2>4. ret' \in [Proc -> {"none", "applied", "unchanged"}]
  BY <1>8, <1>tags DEF ChangeSelect
<2>5. QED
  BY <1>8, <2>1, <2>2, <2>3, <2>4 DEF ChangeSelect, TypeOK, files, budget
<1>9. CASE ChangeUndo(p)
<2>1. canonical' \in [Garden -> Tree]
  BY <1>9, <1>trees, <1>home, <1>values DEF ChangeUndo
<2>2. backup' \in [Proc -> [Garden -> Tree]]
<3>1. [backup EXCEPT ![p][Home(p)] = Missing] \in [Proc -> [Garden -> Tree]]
  BY <1>trees, <1>home, <1>values, PairUpdate
<3>2. backup' \in {backup, [backup EXCEPT ![p][Home(p)] = Missing]}
  BY <1>9 DEF ChangeUndo
<3>. QED
  BY <3>1, <3>2, <1>trees
<2>3. pc' \in [Proc -> Step]
  BY <1>9, <1>steps DEF ChangeUndo, Goto, Step, ChangeSteps
<2>4. QED
  BY <1>9, <2>1, <2>2, <2>3 DEF ChangeUndo, TypeOK, files, budget
<1>10. CASE ChangeFinally(p)
<2>1. stage' \in [Proc -> [Garden -> Tree]]
<3>1. [stage EXCEPT ![p][Home(p)] = Missing] \in [Proc -> [Garden -> Tree]]
  BY <1>trees, <1>home, <1>values, PairUpdate
<3>2. stage' \in {stage, [stage EXCEPT ![p][Home(p)] = Missing]}
  BY <1>10 DEF ChangeFinally
<3>. QED
  BY <3>1, <3>2, <1>trees
<2>2. backup' \in [Proc -> [Garden -> Tree]]
<3>1. [backup EXCEPT ![p][Home(p)] = Missing] \in [Proc -> [Garden -> Tree]]
  BY <1>trees, <1>home, <1>values, PairUpdate
<3>2. backup' \in {backup, [backup EXCEPT ![p][Home(p)] = Missing]}
  BY <1>10 DEF ChangeFinally
<3>. QED
  BY <3>1, <3>2, <1>trees
<2>3. pc' \in [Proc -> Step]
  BY <1>10, <1>steps DEF ChangeFinally, Goto, Step, ChangeSteps
<2>4. QED
  BY <1>10, <2>1, <2>2, <2>3 DEF ChangeFinally, TypeOK, files, budget
<1>11. CASE ChangeRelease(p)
<2>1. lock' \in [Garden -> Plan \cup {Free, Blank}]
  BY <1>11, <1>locks, <1>home DEF ChangeRelease
<2>2. held' \in [Proc -> SUBSET Garden]
  BY <1>11, <1>sets DEF ChangeRelease
<2>3. pc' \in [Proc -> Step]
  BY <1>11, <1>steps DEF ChangeRelease, Goto, Step, ChangeSteps
<2>4. QED
  BY <1>11, <2>1, <2>2, <2>3 DEF ChangeRelease, TypeOK, files, budget
<1>. QED
  BY <1>1, <1>2, <1>3, <1>4, <1>5, <1>6, <1>7, <1>8, <1>9, <1>10, <1>11 DEF ChangeStep

\* Steps of a routing apply keep the types.
LEMMA TypeRoute ==
    ASSUME TypeOK, NEW p \in Proc, Kind[p] = "route", RouteStep(p),
           pc[p] = "lock" => todo[p] # {}
    PROVE  TypeOK'
<1>trees. /\ canonical \in [Garden -> Tree]
          /\ stage \in [Proc -> [Garden -> Tree]]
          /\ backup \in [Proc -> [Garden -> Tree]]
          /\ Missing \in Tree /\ {Torn} \in Tree
          /\ \A t \in Tree, d \in Plan : t \cup {d} \in Tree
  BY TreeFacts DEF TypeOK
<1>locks. lock \in [Garden -> Plan \cup {Free, Blank}]
  BY DEF TypeOK
<1>docs. journal \in [Route -> Journal] /\ mem \in [Proc -> Journal]
  BY DEF TypeOK
<1>steps. pc \in [Proc -> Step]
  BY DEF TypeOK
<1>sets. todo \in [Proc -> SUBSET Garden] /\ held \in [Proc -> SUBSET Garden]
  BY DEF TypeOK
<1>tags. /\ ctx \in [Proc -> {"commit", "except", "cli"}]
         /\ ret \in [Proc -> {"none", "applied", "unchanged"}]
  BY DEF TypeOK
<1>plan. PlanOf[p] \in Route /\ PlanOf[p] \in Plan /\ Targets[PlanOf[p]] \in SUBSET Garden
  BY PlanKinds, TargetsInGarden
<1>values. First(todo[p]) \in Garden =>
             /\ canonical[First(todo[p])] \in Tree
             /\ canonical[First(todo[p])] \cup {PlanOf[p]} \in Tree
             /\ stage[p][First(todo[p])] \in Tree
  BY <1>trees, <1>plan
<1>first. pc[p] = "lock" => First(todo[p]) \in Garden
  BY <1>sets, FirstMember
<1>new. bindings \in Nat /\ NewJournal(p, bindings) \in Journal
  BY NewJournalType DEF TypeOK
<1>state. \A s \in JournalState : [mem[p] EXCEPT !.state = s] \in Journal
  BY <1>docs, JournalStateType
<1>names. {"prepared", "selecting", "committed"} \subseteq JournalState
  BY DEF JournalState
<1>entry. [mem[p] EXCEPT !.before[First(todo[p])] = canonical[First(todo[p])],
                         !.after[First(todo[p])] = stage[p][First(todo[p])]] \in Journal
  BY <1>docs, <1>values, JournalEntryType
<1>1. CASE RouteBegin(p)
<2>1. mem' \in [Proc -> Journal]
  BY <1>1, <1>docs, <1>plan, <1>new DEF RouteBegin
<2>2. todo' \in [Proc -> SUBSET Garden]
  BY <1>1, <1>sets, <1>plan DEF RouteBegin
<2>3. pc' \in [Proc -> Step]
  BY <1>1, <1>steps DEF RouteBegin, Goto, Step, ApplySteps
<2>4. QED
  BY <1>1, <2>1, <2>2, <2>3 DEF RouteBegin, TypeOK, files, budget
<1>2. CASE RouteLock(p)
<2>1. lock' \in [Garden -> Plan \cup {Free, Blank}]
  BY <1>2, <1>locks, <1>plan DEF RouteLock
<2>2. held' \in [Proc -> SUBSET Garden]
  BY <1>2, <1>sets, <1>first DEF RouteLock
<2>3. todo' \in [Proc -> SUBSET Garden]
  BY <1>2, <1>sets DEF RouteLock
<2>4. pc' \in [Proc -> Step]
  BY <1>2, <1>steps DEF RouteLock, Goto, Step, ApplySteps
<2>5. QED
  BY <1>2, <2>1, <2>2, <2>3, <2>4 DEF RouteLock, TypeOK, files, budget
<1>3. CASE RouteVerify(p)
<2>1. todo' \in [Proc -> SUBSET Garden]
  BY <1>3, <1>sets, <1>plan DEF RouteVerify
<2>2. pc' \in [Proc -> Step]
  BY <1>3, <1>steps DEF RouteVerify, Goto, Step, ApplySteps
<2>3. ret' \in [Proc -> {"none", "applied", "unchanged"}]
  BY <1>3, <1>tags DEF RouteVerify
<2>4. QED
  BY <1>3, <2>1, <2>2, <2>3 DEF RouteVerify, TypeOK, files, budget
<1>4. CASE RouteCopy(p)
<2>1. stage' \in [Proc -> [Garden -> Tree]]
<3>1. [stage EXCEPT ![p][First(todo[p])] = canonical[First(todo[p])] \cup {PlanOf[p]}]
         \in [Proc -> [Garden -> Tree]]
  BY <1>trees, <1>values, PairUpdate
<3>2. stage' \in {stage,
         [stage EXCEPT ![p][First(todo[p])] = canonical[First(todo[p])] \cup {PlanOf[p]}]}
  BY <1>4 DEF RouteCopy
<3>. QED
  BY <3>1, <3>2, <1>trees
<2>2. pc' \in [Proc -> Step]
  BY <1>4, <1>steps DEF RouteCopy, Goto, Step, ApplySteps
<2>3. QED
  BY <1>4, <2>1, <2>2 DEF RouteCopy, TypeOK, files, budget
<1>5. CASE RouteRecord(p)
<2>1. mem' \in [Proc -> Journal]
  BY <1>5, <1>docs, <1>values, <1>entry DEF RouteRecord
<2>2. todo' \in [Proc -> SUBSET Garden]
  BY <1>5, <1>sets DEF RouteRecord
<2>3. pc' \in [Proc -> Step]
  BY <1>5, <1>steps DEF RouteRecord, Goto, Step, ApplySteps
<2>4. QED
  BY <1>5, <2>1, <2>2, <2>3 DEF RouteRecord, TypeOK, files, budget
<1>6. CASE RouteValidate(p)
<2>1. pc' \in [Proc -> Step]
  BY <1>6, <1>steps DEF RouteValidate, Goto, Step, ApplySteps
<2>2. QED
  BY <1>6, <2>1 DEF RouteValidate, TypeOK, files, budget
<1>7. CASE RouteReverify(p)
<2>1. pc' \in [Proc -> Step]
  BY <1>7, <1>steps DEF RouteReverify, Goto, Step, ApplySteps
<2>2. QED
  BY <1>7, <2>1 DEF RouteReverify, TypeOK, files, budget
<1>8. CASE RoutePrepare(p)
<2>1. journal' \in [Route -> Journal]
  BY <1>8, <1>docs, <1>plan, <1>state, <1>names DEF RoutePrepare, WriteJournal
<2>2. mem' \in [Proc -> Journal]
  BY <1>8, <1>docs, <1>state, <1>names DEF RoutePrepare, WriteJournal
<2>3. pc' \in [Proc -> Step]
  BY <1>8, <1>steps DEF RoutePrepare, Goto, Step, ApplySteps
<2>4. QED
  BY <1>8, <2>1, <2>2, <2>3 DEF RoutePrepare, TypeOK, files, budget
<1>9. CASE RouteSelecting(p)
<2>1. journal' \in [Route -> Journal]
  BY <1>9, <1>docs, <1>plan, <1>state, <1>names DEF RouteSelecting, WriteJournal
<2>2. mem' \in [Proc -> Journal]
  BY <1>9, <1>docs, <1>state, <1>names DEF RouteSelecting, WriteJournal
<2>3. todo' \in [Proc -> SUBSET Garden]
  BY <1>9, <1>sets, EntriesInGarden DEF RouteSelecting
<2>4. pc' \in [Proc -> Step]
  BY <1>9, <1>steps DEF RouteSelecting, Goto, Step, ApplySteps
<2>5. QED
  BY <1>9, <2>1, <2>2, <2>3, <2>4 DEF RouteSelecting, TypeOK, files, budget
<1>10. CASE RouteRetire(p)
<2>1. canonical' \in [Garden -> Tree]
  BY <1>10, <1>trees DEF RouteRetire
<2>2. backup' \in [Proc -> [Garden -> Tree]]
<3>1. [backup EXCEPT ![p][First(todo[p])] = canonical[First(todo[p])]] \in [Proc -> [Garden -> Tree]]
  BY <1>trees, <1>values, PairUpdate
<3>2. backup' \in {backup, [backup EXCEPT ![p][First(todo[p])] = canonical[First(todo[p])]]}
  BY <1>10 DEF RouteRetire
<3>. QED
  BY <3>1, <3>2, <1>trees
<2>3. pc' \in [Proc -> Step]
  BY <1>10, <1>steps DEF RouteRetire, Goto, Step, ApplySteps
<2>4. QED
  BY <1>10, <2>1, <2>2, <2>3 DEF RouteRetire, TypeOK, files, budget
<1>11. CASE RouteSelect(p)
<2>1. canonical' \in [Garden -> Tree]
  BY <1>11, <1>trees, <1>values DEF RouteSelect
<2>2. stage' \in [Proc -> [Garden -> Tree]]
<3>1. [stage EXCEPT ![p][First(todo[p])] = Missing] \in [Proc -> [Garden -> Tree]]
  BY <1>trees, PairUpdate
<3>2. stage' \in {stage, [stage EXCEPT ![p][First(todo[p])] = Missing]}
  BY <1>11 DEF RouteSelect
<3>. QED
  BY <3>1, <3>2, <1>trees
<2>3. todo' \in [Proc -> SUBSET Garden]
  BY <1>11, <1>sets DEF RouteSelect
<2>4. pc' \in [Proc -> Step]
  BY <1>11, <1>steps DEF RouteSelect, Goto, Step, ApplySteps
<2>5. QED
  BY <1>11, <2>1, <2>2, <2>3, <2>4 DEF RouteSelect, TypeOK, files, budget
<1>12. CASE RouteCommit(p)
<2>1. journal' \in [Route -> Journal]
  BY <1>12, <1>docs, <1>plan, <1>state, <1>names DEF RouteCommit, WriteJournal
<2>2. mem' \in [Proc -> Journal]
  BY <1>12, <1>docs, <1>state, <1>names DEF RouteCommit, WriteJournal
<2>3. ctx' \in [Proc -> {"commit", "except", "cli"}]
  BY <1>12, <1>tags DEF RouteCommit
<2>4. pc' \in [Proc -> Step]
  BY <1>12, <1>steps DEF RouteCommit, Goto, Step, ApplySteps, RecoverSteps
<2>5. QED
  BY <1>12, <2>1, <2>2, <2>3, <2>4 DEF RouteCommit, TypeOK, files, budget
<1>13. CASE RouteExcept(p)
<2>1. ctx' \in [Proc -> {"commit", "except", "cli"}]
  BY <1>13, <1>tags DEF RouteExcept
<2>2. pc' \in [Proc -> Step]
  BY <1>13, <1>steps DEF RouteExcept, Goto, Step, ApplySteps, RecoverSteps
<2>3. QED
  BY <1>13, <2>1, <2>2 DEF RouteExcept, TypeOK, files, budget
<1>14. CASE RouteFinally(p)
<2>1. stage' \in [Proc -> [Garden -> Tree]]
  BY <1>14, <1>trees DEF RouteFinally
<2>2. held' \in [Proc -> SUBSET Garden]
  BY <1>14, <1>sets DEF RouteFinally
<2>3. pc' \in [Proc -> Step]
  BY <1>14, <1>steps DEF RouteFinally, Goto, Step, ApplySteps
<2>4. QED
  BY <1>14, <2>1, <2>2, <2>3 DEF RouteFinally, TypeOK, files, budget
<1>15. CASE RouteRelease(p)
<2>1. lock' \in [Garden -> Plan \cup {Free, Blank}]
  BY <1>15, <1>locks DEF RouteRelease
<2>2. held' \in [Proc -> SUBSET Garden]
  BY <1>15, <1>sets DEF RouteRelease
<2>3. pc' \in [Proc -> Step]
  BY <1>15, <1>steps DEF RouteRelease, Goto, Step, ApplySteps
<2>4. QED
  BY <1>15, <2>1, <2>2, <2>3 DEF RouteRelease, TypeOK, files, budget
<1>. QED
  BY <1>1, <1>2, <1>3, <1>4, <1>5, <1>6, <1>7, <1>8, <1>9, <1>10, <1>11, <1>12, <1>13,
     <1>14, <1>15
     DEF RouteStep

\* Steps of recovery keep the types.
LEMMA TypeRecover ==
    ASSUME TypeOK, NEW p \in Proc, Kind[p] # "change", RecoverStep(p)
    PROVE  TypeOK'
<1>trees. /\ canonical \in [Garden -> Tree]
          /\ stage \in [Proc -> [Garden -> Tree]]
          /\ backup \in [Proc -> [Garden -> Tree]]
          /\ Missing \in Tree /\ {Torn} \in Tree
          /\ \A t \in Tree, d \in Plan : t \cup {d} \in Tree
  BY TreeFacts DEF TypeOK
<1>locks. lock \in [Garden -> Plan \cup {Free, Blank}]
  BY DEF TypeOK
<1>docs. journal \in [Route -> Journal] /\ mem \in [Proc -> Journal]
  BY DEF TypeOK
<1>steps. pc \in [Proc -> Step]
  BY DEF TypeOK
<1>sets. todo \in [Proc -> SUBSET Garden] /\ held \in [Proc -> SUBSET Garden]
  BY DEF TypeOK
<1>tags. /\ ctx \in [Proc -> {"commit", "except", "cli"}]
         /\ ret \in [Proc -> {"none", "applied", "unchanged"}]
  BY DEF TypeOK
<1>plan. PlanOf[p] \in Route
  BY PlanKinds
<1>by. mem[p].by \in Proc
  BY <1>docs DEF Journal
<1>values. Final(todo[p]) \in Garden =>
             /\ canonical[Final(todo[p])] \in Tree
             /\ backup[mem[p].by][Final(todo[p])] \in Tree
  BY <1>trees, <1>by
<1>state. \A s \in JournalState : [mem[p] EXCEPT !.state = s] \in Journal
  BY <1>docs, JournalStateType
<1>names. {"committed", "rolled-back"} \subseteq JournalState
  BY DEF JournalState
<1>handler. RecoverHandler(p) \in Step
  BY <1>tags DEF RecoverHandler, Step
<1>1. CASE RecoverBegin(p)
<2>1. ctx' \in [Proc -> {"commit", "except", "cli"}]
  BY <1>1, <1>tags DEF RecoverBegin
<2>2. pc' \in [Proc -> Step]
  BY <1>1, <1>steps DEF RecoverBegin, Goto, Step, RecoverSteps
<2>3. QED
  BY <1>1, <2>1, <2>2 DEF RecoverBegin, TypeOK, files, budget
<1>2. CASE RecoverCheck(p)
<2>1. mem' \in [Proc -> Journal]
  BY <1>2, <1>docs, <1>plan DEF RecoverCheck
<2>2. todo' \in [Proc -> SUBSET Garden]
  BY <1>2, <1>sets, EntriesInGarden DEF RecoverCheck
<2>3. pc' \in [Proc -> Step]
  BY <1>2, <1>steps, <1>handler DEF RecoverCheck, Goto, Step, RecoverSteps
<2>4. QED
  BY <1>2, <2>1, <2>2, <2>3 DEF RecoverCheck, TypeOK, files, budget
<1>3. CASE RollbackSkip(p)
<2>1. todo' \in [Proc -> SUBSET Garden]
  BY <1>3, <1>sets DEF RollbackSkip
<2>2. QED
  BY <1>3, <2>1 DEF RollbackSkip, TypeOK, files, budget
<1>4. CASE RollbackDrop(p)
<2>1. stage' \in [Proc -> [Garden -> Tree]]
<3>1. [stage EXCEPT ![mem[p].by][Final(todo[p])] = Missing] \in [Proc -> [Garden -> Tree]]
  BY <1>trees, <1>by, PairUpdate
<3>2. stage' \in {stage, [stage EXCEPT ![mem[p].by][Final(todo[p])] = Missing]}
  BY <1>4 DEF RollbackDrop
<3>. QED
  BY <3>1, <3>2, <1>trees
<2>2. pc' \in [Proc -> Step]
  BY <1>4, <1>steps DEF RollbackDrop, Goto, Step, RecoverSteps
<2>3. QED
  BY <1>4, <2>1, <2>2 DEF RollbackDrop, TypeOK, files, budget
<1>5. CASE RollbackPark(p)
<2>1. canonical' \in [Garden -> Tree]
  BY <1>5, <1>trees DEF RollbackPark
<2>2. stage' \in [Proc -> [Garden -> Tree]]
<3>1. [stage EXCEPT ![mem[p].by][Final(todo[p])] = canonical[Final(todo[p])]]
         \in [Proc -> [Garden -> Tree]]
  BY <1>trees, <1>by, <1>values, PairUpdate
<3>2. stage' \in {stage, [stage EXCEPT ![mem[p].by][Final(todo[p])] = canonical[Final(todo[p])]]}
  BY <1>5 DEF RollbackPark
<3>. QED
  BY <3>1, <3>2, <1>trees
<2>3. pc' \in [Proc -> Step]
  BY <1>5, <1>steps, <1>handler DEF RollbackPark, Goto, Step, RecoverSteps
<2>4. QED
  BY <1>5, <2>1, <2>2, <2>3 DEF RollbackPark, TypeOK, files, budget
<1>6. CASE RollbackPutback(p)
<2>1. canonical' \in [Garden -> Tree]
  BY <1>6, <1>trees, <1>by, <1>values DEF RollbackPutback
<2>2. backup' \in [Proc -> [Garden -> Tree]]
<3>1. [backup EXCEPT ![mem[p].by][Final(todo[p])] = Missing] \in [Proc -> [Garden -> Tree]]
  BY <1>trees, <1>by, PairUpdate
<3>2. backup' \in {backup, [backup EXCEPT ![mem[p].by][Final(todo[p])] = Missing]}
  BY <1>6 DEF RollbackPutback
<3>. QED
  BY <3>1, <3>2, <1>trees
<2>3. todo' \in [Proc -> SUBSET Garden]
  BY <1>6, <1>sets DEF RollbackPutback
<2>4. pc' \in [Proc -> Step]
  BY <1>6, <1>steps, <1>handler DEF RollbackPutback, Goto, Step, RecoverSteps
<2>5. QED
  BY <1>6, <2>1, <2>2, <2>3, <2>4 DEF RollbackPutback, TypeOK, files, budget
<1>7. CASE RecoverSettle(p)
<2>1. journal' \in [Route -> Journal]
  BY <1>7, <1>docs, <1>plan, <1>state, <1>names DEF RecoverSettle, WriteJournal
<2>2. mem' \in [Proc -> Journal]
  BY <1>7, <1>docs, <1>state, <1>names DEF RecoverSettle, WriteJournal
<2>3. todo' \in [Proc -> SUBSET Garden]
  BY <1>7, <1>sets, EntriesInGarden DEF RecoverSettle
<2>4. pc' \in [Proc -> Step]
  BY <1>7, <1>steps DEF RecoverSettle, Goto, Step, RecoverSteps
<2>5. QED
  BY <1>7, <2>1, <2>2, <2>3, <2>4 DEF RecoverSettle, TypeOK, files, budget
<1>8. CASE CleanStage(p)
<2>1. stage' \in [Proc -> [Garden -> Tree]]
<3>1. [stage EXCEPT ![mem[p].by][First(todo[p])] = Missing] \in [Proc -> [Garden -> Tree]]
  BY <1>trees, <1>by, PairUpdate
<3>2. stage' \in {stage, [stage EXCEPT ![mem[p].by][First(todo[p])] = Missing]}
  BY <1>8 DEF CleanStage
<3>. QED
  BY <3>1, <3>2, <1>trees
<2>2. pc' \in [Proc -> Step]
  BY <1>8, <1>steps DEF CleanStage, Goto, Step, RecoverSteps
<2>3. QED
  BY <1>8, <2>1, <2>2 DEF CleanStage, TypeOK, files, budget
<1>9. CASE TearBackup(p)
<2>1. backup' \in [Proc -> [Garden -> Tree]]
<3>1. [backup EXCEPT ![mem[p].by][First(todo[p])] = {Torn}] \in [Proc -> [Garden -> Tree]]
  BY <1>trees, <1>by, PairUpdate
<3>2. backup' \in {backup, [backup EXCEPT ![mem[p].by][First(todo[p])] = {Torn}]}
  BY <1>9 DEF TearBackup
<3>. QED
  BY <3>1, <3>2, <1>trees
<2>2. QED
  BY <1>9, <2>1 DEF TearBackup, TypeOK, invocation, budget
<1>10. CASE CleanBackup(p)
<2>1. backup' \in [Proc -> [Garden -> Tree]]
<3>1. [backup EXCEPT ![mem[p].by][First(todo[p])] = Missing] \in [Proc -> [Garden -> Tree]]
  BY <1>trees, <1>by, PairUpdate
<3>2. backup' \in {backup, [backup EXCEPT ![mem[p].by][First(todo[p])] = Missing]}
  BY <1>10 DEF CleanBackup
<3>. QED
  BY <3>1, <3>2, <1>trees
<2>2. pc' \in [Proc -> Step]
  BY <1>10, <1>steps DEF CleanBackup, Goto, Step, RecoverSteps
<2>3. QED
  BY <1>10, <2>1, <2>2 DEF CleanBackup, TypeOK, files, budget
<1>11. CASE CleanLock(p)
<2>1. lock' \in [Garden -> Plan \cup {Free, Blank}]
  BY <1>11, <1>locks DEF CleanLock
<2>2. todo' \in [Proc -> SUBSET Garden]
  BY <1>11, <1>sets DEF CleanLock
<2>3. pc' \in [Proc -> Step]
  BY <1>11, <1>steps DEF CleanLock, Goto, Step, RecoverSteps
<2>4. QED
  BY <1>11, <2>1, <2>2, <2>3 DEF CleanLock, TypeOK, files, budget
<1>12. CASE RecoverEnd(p)
<2>1. journal' \in [Route -> Journal]
  BY <1>12, <1>docs, NoJournalType DEF RecoverEnd
<2>2. ret' \in [Proc -> {"none", "applied", "unchanged"}]
  BY <1>12, <1>tags DEF RecoverEnd
<2>3. mem' \in [Proc -> Journal]
  BY <1>12, <1>docs, NoJournalType DEF RecoverEnd
<2>4. pc' \in [Proc -> Step]
  BY <1>12, <1>steps, <1>handler DEF RecoverEnd, Goto, Step, RecoverSteps
<2>5. QED
  BY <1>12, <2>1, <2>2, <2>3, <2>4 DEF RecoverEnd, TypeOK, files, budget
<1>. QED
  BY <1>1, <1>2, <1>3, <1>4, <1>5, <1>6, <1>7, <1>8, <1>9, <1>10, <1>11, <1>12
     DEF RecoverStep

\* The environment's steps keep the types.
LEMMA TypeEnvironment ==
    ASSUME TypeOK, NEW p \in Proc,
           Crash(p) \/ Fault(p) \/ LockFault(p) \/ OwnerEdit \/ Rebind
    PROVE  TypeOK'
<1>steps. pc \in [Proc -> Step] /\ ctx \in [Proc -> {"commit", "except", "cli"}]
  BY DEF TypeOK
<1>trees. /\ canonical \in [Garden -> Tree]
          /\ \A t \in Tree, d \in Plan \cup Edit : t \cup {d} \in Tree
  BY TreeFacts DEF TypeOK
<1>rest. /\ lock \in [Garden -> Plan \cup {Free, Blank}]
         /\ held \in [Proc -> SUBSET Garden]
         /\ bindings \in Nat /\ crashes \in Nat /\ faults \in Nat /\ edits \subseteq Edit
  BY DEF TypeOK
<1>1. CASE Crash(p)
<2>1. pc' \in [Proc -> Step]
  BY <1>1, <1>steps DEF Crash, Goto, Step
<2>2. held' \in [Proc -> SUBSET Garden] /\ crashes' \in Nat
  BY <1>1, <1>rest DEF Crash
<2>. QED
  BY <1>1, <2>1, <2>2 DEF Crash, TypeOK, files
<1>2. CASE Fault(p)
<2>1. RecoverHandler(p) \in Step
  BY <1>steps DEF RecoverHandler, Step
<2>2. pc[p] \in ApplySteps \cup RecoverSteps \cup {"except", "finally", "release"}
      \/ pc[p] \in ChangeSteps
  BY <1>2, <1>steps DEF Fault, Live, Step
<2>3. Handler(p) \in Step
  BY <2>1, <2>2 DEF Handler, ChangeHandler, GroupHandler, Step, ChangeSteps
<2>4. pc' \in [Proc -> Step]
  BY <1>2, <1>steps, <2>3 DEF Fault, Goto
<2>5. faults' \in Nat
  BY <1>2, <1>rest DEF Fault
<2>. QED
  BY <1>2, <2>4, <2>5 DEF Fault, TypeOK, files
<1>3. CASE LockFault(p)
<2>1. pc' \in [Proc -> Step]
  BY <1>3, <1>steps DEF LockFault, Goto, Step
<2>2. lock' \in [Garden -> Plan \cup {Free, Blank}]
  BY <1>3, <1>rest DEF LockFault
<2>3. faults' \in Nat
  BY <1>3, <1>rest DEF LockFault
<2>. QED
  BY <1>3, <2>1, <2>2, <2>3 DEF LockFault, TypeOK
<1>4. CASE OwnerEdit
<2>1. canonical' \in [Garden -> Tree] /\ edits' \subseteq Edit
  BY <1>4, <1>trees, <1>rest DEF OwnerEdit
<2>. QED
  BY <1>4, <2>1 DEF OwnerEdit, TypeOK, invocation
<1>5. CASE Rebind
<2>1. bindings' \in Nat
  BY <1>5, <1>rest DEF Rebind
<2>. QED
  BY <1>5, <2>1 DEF Rebind, TypeOK, invocation, budget
<1>. QED  BY <1>1, <1>2, <1>3, <1>4, <1>5

-----------------------------------------------------------------------------
(***************************************************************************)
(* Where an invocation goes next.                                          *)
(***************************************************************************)
\* p, and no other invocation, moves to a step of S.
MovesTo(p, S) == \E step \in S : pc' = [pc EXCEPT ![p] = step]

\* Only an invocation with locks left to take goes on to take one.
KeepsLooping(p) ==
    /\ \A q \in Proc \ {p} : todo'[q] = todo[q]
    /\ pc'[p] = "lock" => todo'[p] # {}

\* A single-garden apply stays within its own steps.
LEMMA ChangeMoves ==
    ASSUME TypeOK, NEW p \in Proc, ChangeStep(p)
    PROVE  /\ MovesTo(p, ChangeSteps \cup {"done"})
           /\ ctx' = ctx /\ todo' = todo
<1>. USE DEF Goto, MovesTo, ChangeSteps
<1>1. CASE ChangeLock(p)
  BY <1>1 DEF ChangeLock
<1>2. CASE ChangeVerify(p)
  BY <1>2 DEF ChangeVerify
<1>3. CASE ChangeBlob(p)
  BY <1>3 DEF ChangeBlob
<1>4. CASE ChangeStage(p)
  BY <1>4 DEF ChangeStage
<1>5. CASE ChangeRecheck(p)
  BY <1>5 DEF ChangeRecheck
<1>6. CASE ChangeJournal(p)
  BY <1>6 DEF ChangeJournal
<1>7. CASE ChangeRetire(p)
  BY <1>7 DEF ChangeRetire
<1>8. CASE ChangeSelect(p)
  BY <1>8 DEF ChangeSelect
<1>9. CASE ChangeUndo(p)
  BY <1>9 DEF ChangeUndo
<1>10. CASE ChangeFinally(p)
  BY <1>10 DEF ChangeFinally
<1>11. CASE ChangeRelease(p)
  BY <1>11 DEF ChangeRelease
<1>. QED
  BY <1>1, <1>2, <1>3, <1>4, <1>5, <1>6, <1>7, <1>8, <1>9, <1>10, <1>11 DEF ChangeStep

\* A routing apply moves between its own steps, and calls recovery.
LEMMA RouteMoves ==
    ASSUME TypeOK, NEW p \in Proc, Kind[p] = "route", pc[p] = "lock" => todo[p] # {},
           RouteStep(p)
    PROVE  /\ MovesTo(p, ApplySteps \cup {"except", "finally", "release", "check", "done"})
           /\ \A q \in Proc \ {p} : ctx'[q] = ctx[q]
           /\ KeepsLooping(p)
<1>types. pc \in [Proc -> Step] /\ todo \in [Proc -> SUBSET Garden]
             /\ ctx \in [Proc -> {"commit", "except", "cli"}]
  BY DEF TypeOK
<1>targets. Targets[PlanOf[p]] # {}
  BY PlanKinds, StoreAssumption
<1>. USE DEF Goto, MovesTo, KeepsLooping, ApplySteps
<1>1. CASE RouteBegin(p)
  BY <1>1, <1>types, <1>targets DEF RouteBegin
<1>2. CASE RouteLock(p)
  BY <1>2, <1>types DEF RouteLock
<1>3. CASE RouteVerify(p)
  BY <1>3, <1>types DEF RouteVerify
<1>4. CASE RouteCopy(p)
  BY <1>4, <1>types DEF RouteCopy
<1>5. CASE RouteRecord(p)
  BY <1>5, <1>types DEF RouteRecord
<1>6. CASE RouteValidate(p)
  BY <1>6, <1>types DEF RouteValidate
<1>7. CASE RouteReverify(p)
  BY <1>7, <1>types DEF RouteReverify
<1>8. CASE RoutePrepare(p)
  BY <1>8, <1>types DEF RoutePrepare
<1>9. CASE RouteSelecting(p)
  BY <1>9, <1>types DEF RouteSelecting
<1>10. CASE RouteRetire(p)
  BY <1>10, <1>types DEF RouteRetire
<1>11. CASE RouteSelect(p)
  BY <1>11, <1>types DEF RouteSelect
<1>12. CASE RouteCommit(p)
  BY <1>12, <1>types DEF RouteCommit
<1>13. CASE RouteExcept(p)
  BY <1>13, <1>types DEF RouteExcept
<1>14. CASE RouteFinally(p)
  BY <1>14, <1>types DEF RouteFinally
<1>15. CASE RouteRelease(p)
  BY <1>15, <1>types DEF RouteRelease
<1>. QED
  BY <1>1, <1>2, <1>3, <1>4, <1>5, <1>6, <1>7, <1>8, <1>9, <1>10, <1>11, <1>12, <1>13,
     <1>14, <1>15
     DEF RouteStep

\* Recovery moves between its own steps, and returns to the apply that called it.
LEMMA RecoverMoves ==
    ASSUME TypeOK, NEW p \in Proc, RecoverStep(p)
    PROVE  /\ MovesTo(p, RecoverSteps \cup {"idle"} \cup
                         (IF ctx[p] = "cli" THEN {} ELSE {"except", "finally"}))
           /\ ctx' \in {ctx, [ctx EXCEPT ![p] = "cli"]}
           /\ KeepsLooping(p)
<1>types. pc \in [Proc -> Step] /\ todo \in [Proc -> SUBSET Garden]
             /\ ctx \in [Proc -> {"commit", "except", "cli"}]
  BY DEF TypeOK
<1>. USE DEF Goto, MovesTo, KeepsLooping, RecoverSteps, RecoverHandler
<1>1. CASE RecoverBegin(p)
  BY <1>1, <1>types DEF RecoverBegin
<1>2. CASE RecoverCheck(p)
  BY <1>2, <1>types DEF RecoverCheck
<1>3. CASE RollbackSkip(p)
  BY <1>3, <1>types DEF RollbackSkip
<1>4. CASE RollbackDrop(p)
  BY <1>4, <1>types DEF RollbackDrop
<1>5. CASE RollbackPark(p)
  BY <1>5, <1>types DEF RollbackPark
<1>6. CASE RollbackPutback(p)
  BY <1>6, <1>types DEF RollbackPutback
<1>7. CASE RecoverSettle(p)
  BY <1>7, <1>types DEF RecoverSettle
<1>8. CASE CleanStage(p)
  BY <1>8, <1>types DEF CleanStage
<1>9. CASE TearBackup(p)
  BY <1>9, <1>types DEF TearBackup, invocation
<1>10. CASE CleanBackup(p)
  BY <1>10, <1>types DEF CleanBackup
<1>11. CASE CleanLock(p)
  BY <1>11, <1>types DEF CleanLock
<1>12. CASE RecoverEnd(p)
  BY <1>12, <1>types DEF RecoverEnd
<1>. QED
  BY <1>1, <1>2, <1>3, <1>4, <1>5, <1>6, <1>7, <1>8, <1>9, <1>10, <1>11, <1>12
     DEF RecoverStep

\* Which invocation takes a step follows from where it is.
LEMMA StepKinds ==
    ASSUME Roles, NEW p \in Proc
    PROVE  /\ ChangeStep(p) => Kind[p] = "change"
           /\ RouteStep(p) => Kind[p] = "route"
           /\ RecoverStep(p) => Kind[p] # "change"
<1>1. ChangeStep(p) => Kind[p] = "change"
  BY DEF Roles, ChangeSteps, ChangeStep, ChangeLock, ChangeVerify, ChangeBlob, ChangeStage,
         ChangeRecheck, ChangeJournal, ChangeRetire, ChangeSelect, ChangeUndo, ChangeFinally,
         ChangeRelease
<1>2. RouteStep(p) => Kind[p] = "route"
  BY DEF Roles, ApplySteps, RouteStep, RouteBegin, RouteLock, RouteVerify, RouteCopy,
         RouteRecord, RouteValidate, RouteReverify, RoutePrepare, RouteSelecting, RouteRetire,
         RouteSelect, RouteCommit, RouteExcept, RouteFinally, RouteRelease
<1>3. RecoverStep(p) => Kind[p] # "change"
  BY DEF Roles, RecoverSteps, RecoverStep, RecoverBegin, RecoverCheck, RollbackSkip,
         RollbackDrop, RollbackPark, RollbackPutback, RecoverSettle, CleanStage, TearBackup,
         CleanBackup, CleanLock, RecoverEnd
<1>. QED  BY <1>1, <1>2, <1>3

\* Every step of the system keeps the types.
LEMMA TypeNext ==
    ASSUME TypeInv, [Next]_vars
    PROVE  TypeOK'
<1>1. ASSUME NEW p \in Proc, Work(p) PROVE TypeOK'
<2>1. CASE ChangeStep(p)
  BY <2>1, StepKinds, TypeChange DEF TypeInv
<2>2. CASE RouteStep(p)
  BY <2>2, StepKinds, TypeRoute DEF TypeInv, Looping
<2>3. CASE RecoverStep(p)
  BY <2>3, StepKinds, TypeRecover DEF TypeInv
<2>. QED  BY <1>1, <2>1, <2>2, <2>3 DEF Work
<1>2. ASSUME NEW p \in Proc, Crash(p) \/ Fault(p) \/ LockFault(p) PROVE TypeOK'
  BY <1>2, TypeEnvironment DEF TypeInv
<1>3. CASE OwnerEdit \/ Rebind
<2>1. PICK p \in Proc : TRUE
  BY StoreAssumption
<2>. QED  BY <1>3, <2>1, TypeEnvironment DEF TypeInv
<1>4. CASE UNCHANGED vars
  BY <1>4 DEF TypeInv, TypeOK, vars, files, invocation, budget
<1>. QED  BY <1>1, <1>2, <1>3, <1>4 DEF Next

\* Every step keeps the roles of the invocations, and their loops.
LEMMA RolesNext ==
    ASSUME TypeInv, [Next]_vars
    PROVE  Roles' /\ Looping'
<1>types. /\ pc \in [Proc -> Step] /\ todo \in [Proc -> SUBSET Garden]
          /\ ctx \in [Proc -> {"commit", "except", "cli"}]
          /\ Kind \in [Proc -> {"route", "change", "recover"}]
  BY StoreAssumption DEF TypeInv, TypeOK
<1>roles. Roles /\ Looping
  BY DEF TypeInv
<1>. USE DEF Roles, Looping, ChangeSteps, ApplySteps, RecoverSteps
<1>1. ASSUME NEW p \in Proc, ChangeStep(p) PROVE Roles' /\ Looping'
<2>1. Kind[p] = "change"
  BY <1>1, <1>roles, StepKinds
<2>2. PICK step \in ChangeSteps \cup {"done"} : pc' = [pc EXCEPT ![p] = step]
  BY <1>1, ChangeMoves DEF TypeInv, MovesTo
<2>3. ctx' = ctx /\ todo' = todo
  BY <1>1, ChangeMoves DEF TypeInv
<2>. QED  BY <1>types, <1>roles, <2>1, <2>2, <2>3
<1>2. ASSUME NEW p \in Proc, RouteStep(p) PROVE Roles' /\ Looping'
<2>1. Kind[p] = "route"
  BY <1>2, <1>roles, StepKinds
<2>2. PICK step \in ApplySteps \cup {"except", "finally", "release", "check", "done"} :
         pc' = [pc EXCEPT ![p] = step]
  BY <1>2, <2>1, <1>roles, RouteMoves DEF TypeInv, MovesTo
<2>3. (\A q \in Proc \ {p} : ctx'[q] = ctx[q]) /\ KeepsLooping(p)
  BY <1>2, <2>1, <1>roles, RouteMoves DEF TypeInv
<2>4. Roles'
  BY <1>types, <1>roles, <2>1, <2>2, <2>3
<2>5. Looping'
  BY <1>types, <1>roles, <2>2, <2>3 DEF KeepsLooping
<2>. QED  BY <2>4, <2>5
<1>3. ASSUME NEW p \in Proc, RecoverStep(p) PROVE Roles' /\ Looping'
<2>1. Kind[p] # "change"
  BY <1>3, <1>roles, StepKinds
<2>2. PICK step \in RecoverSteps \cup {"idle"} \cup
                    (IF ctx[p] = "cli" THEN {} ELSE {"except", "finally"}) :
         pc' = [pc EXCEPT ![p] = step]
  BY <1>3, RecoverMoves DEF TypeInv, MovesTo
<2>3. ctx' \in {ctx, [ctx EXCEPT ![p] = "cli"]} /\ KeepsLooping(p)
  BY <1>3, RecoverMoves DEF TypeInv
<2>4. Roles'
  BY <1>types, <1>roles, <2>1, <2>2, <2>3
<2>5. Looping'
  BY <1>types, <1>roles, <2>2, <2>3 DEF KeepsLooping
<2>. QED  BY <2>4, <2>5
<1>4. ASSUME NEW p \in Proc, Crash(p) PROVE Roles' /\ Looping'
  BY <1>4, <1>types, <1>roles DEF Crash, Goto
<1>5. ASSUME NEW p \in Proc, Fault(p) PROVE Roles' /\ Looping'
<2>1. pc' = [pc EXCEPT ![p] = Handler(p)] /\ ctx' = ctx /\ todo' = todo
  BY <1>5 DEF Fault, Goto
<2>2. CASE pc[p] \in ChangeSteps
  <3>1. Handler(p) \in {"cundo", "done", "cfinally"}
    BY <2>2 DEF Handler, ChangeHandler
  <3>. QED  BY <1>types, <1>roles, <2>1, <2>2, <3>1
<2>3. CASE pc[p] \in ApplySteps \cup {"except", "finally", "release"}
  <3>1. Handler(p) \in {"except", "finally", "done"}
    BY <2>3 DEF Handler, GroupHandler
  <3>. QED  BY <1>types, <1>roles, <2>1, <2>3, <3>1
<2>4. CASE pc[p] \in RecoverSteps
  <3>1. Handler(p) \in {"except", "finally", "idle"} /\ (ctx[p] = "cli" => Handler(p) = "idle")
    BY <2>4, <1>types DEF Handler, GroupHandler, RecoverHandler
  <3>. QED  BY <1>types, <1>roles, <2>1, <2>4, <3>1
<2>. QED  BY <1>5, <1>types, <2>2, <2>3, <2>4 DEF Fault, Live, Step
<1>6. ASSUME NEW p \in Proc, LockFault(p) PROVE Roles' /\ Looping'
  BY <1>6, <1>types, <1>roles DEF LockFault, Goto
<1>7. CASE OwnerEdit \/ Rebind \/ UNCHANGED vars
  BY <1>7, <1>roles DEF OwnerEdit, Rebind, vars, invocation
<1>. QED
  BY <1>1, <1>2, <1>3, <1>4, <1>5, <1>6, <1>7 DEF Next, Work

\* For any gardens, plans, invocations and budgets: all variables always have
\* the values that the files and the Python objects can have.
THEOREM TypeCorrect == Spec => []TypeOK
<1>1. TypeInv /\ [Next]_vars => TypeInv'
  BY TypeNext, RolesNext DEF TypeInv
<1>2. TypeInv => TypeOK
  BY DEF TypeInv
<1>. QED  BY TypeInit, <1>1, <1>2, PTL DEF Spec

----------------------------------------------------------------------------
(***************************************************************************)
(* Blobs are stored before the records that refer to them.                 *)
(* BlobsBeforeRecords is not inductive: a tree becomes the one in place by *)
(* being renamed, so it must have been complete as a stage or a backup,    *)
(* and a stage is only made once the blobs of its plan are in the vault.   *)
(***************************************************************************)

\* The change plans with records in tree t have their blobs in the vault.
Backed(t) == t \cap Change \subseteq vault

BackedTrees ==
    /\ \A g \in Garden : Backed(canonical[g])
    /\ \A q \in Proc, g \in Garden : Backed(stage[q][g])
    /\ \A q \in Proc, g \in Garden : Backed(backup[q][g])

BlobFirst == \A p \in Proc : pc[p] = "cstage" => PlanOf[p] \in vault

BlobInv == TypeInv /\ BackedTrees /\ BlobFirst

\* Replacing a stage or a backup by a tree whose blobs are stored.
LEMMA BackedPair ==
    ASSUME NEW f \in [Proc -> [Garden -> Tree]], \A q \in Proc, h \in Garden : Backed(f[q][h]),
           NEW p \in Proc, NEW g, NEW t, g \in Garden => Backed(t)
    PROVE  \A q \in Proc, h \in Garden : Backed([f EXCEPT ![p][g] = t][q][h])
  BY DEF Backed

\* Replacing the tree in place by one whose blobs are stored.
LEMMA BackedTree ==
    ASSUME NEW f \in [Garden -> Tree], \A h \in Garden : Backed(f[h]),
           NEW g, NEW t, g \in Garden => Backed(t)
    PROVE  \A h \in Garden : Backed([f EXCEPT ![g] = t][h])
  BY DEF Backed

\* Trees that need no blob, or none but the ones they needed before.
LEMMA BackedFacts ==
    /\ Backed(Missing) /\ Backed({Torn})
    /\ \A t, d : Backed(t) /\ (d \in Change => d \in vault) => Backed(t \cup {d})
<1>1. Torn \notin Change
  BY StoreAssumption DEF Plan
<1>. QED  BY <1>1 DEF Backed, Missing

\* Steps of a single-garden apply: the stage is made after the blobs are stored.
LEMMA BackedChange ==
    ASSUME BlobInv, NEW p \in Proc, Kind[p] = "change", ChangeStep(p)
    PROVE  BackedTrees'
<1>types. /\ canonical \in [Garden -> Tree] /\ stage \in [Proc -> [Garden -> Tree]]
          /\ backup \in [Proc -> [Garden -> Tree]] /\ mem \in [Proc -> Journal]
  BY DEF BlobInv, TypeInv, TypeOK
<1>backed. /\ \A g \in Garden : Backed(canonical[g])
           /\ \A q \in Proc, g \in Garden : Backed(stage[q][g])
           /\ \A q \in Proc, g \in Garden : Backed(backup[q][g])
  BY DEF BlobInv, BackedTrees
<1>home. Home(p) \in Garden
  BY HomeInGarden
<1>blob. pc[p] = "cstage" => PlanOf[p] \in vault
  BY DEF BlobInv, BlobFirst
<1>0. ASSUME UNCHANGED <<canonical, stage, backup>>, vault \subseteq vault' PROVE BackedTrees'
  BY <1>0, <1>backed DEF BackedTrees, Backed
<1>1. CASE ChangeStage(p)
<2>0. Backed(canonical[Home(p)] \cup {PlanOf[p]})
  BY <1>1, <1>home, <1>blob, <1>backed, BackedFacts DEF ChangeStage
<2>1. \A q \in Proc, g \in Garden :
         Backed([stage EXCEPT ![p][Home(p)] = canonical[Home(p)] \cup {PlanOf[p]}][q][g])
  BY <2>0, <1>types, <1>backed, BackedPair
<2>2. stage' \in {stage, [stage EXCEPT ![p][Home(p)] = canonical[Home(p)] \cup {PlanOf[p]}]}
  BY <1>1 DEF ChangeStage
<2>3. vault' = vault /\ canonical' = canonical /\ backup' = backup
  BY <1>1 DEF ChangeStage
<2>4. \A q \in Proc, g \in Garden : Backed(stage'[q][g])
  BY <1>backed, <2>1, <2>2
<2>. QED
  BY <1>backed, <2>3, <2>4 DEF BackedTrees, Backed
<1>2. CASE ChangeRetire(p)
<2>1. \A g \in Garden : Backed([canonical EXCEPT ![Home(p)] = Missing][g])
  BY BackedFacts, <1>types, <1>backed, BackedTree
<2>2. \A q \in Proc, g \in Garden : Backed([backup EXCEPT ![p][Home(p)] = canonical[Home(p)]][q][g])
  BY <1>home, <1>types, <1>backed, BackedPair
<2>3. canonical' \in {canonical, [canonical EXCEPT ![Home(p)] = Missing]}
  BY <1>2 DEF ChangeRetire
<2>4. backup' \in {backup, [backup EXCEPT ![p][Home(p)] = canonical[Home(p)]]}
  BY <1>2 DEF ChangeRetire
<2>5. vault' = vault /\ stage' = stage
  BY <1>2 DEF ChangeRetire
<2>6. \A g \in Garden : Backed(canonical'[g])
  BY <1>backed, <2>1, <2>3
<2>7. \A q \in Proc, g \in Garden : Backed(backup'[q][g])
  BY <1>backed, <2>2, <2>4
<2>. QED
  BY <1>backed, <2>5, <2>6, <2>7 DEF BackedTrees, Backed
<1>3. CASE ChangeSelect(p)
<2>1. \A g \in Garden : Backed([canonical EXCEPT ![Home(p)] = stage[p][Home(p)]][g])
  BY <1>home, <1>types, <1>backed, BackedTree
<2>2. \A q \in Proc, g \in Garden : Backed([stage EXCEPT ![p][Home(p)] = Missing][q][g])
  BY BackedFacts, <1>types, <1>backed, BackedPair
<2>3. canonical' \in {canonical, [canonical EXCEPT ![Home(p)] = stage[p][Home(p)]]}
  BY <1>3 DEF ChangeSelect
<2>4. stage' \in {stage, [stage EXCEPT ![p][Home(p)] = Missing]}
  BY <1>3 DEF ChangeSelect
<2>5. vault' = vault /\ backup' = backup
  BY <1>3 DEF ChangeSelect
<2>6. \A g \in Garden : Backed(canonical'[g])
  BY <1>backed, <2>1, <2>3
<2>7. \A q \in Proc, g \in Garden : Backed(stage'[q][g])
  BY <1>backed, <2>2, <2>4
<2>. QED
  BY <1>backed, <2>5, <2>6, <2>7 DEF BackedTrees, Backed
<1>4. CASE ChangeUndo(p)
<2>1. \A g \in Garden : Backed([canonical EXCEPT ![Home(p)] = backup[p][Home(p)]][g])
  BY <1>home, <1>types, <1>backed, BackedTree
<2>2. \A q \in Proc, g \in Garden : Backed([backup EXCEPT ![p][Home(p)] = Missing][q][g])
  BY BackedFacts, <1>types, <1>backed, BackedPair
<2>3. canonical' \in {canonical, [canonical EXCEPT ![Home(p)] = backup[p][Home(p)]]}
  BY <1>4 DEF ChangeUndo
<2>4. backup' \in {backup, [backup EXCEPT ![p][Home(p)] = Missing]}
  BY <1>4 DEF ChangeUndo
<2>5. vault' = vault /\ stage' = stage
  BY <1>4 DEF ChangeUndo
<2>6. \A g \in Garden : Backed(canonical'[g])
  BY <1>backed, <2>1, <2>3
<2>7. \A q \in Proc, g \in Garden : Backed(backup'[q][g])
  BY <1>backed, <2>2, <2>4
<2>. QED
  BY <1>backed, <2>5, <2>6, <2>7 DEF BackedTrees, Backed
<1>5. CASE ChangeFinally(p)
<2>1. \A q \in Proc, g \in Garden : Backed([stage EXCEPT ![p][Home(p)] = Missing][q][g])
  BY BackedFacts, <1>types, <1>backed, BackedPair
<2>2. \A q \in Proc, g \in Garden : Backed([backup EXCEPT ![p][Home(p)] = Missing][q][g])
  BY BackedFacts, <1>types, <1>backed, BackedPair
<2>3. stage' \in {stage, [stage EXCEPT ![p][Home(p)] = Missing]}
  BY <1>5 DEF ChangeFinally
<2>4. backup' \in {backup, [backup EXCEPT ![p][Home(p)] = Missing]}
  BY <1>5 DEF ChangeFinally
<2>5. vault' = vault /\ canonical' = canonical
  BY <1>5 DEF ChangeFinally
<2>6. \A q \in Proc, g \in Garden : Backed(stage'[q][g])
  BY <1>backed, <2>1, <2>3
<2>7. \A q \in Proc, g \in Garden : Backed(backup'[q][g])
  BY <1>backed, <2>2, <2>4
<2>. QED
  BY <1>backed, <2>5, <2>6, <2>7 DEF BackedTrees, Backed
<1>6. CASE ChangeLock(p) \/ ChangeVerify(p) \/ ChangeBlob(p) \/ ChangeRecheck(p) \/
           ChangeJournal(p) \/ ChangeRelease(p)
  BY <1>6, <1>0
     DEF ChangeLock, ChangeVerify, ChangeBlob, ChangeRecheck, ChangeJournal,
         ChangeRelease, files, budget
<1>. QED
  BY <1>1, <1>2, <1>3, <1>4, <1>5, <1>6 DEF ChangeStep

\* Steps of a routing apply add only the records of a routing plan.
LEMMA BackedRoute ==
    ASSUME BlobInv, NEW p \in Proc, Kind[p] = "route", RouteStep(p)
    PROVE  BackedTrees'
<1>types. /\ canonical \in [Garden -> Tree] /\ stage \in [Proc -> [Garden -> Tree]]
          /\ backup \in [Proc -> [Garden -> Tree]] /\ mem \in [Proc -> Journal]
  BY DEF BlobInv, TypeInv, TypeOK
<1>backed. /\ \A g \in Garden : Backed(canonical[g])
           /\ \A q \in Proc, g \in Garden : Backed(stage[q][g])
           /\ \A q \in Proc, g \in Garden : Backed(backup[q][g])
  BY DEF BlobInv, BackedTrees
<1>plan. PlanOf[p] \notin Change
  BY PlanKinds, StoreAssumption
<1>0. ASSUME UNCHANGED <<canonical, stage, backup>>, vault \subseteq vault' PROVE BackedTrees'
  BY <1>0, <1>backed DEF BackedTrees, Backed
<1>1. CASE RouteCopy(p)
<2>1. \A q \in Proc, g \in Garden :
         Backed([stage EXCEPT ![p][First(todo[p])] = canonical[First(todo[p])] \cup {PlanOf[p]}][q][g])
  BY <1>plan, BackedFacts, <1>types, <1>backed, BackedPair
<2>2. stage' \in {stage,
         [stage EXCEPT ![p][First(todo[p])] = canonical[First(todo[p])] \cup {PlanOf[p]}]}
  BY <1>1 DEF RouteCopy
<2>3. vault' = vault /\ canonical' = canonical /\ backup' = backup
  BY <1>1 DEF RouteCopy
<2>4. \A q \in Proc, g \in Garden : Backed(stage'[q][g])
  BY <1>backed, <2>1, <2>2
<2>. QED
  BY <1>backed, <2>3, <2>4 DEF BackedTrees, Backed
<1>2. CASE RouteRetire(p)
<2>1. \A g \in Garden : Backed([canonical EXCEPT ![First(todo[p])] = Missing][g])
  BY BackedFacts, <1>types, <1>backed, BackedTree
<2>2. \A q \in Proc, g \in Garden :
         Backed([backup EXCEPT ![p][First(todo[p])] = canonical[First(todo[p])]][q][g])
  BY <1>types, <1>backed, BackedPair
<2>3. canonical' \in {canonical, [canonical EXCEPT ![First(todo[p])] = Missing]}
  BY <1>2 DEF RouteRetire
<2>4. backup' \in {backup, [backup EXCEPT ![p][First(todo[p])] = canonical[First(todo[p])]]}
  BY <1>2 DEF RouteRetire
<2>5. vault' = vault /\ stage' = stage
  BY <1>2 DEF RouteRetire
<2>6. \A g \in Garden : Backed(canonical'[g])
  BY <1>backed, <2>1, <2>3
<2>7. \A q \in Proc, g \in Garden : Backed(backup'[q][g])
  BY <1>backed, <2>2, <2>4
<2>. QED
  BY <1>backed, <2>5, <2>6, <2>7 DEF BackedTrees, Backed
<1>3. CASE RouteSelect(p)
<2>1. \A g \in Garden : Backed([canonical EXCEPT ![First(todo[p])] = stage[p][First(todo[p])]][g])
  BY <1>types, <1>backed, BackedTree
<2>2. \A q \in Proc, g \in Garden : Backed([stage EXCEPT ![p][First(todo[p])] = Missing][q][g])
  BY BackedFacts, <1>types, <1>backed, BackedPair
<2>3. canonical' \in {canonical, [canonical EXCEPT ![First(todo[p])] = stage[p][First(todo[p])]]}
  BY <1>3 DEF RouteSelect
<2>4. stage' \in {stage, [stage EXCEPT ![p][First(todo[p])] = Missing]}
  BY <1>3 DEF RouteSelect
<2>5. vault' = vault /\ backup' = backup
  BY <1>3 DEF RouteSelect
<2>6. \A g \in Garden : Backed(canonical'[g])
  BY <1>backed, <2>1, <2>3
<2>7. \A q \in Proc, g \in Garden : Backed(stage'[q][g])
  BY <1>backed, <2>2, <2>4
<2>. QED
  BY <1>backed, <2>5, <2>6, <2>7 DEF BackedTrees, Backed
<1>4. CASE RouteFinally(p)
<2>1. \A q \in Proc, g \in Garden : Backed([stage EXCEPT ![p] = [h \in Garden |-> Missing]][q][g])
  BY BackedFacts, <1>types, <1>backed, BackedPair
<2>2. stage' \in {stage, [stage EXCEPT ![p] = [h \in Garden |-> Missing]]}
  BY <1>4 DEF RouteFinally
<2>3. vault' = vault /\ canonical' = canonical /\ backup' = backup
  BY <1>4 DEF RouteFinally
<2>4. \A q \in Proc, g \in Garden : Backed(stage'[q][g])
  BY <1>backed, <2>1, <2>2
<2>. QED
  BY <1>backed, <2>3, <2>4 DEF BackedTrees, Backed
<1>5. CASE RouteBegin(p) \/ RouteLock(p) \/ RouteVerify(p) \/ RouteRecord(p) \/
           RouteValidate(p) \/ RouteReverify(p) \/ RoutePrepare(p) \/ RouteSelecting(p)
           \/ RouteCommit(p) \/ RouteExcept(p) \/ RouteRelease(p)
  BY <1>5, <1>0
     DEF RouteBegin, RouteLock, RouteVerify, RouteRecord, RouteValidate, RouteReverify,
         RoutePrepare, RouteSelecting, RouteCommit, RouteExcept, RouteRelease,
         WriteJournal, files, budget
<1>. QED
  BY <1>1, <1>2, <1>3, <1>4, <1>5 DEF RouteStep

\* Recovery only moves and removes trees.
LEMMA BackedRecover ==
    ASSUME BlobInv, NEW p \in Proc, RecoverStep(p)
    PROVE  BackedTrees'
<1>types. /\ canonical \in [Garden -> Tree] /\ stage \in [Proc -> [Garden -> Tree]]
          /\ backup \in [Proc -> [Garden -> Tree]] /\ mem \in [Proc -> Journal]
  BY DEF BlobInv, TypeInv, TypeOK
<1>backed. /\ \A g \in Garden : Backed(canonical[g])
           /\ \A q \in Proc, g \in Garden : Backed(stage[q][g])
           /\ \A q \in Proc, g \in Garden : Backed(backup[q][g])
  BY DEF BlobInv, BackedTrees
<1>by. mem[p].by \in Proc
  BY <1>types DEF Journal
<1>0. ASSUME UNCHANGED <<canonical, stage, backup>>, vault \subseteq vault' PROVE BackedTrees'
  BY <1>0, <1>backed DEF BackedTrees, Backed
<1>1. CASE RollbackDrop(p)
<2>1. \A q \in Proc, g \in Garden : Backed([stage EXCEPT ![mem[p].by][Final(todo[p])] = Missing][q][g])
  BY <1>by, BackedFacts, <1>types, <1>backed, BackedPair
<2>2. stage' \in {stage, [stage EXCEPT ![mem[p].by][Final(todo[p])] = Missing]}
  BY <1>1 DEF RollbackDrop
<2>3. vault' = vault /\ canonical' = canonical /\ backup' = backup
  BY <1>1 DEF RollbackDrop
<2>4. \A q \in Proc, g \in Garden : Backed(stage'[q][g])
  BY <1>backed, <2>1, <2>2
<2>. QED
  BY <1>backed, <2>3, <2>4 DEF BackedTrees, Backed
<1>2. CASE RollbackPark(p)
<2>1. \A g \in Garden : Backed([canonical EXCEPT ![Final(todo[p])] = Missing][g])
  BY BackedFacts, <1>types, <1>backed, BackedTree
<2>2. \A q \in Proc, g \in Garden :
         Backed([stage EXCEPT ![mem[p].by][Final(todo[p])] = canonical[Final(todo[p])]][q][g])
  BY <1>by, <1>types, <1>backed, BackedPair
<2>3. canonical' \in {canonical, [canonical EXCEPT ![Final(todo[p])] = Missing]}
  BY <1>2 DEF RollbackPark
<2>4. stage' \in {stage, [stage EXCEPT ![mem[p].by][Final(todo[p])] = canonical[Final(todo[p])]]}
  BY <1>2 DEF RollbackPark
<2>5. vault' = vault /\ backup' = backup
  BY <1>2 DEF RollbackPark
<2>6. \A g \in Garden : Backed(canonical'[g])
  BY <1>backed, <2>1, <2>3
<2>7. \A q \in Proc, g \in Garden : Backed(stage'[q][g])
  BY <1>backed, <2>2, <2>4
<2>. QED
  BY <1>backed, <2>5, <2>6, <2>7 DEF BackedTrees, Backed
<1>3. CASE RollbackPutback(p)
<2>1. \A g \in Garden :
         Backed([canonical EXCEPT ![Final(todo[p])] = backup[mem[p].by][Final(todo[p])]][g])
  BY <1>by, <1>types, <1>backed, BackedTree
<2>2. \A q \in Proc, g \in Garden : Backed([backup EXCEPT ![mem[p].by][Final(todo[p])] = Missing][q][g])
  BY <1>by, BackedFacts, <1>types, <1>backed, BackedPair
<2>3. canonical' \in {canonical, [canonical EXCEPT ![Final(todo[p])] = backup[mem[p].by][Final(todo[p])]]}
  BY <1>3 DEF RollbackPutback
<2>4. backup' \in {backup, [backup EXCEPT ![mem[p].by][Final(todo[p])] = Missing]}
  BY <1>3 DEF RollbackPutback
<2>5. vault' = vault /\ stage' = stage
  BY <1>3 DEF RollbackPutback
<2>6. \A g \in Garden : Backed(canonical'[g])
  BY <1>backed, <2>1, <2>3
<2>7. \A q \in Proc, g \in Garden : Backed(backup'[q][g])
  BY <1>backed, <2>2, <2>4
<2>. QED
  BY <1>backed, <2>5, <2>6, <2>7 DEF BackedTrees, Backed
<1>4. CASE CleanStage(p)
<2>1. \A q \in Proc, g \in Garden : Backed([stage EXCEPT ![mem[p].by][First(todo[p])] = Missing][q][g])
  BY <1>by, BackedFacts, <1>types, <1>backed, BackedPair
<2>2. stage' \in {stage, [stage EXCEPT ![mem[p].by][First(todo[p])] = Missing]}
  BY <1>4 DEF CleanStage
<2>3. vault' = vault /\ canonical' = canonical /\ backup' = backup
  BY <1>4 DEF CleanStage
<2>4. \A q \in Proc, g \in Garden : Backed(stage'[q][g])
  BY <1>backed, <2>1, <2>2
<2>. QED
  BY <1>backed, <2>3, <2>4 DEF BackedTrees, Backed
<1>5. CASE TearBackup(p)
<2>1. \A q \in Proc, g \in Garden : Backed([backup EXCEPT ![mem[p].by][First(todo[p])] = {Torn}][q][g])
  BY <1>by, BackedFacts, <1>types, <1>backed, BackedPair
<2>2. backup' \in {backup, [backup EXCEPT ![mem[p].by][First(todo[p])] = {Torn}]}
  BY <1>5 DEF TearBackup
<2>3. vault' = vault /\ canonical' = canonical /\ stage' = stage
  BY <1>5 DEF TearBackup
<2>4. \A q \in Proc, g \in Garden : Backed(backup'[q][g])
  BY <1>backed, <2>1, <2>2
<2>. QED
  BY <1>backed, <2>3, <2>4 DEF BackedTrees, Backed
<1>6. CASE CleanBackup(p)
<2>1. \A q \in Proc, g \in Garden : Backed([backup EXCEPT ![mem[p].by][First(todo[p])] = Missing][q][g])
  BY <1>by, BackedFacts, <1>types, <1>backed, BackedPair
<2>2. backup' \in {backup, [backup EXCEPT ![mem[p].by][First(todo[p])] = Missing]}
  BY <1>6 DEF CleanBackup
<2>3. vault' = vault /\ canonical' = canonical /\ stage' = stage
  BY <1>6 DEF CleanBackup
<2>4. \A q \in Proc, g \in Garden : Backed(backup'[q][g])
  BY <1>backed, <2>1, <2>2
<2>. QED
  BY <1>backed, <2>3, <2>4 DEF BackedTrees, Backed
<1>7. CASE RecoverBegin(p) \/ RecoverCheck(p) \/ RollbackSkip(p) \/ RecoverSettle(p) \/
           CleanLock(p) \/ RecoverEnd(p)
  BY <1>7, <1>0
     DEF RecoverBegin, RecoverCheck, RollbackSkip, RecoverSettle, CleanLock, RecoverEnd,
         WriteJournal, files, budget
<1>. QED
  BY <1>1, <1>2, <1>3, <1>4, <1>5, <1>6, <1>7 DEF RecoverStep

\* Only ChangeBlob leads to the staging of a single-garden apply.
LEMMA BlobFirstNext ==
    ASSUME BlobInv, [Next]_vars
    PROVE  BlobFirst' /\ vault \subseteq vault'
<1>types. pc \in [Proc -> Step] /\ ctx \in [Proc -> {"commit", "except", "cli"}]
  BY DEF BlobInv, TypeInv, TypeOK
<1>inv. BlobFirst /\ Roles /\ Looping
  BY DEF BlobInv, TypeInv
<1>. USE DEF BlobFirst
<1>1. ASSUME NEW p \in Proc, ChangeStep(p) PROVE BlobFirst' /\ vault \subseteq vault'
<2>. USE <1>types, <1>inv DEF Goto
<2>1. CASE ChangeLock(p)
  BY <2>1 DEF ChangeLock, files
<2>2. CASE ChangeVerify(p)
  BY <2>2 DEF ChangeVerify, files
<2>3. CASE ChangeBlob(p)
  BY <2>3 DEF ChangeBlob, files
<2>4. CASE ChangeStage(p)
  BY <2>4 DEF ChangeStage, files
<2>5. CASE ChangeRecheck(p)
  BY <2>5 DEF ChangeRecheck, files
<2>6. CASE ChangeJournal(p)
  BY <2>6 DEF ChangeJournal, files
<2>7. CASE ChangeRetire(p)
  BY <2>7 DEF ChangeRetire, files
<2>8. CASE ChangeSelect(p)
  BY <2>8 DEF ChangeSelect, files
<2>9. CASE ChangeUndo(p)
  BY <2>9 DEF ChangeUndo, files
<2>10. CASE ChangeFinally(p)
  BY <2>10 DEF ChangeFinally, files
<2>11. CASE ChangeRelease(p)
  BY <2>11 DEF ChangeRelease, files
<2>. QED
  BY <1>1, <2>1, <2>2, <2>3, <2>4, <2>5, <2>6, <2>7, <2>8, <2>9, <2>10, <2>11 DEF ChangeStep
<1>2. ASSUME NEW p \in Proc, RouteStep(p) PROVE BlobFirst' /\ vault \subseteq vault'
<2>1. PICK step \in ApplySteps \cup {"except", "finally", "release", "check", "done"} :
         pc' = [pc EXCEPT ![p] = step]
  BY <1>2, <1>inv, StepKinds, RouteMoves DEF BlobInv, TypeInv, Looping, MovesTo
<2>2. vault' = vault
  BY <1>2 DEF RouteStep, RouteBegin, RouteLock, RouteVerify, RouteCopy, RouteRecord,
     RouteValidate, RouteReverify, RoutePrepare, RouteSelecting, RouteRetire, RouteSelect,
     RouteCommit, RouteExcept, RouteFinally, RouteRelease, files
<2>. QED  BY <1>types, <1>inv, <2>1, <2>2 DEF ApplySteps
<1>3. ASSUME NEW p \in Proc, RecoverStep(p) PROVE BlobFirst' /\ vault \subseteq vault'
<2>1. PICK step \in RecoverSteps \cup {"idle"} \cup
                    (IF ctx[p] = "cli" THEN {} ELSE {"except", "finally"}) :
         pc' = [pc EXCEPT ![p] = step]
  BY <1>3, RecoverMoves DEF BlobInv, TypeInv, MovesTo
<2>2. vault' = vault
  BY <1>3 DEF RecoverStep, RecoverBegin, RecoverCheck, RollbackSkip, RollbackDrop,
     RollbackPark, RollbackPutback, RecoverSettle, CleanStage, TearBackup, CleanBackup,
     CleanLock, RecoverEnd, files
<2>. QED  BY <1>types, <1>inv, <2>1, <2>2 DEF RecoverSteps
<1>4. ASSUME NEW p \in Proc, Crash(p) \/ Fault(p) \/ LockFault(p)
      PROVE  BlobFirst' /\ vault \subseteq vault'
<2>1. vault' = vault
  BY <1>4 DEF Crash, Fault, LockFault, files
<2>2. CASE Crash(p)
  BY <2>1, <2>2, <1>types, <1>inv DEF Crash, Goto
<2>3. CASE Fault(p)
  <3>1. Handler(p) # "cstage"
    BY <2>3, <1>types DEF Fault, Live, Handler, ChangeHandler, GroupHandler, RecoverHandler,
       Step, ApplySteps, RecoverSteps
  <3>. QED  BY <2>1, <2>3, <3>1, <1>types, <1>inv DEF Fault, Goto
<2>4. CASE LockFault(p)
  BY <2>1, <2>4, <1>types, <1>inv DEF LockFault, Goto
<2>. QED  BY <1>4, <2>2, <2>3, <2>4
<1>5. CASE OwnerEdit \/ Rebind \/ UNCHANGED vars
  BY <1>5, <1>inv DEF OwnerEdit, Rebind, vars, invocation, files
<1>. QED  BY <1>1, <1>2, <1>3, <1>4, <1>5 DEF Next, Work

\* Every step keeps the blobs of all trees stored.
LEMMA BackedNext ==
    ASSUME BlobInv, [Next]_vars
    PROVE  BackedTrees'
<1>types. canonical \in [Garden -> Tree]
  BY DEF BlobInv, TypeInv, TypeOK
<1>0. ASSUME UNCHANGED <<canonical, stage, backup, vault>> PROVE BackedTrees'
  BY <1>0 DEF BlobInv, BackedTrees, Backed
<1>1. ASSUME NEW p \in Proc, Work(p) PROVE BackedTrees'
  BY <1>1, StepKinds, BackedChange, BackedRoute, BackedRecover DEF Work, BlobInv, TypeInv
<1>2. ASSUME NEW p \in Proc, Crash(p) \/ Fault(p) \/ LockFault(p) PROVE BackedTrees'
  BY <1>2, <1>0 DEF Crash, Fault, LockFault, files
<1>3. CASE OwnerEdit
<2>1. PICK e \in Edit, g \in Garden : canonical' = [canonical EXCEPT ![g] = canonical[g] \cup {e}]
  BY <1>3 DEF OwnerEdit
<2>2. e \notin Change
  BY StoreAssumption DEF Plan
<2>3. Backed(canonical[g] \cup {e})
  BY <2>2, BackedFacts DEF BlobInv, BackedTrees
<2>4. \A h \in Garden : Backed(canonical'[h])
  BY <1>types, <2>1, <2>3, BackedTree DEF BlobInv, BackedTrees
<2>5. vault' = vault /\ stage' = stage /\ backup' = backup
  BY <1>3 DEF OwnerEdit
<2>. QED  BY <2>4, <2>5 DEF BlobInv, BackedTrees, Backed
<1>4. CASE Rebind
  BY <1>4, <1>0 DEF Rebind
<1>5. CASE UNCHANGED vars
  BY <1>5, <1>0 DEF vars, files
<1>. QED  BY <1>1, <1>2, <1>3, <1>4, <1>5 DEF Next

\* At first there are only the files that the gardens began with.
LEMMA BlobInit == Init => BlobInv
<1>. SUFFICES ASSUME Init PROVE BlobInv
  OBVIOUS
<1>1. Seed \notin Change
  BY StoreAssumption DEF Plan
<1>2. BackedTrees
  BY <1>1 DEF Init, StoreInit, BackedTrees, Backed, Missing
<1>3. BlobFirst
  BY DEF Init, StoreInit, BlobFirst
<1>. QED  BY TypeInit, <1>2, <1>3 DEF BlobInv

\* For any gardens, plans, invocations and budgets of kills, failures and edits:
\* no tree in place ever has records whose blobs the source vault does not hold
\* (ChangePlan.apply stores them first; every other step only moves trees).
THEOREM BlobsAlwaysFirst == Spec => []BlobsBeforeRecords
<1>1. BlobInv /\ [Next]_vars => BlobInv'
  BY TypeNext, RolesNext, BackedNext, BlobFirstNext DEF BlobInv, TypeInv
<1>2. BlobInv => BlobsBeforeRecords
  BY DEF BlobInv, BackedTrees, Backed, BlobsBeforeRecords
<1>. QED  BY BlobInit, <1>1, <1>2, PTL DEF Spec

-----------------------------------------------------------------------------
(***************************************************************************)
(* The write lock of ChangePlan.apply is enough when only single-garden    *)
(* plans are applied: any number of invocations, killed or failing at any  *)
(* step, with an owner who edits trees meanwhile, never hold a garden      *)
(* together and never lose a change that was reported as applied.  (With   *)
(* routing plans among them this is false: apply_group releases locks that *)
(* it no longer holds, see the run lock_released_twice.)                   *)
(***************************************************************************)
OnlyChanges == \A p \in Proc : Kind[p] = "change"

Active(p) == pc[p] \in ChangeSteps

\* An active invocation has created the lock of its garden, and is alone there.
ExclusiveAt(g) ==
    /\ \A p \in Proc : Active(p) /\ Home(p) = g => held[p] = {g} /\ lock[g] # Free
    /\ \A p, q \in Proc : Active(p) /\ Active(q) /\ Home(p) = g /\ Home(q) = g => p = q

\* Tree t has every change that was reported as applied to garden g.
Includes(t, g) == \A q \in Proc : ret[q] = "applied" /\ Home(q) = g => PlanOf[q] \in t

\* The tree of garden g survives as p's backup, and g stays locked: p is still
\* there to put it back or to replace it, or nobody will touch g again.
Displaced(p, g) ==
    /\ Home(p) = g /\ lock[g] # Free
    /\ ret[p] # "applied"
    /\ backup[p][g] # Missing /\ Includes(backup[p][g], g)
    /\ \/ pc[p] \in {"cselect", "cundo", "cfinally", "crelease"}
       \/ /\ pc[p] \in {"done", "crashed"}
          /\ \A q \in Proc : Active(q) => Home(q) # g

\* How far p has come in garden g.
Progress(p, g) ==
    /\ pc[p] \in {"crecheck", "cjournal", "cretire", "cselect"} =>
          PlanOf[p] \in stage[p][g] /\ Includes(stage[p][g], g)
    /\ pc[p] \in {"cselect", "cundo"} => canonical[g] = Missing
    /\ pc[p] \in {"idle"} \cup (ChangeSteps \ {"cfinally", "crelease"}) => ret[p] # "applied"

DurableAt(g) ==
    /\ canonical[g] # Missing => Includes(canonical[g], g)
    /\ canonical[g] = Missing => \E p \in Proc : Displaced(p, g)
    /\ \A p \in Proc : Home(p) = g => Progress(p, g)

ChangeInv == TypeInv /\ \A g \in Garden : ExclusiveAt(g) /\ DurableAt(g)

-----------------------------------------------------------------------------
(***************************************************************************)
(* A step concerns one invocation and its garden.                          *)
(***************************************************************************)
\* Nothing changes but what belongs to p and to its garden.
Frame(p) ==
    /\ \A g \in Garden \ {Home(p)} : canonical'[g] = canonical[g] /\ lock'[g] = lock[g]
    /\ \A q \in Proc \ {p} :
          /\ pc'[q] = pc[q] /\ ret'[q] = ret[q] /\ held'[q] = held[q]
          /\ stage'[q] = stage[q] /\ backup'[q] = backup[q]

\* Without routing plans there are only the steps of ChangeApply.
LEMMA OnlyChangeSteps ==
    ASSUME OnlyChanges, TypeInv, [Next]_vars
    PROVE  \/ \E p \in Proc : ChangeStep(p) \/ Crash(p) \/ (Fault(p) /\ Active(p))
           \/ OwnerEdit \/ Rebind \/ UNCHANGED vars
<1>1. ASSUME NEW p \in Proc, Work(p) PROVE ChangeStep(p)
  BY <1>1, StepKinds DEF Work, OnlyChanges, TypeInv
<1>2. ASSUME NEW p \in Proc, LockFault(p) PROVE FALSE
  BY <1>2 DEF LockFault, OnlyChanges, TypeInv, Roles, ApplySteps
<1>3. ASSUME NEW p \in Proc, Fault(p) PROVE Active(p)
  BY <1>3 DEF Fault, Live, OnlyChanges, TypeInv, TypeOK, Roles, Step, Active
<1>. QED  BY <1>1, <1>2, <1>3 DEF Next

\* Every step of an invocation stays within its frame.
LEMMA ChangeFrame ==
    ASSUME TypeOK, NEW p \in Proc, ChangeStep(p) \/ Crash(p) \/ Fault(p)
    PROVE  Frame(p)
<1>types. /\ canonical \in [Garden -> Tree] /\ lock \in [Garden -> Plan \cup {Free, Blank}]
          /\ pc \in [Proc -> Step] /\ held \in [Proc -> SUBSET Garden]
          /\ ret \in [Proc -> {"none", "applied", "unchanged"}]
          /\ stage \in [Proc -> [Garden -> Tree]] /\ backup \in [Proc -> [Garden -> Tree]]
  BY DEF TypeOK
<1>. USE <1>types DEF Frame, Goto
<1>1. CASE ChangeLock(p)
  BY <1>1 DEF ChangeLock, files
<1>2. CASE ChangeVerify(p)
  BY <1>2 DEF ChangeVerify, files
<1>3. CASE ChangeBlob(p)
  BY <1>3 DEF ChangeBlob, files
<1>4. CASE ChangeStage(p)
  BY <1>4 DEF ChangeStage, files
<1>5. CASE ChangeRecheck(p)
  BY <1>5 DEF ChangeRecheck, files
<1>6. CASE ChangeJournal(p)
  BY <1>6 DEF ChangeJournal, files
<1>7. CASE ChangeRetire(p)
  BY <1>7 DEF ChangeRetire, files
<1>8. CASE ChangeSelect(p)
  BY <1>8 DEF ChangeSelect, files
<1>9. CASE ChangeUndo(p)
  BY <1>9 DEF ChangeUndo, files
<1>10. CASE ChangeFinally(p)
  BY <1>10 DEF ChangeFinally, files
<1>11. CASE ChangeRelease(p)
  BY <1>11 DEF ChangeRelease, files
<1>12. CASE Crash(p)
  BY <1>12 DEF Crash, files
<1>13. CASE Fault(p)
  BY <1>13 DEF Fault, files
<1>. QED
  BY <1>1, <1>2, <1>3, <1>4, <1>5, <1>6, <1>7, <1>8, <1>9, <1>10, <1>11, <1>12, <1>13
     DEF ChangeStep

\* Outside p's garden everything stays as good as it was.
LEMMA OtherGardens ==
    ASSUME ChangeInv, NEW p \in Proc, Frame(p), NEW g \in Garden, g # Home(p)
    PROVE  ExclusiveAt(g)' /\ DurableAt(g)'
<1>1. \A q \in Proc : Home(q) = g =>
         /\ pc'[q] = pc[q] /\ ret'[q] = ret[q] /\ held'[q] = held[q]
         /\ stage'[q] = stage[q] /\ backup'[q] = backup[q]
  BY DEF Frame
<1>2. canonical'[g] = canonical[g] /\ lock'[g] = lock[g]
  BY DEF Frame
<1>3. ExclusiveAt(g)'
  BY <1>1, <1>2 DEF ChangeInv, ExclusiveAt, Active
<1>4. \A t : Includes(t, g)' <=> Includes(t, g)
  BY <1>1 DEF Includes
<1>5. \A q \in Proc : Displaced(q, g) => Displaced(q, g)'
  BY <1>1, <1>2, <1>4 DEF Displaced, Active
<1>6. \A q \in Proc : Home(q) = g => Progress(q, g)'
  BY <1>1, <1>2, <1>4 DEF ChangeInv, DurableAt, Progress
<1>7. DurableAt(g)'
  BY <1>2, <1>4, <1>5, <1>6 DEF ChangeInv, DurableAt
<1>. QED  BY <1>3, <1>7

-----------------------------------------------------------------------------
(***************************************************************************)
(* The garden of the invocation that takes the step.                       *)
(***************************************************************************)
\* A lock file that was created is not the absent one.
LEMMA LockNames ==
    ASSUME NEW p \in Proc
    PROVE  Blank # Free /\ PlanOf[p] # Free
<1>1. PlanOf[p] # Free
  BY PlanKinds, StoreAssumption DEF Plan
<1>. QED  BY <1>1 DEF Free, Blank

\* The active invocation is the only one, and a missing tree is its backup.
LEMMA AtHome ==
    ASSUME OnlyChanges, ChangeInv, NEW p \in Proc, Active(p)
    PROVE  /\ Home(p) \in Garden
           /\ held[p] = {Home(p)} /\ lock[Home(p)] # Free
           /\ \A q \in Proc : Active(q) /\ Home(q) = Home(p) => q = p
           /\ canonical[Home(p)] # Missing => Includes(canonical[Home(p)], Home(p))
           /\ canonical[Home(p)] = Missing => Displaced(p, Home(p))
           /\ Progress(p, Home(p))
           /\ \A q \in Proc : Home(q) = Home(p) => Progress(q, Home(p))
<1>1. Home(p) \in Garden
  BY HomeInGarden DEF OnlyChanges
<1>2. ExclusiveAt(Home(p)) /\ DurableAt(Home(p))
  BY <1>1 DEF ChangeInv
<1>3. ASSUME canonical[Home(p)] = Missing PROVE Displaced(p, Home(p))
  <2>1. PICK q \in Proc : Displaced(q, Home(p))
    BY <1>2, <1>3 DEF DurableAt
  <2>2. Active(q)
    BY <2>1 DEF Displaced, Active, ChangeSteps
  <2>3. q = p
    BY <1>2, <2>1, <2>2 DEF ExclusiveAt, Displaced
  <2>. QED  BY <2>1, <2>3
<1>. QED  BY <1>1, <1>2, <1>3 DEF ExclusiveAt, DurableAt

\* An invocation that moves on, or stops, without touching its lock stays alone.
LEMMA StillExclusive ==
    ASSUME OnlyChanges, ChangeInv, NEW p \in Proc, Active(p), Frame(p),
           NEW step, pc' = [pc EXCEPT ![p] = step],
           lock' = lock, held' = held \/ step \notin ChangeSteps
    PROVE  ExclusiveAt(Home(p))'
<1>1. pc \in [Proc -> Step]
  BY DEF ChangeInv, TypeInv, TypeOK
<1>2. \A q \in Proc : Active(q)' => Active(q)
  BY <1>1 DEF Active
<1>3. Active(p)' => held' = held
  BY <1>1 DEF Active
<1>. QED  BY AtHome, <1>2, <1>3 DEF ExclusiveAt

\* Every step leaves the garden of its invocation with at most one active one.
LEMMA ExclusiveHome ==
    ASSUME OnlyChanges, ChangeInv, NEW p \in Proc,
           ChangeStep(p) \/ Crash(p) \/ (Fault(p) /\ Active(p))
    PROVE  ExclusiveAt(Home(p))'
<1>types. /\ canonical \in [Garden -> Tree] /\ lock \in [Garden -> Plan \cup {Free, Blank}]
          /\ pc \in [Proc -> Step] /\ held \in [Proc -> SUBSET Garden]
          /\ ret \in [Proc -> {"none", "applied", "unchanged"}]
          /\ stage \in [Proc -> [Garden -> Tree]] /\ backup \in [Proc -> [Garden -> Tree]]
  BY DEF ChangeInv, TypeInv, TypeOK
<1>home. Home(p) \in Garden
  BY HomeInGarden DEF OnlyChanges
<1>frame. Frame(p)
  BY ChangeFrame DEF ChangeInv, TypeInv
<1>1. CASE ChangeLock(p)
<2>1. ExclusiveAt(Home(p)) /\ ~Active(p)
  BY <1>1, <1>home DEF ChangeInv, ChangeLock, Active, ChangeSteps
<2>2. CASE lock[Home(p)] = Free
  <3>1. \A q \in Proc : Home(q) = Home(p) => ~Active(q)
    BY <2>1, <2>2 DEF ExclusiveAt
  <3>2. \A q \in Proc \ {p} : Active(q)' <=> Active(q)
    BY <1>frame DEF Frame, Active
  <3>3. held'[p] = {Home(p)} /\ lock'[Home(p)] # Free
    BY <1>1, <2>2, <1>types, <1>home, LockNames DEF ChangeLock
  <3>. QED  BY <3>1, <3>2, <3>3 DEF ExclusiveAt
<2>3. CASE lock[Home(p)] # Free
  <3>1. lock' = lock /\ held' = held /\ pc' = [pc EXCEPT ![p] = "done"]
    BY <1>1, <2>3 DEF ChangeLock, Goto
  <3>2. \A q \in Proc : Active(q)' => Active(q)
    BY <3>1, <1>types DEF Active, ChangeSteps
  <3>. QED  BY <2>1, <3>1, <3>2 DEF ExclusiveAt
<2>. QED  BY <2>2, <2>3
<1>2. ASSUME Active(p), lock' = lock, held' = held, \E step : pc' = [pc EXCEPT ![p] = step]
      PROVE  ExclusiveAt(Home(p))'
  BY <1>2, <1>frame, StillExclusive
<1>3. CASE ChangeJournal(p)
<2>1. Active(p) /\ held' = held /\ pc' = [pc EXCEPT ![p] = "cretire"]
  BY <1>3 DEF ChangeJournal, Goto, Active, ChangeSteps
<2>2. lock'[Home(p)] # Free
  BY <1>3, <1>types, <1>home, LockNames DEF ChangeJournal
<2>3. \A q \in Proc : Active(q)' => Active(q)
  BY <1>types, <2>1 DEF Active
<2>. QED  BY AtHome, <2>1, <2>2, <2>3 DEF ExclusiveAt
<1>4. CASE ChangeRelease(p)
<2>1. Active(p) /\ pc' = [pc EXCEPT ![p] = "done"]
  BY <1>4 DEF ChangeRelease, Goto, Active, ChangeSteps
<2>2. \A q \in Proc : Active(q)' => Active(q) /\ q # p
  BY <1>types, <2>1 DEF Active, ChangeSteps
<2>. QED  BY AtHome, <2>1, <2>2 DEF ExclusiveAt
<1>5. CASE Crash(p)
<2>1. pc' = [pc EXCEPT ![p] = "crashed"] /\ lock' = lock
  BY <1>5 DEF Crash, Goto, OnlyChanges, files
<2>2. Active(p)
  BY <1>5, <1>types DEF Crash, Live, Active, Step, OnlyChanges, ChangeInv, TypeInv, Roles
<2>. QED  BY <1>frame, <2>1, <2>2, StillExclusive DEF ChangeSteps
<1>6. CASE Fault(p) /\ Active(p)
  BY <1>6, <1>2 DEF Fault, Goto, files
<1>7. CASE ChangeVerify(p)
  BY <1>7, <1>2 DEF ChangeVerify, Goto, Active, ChangeSteps, files
<1>8. CASE ChangeBlob(p)
  BY <1>8, <1>2 DEF ChangeBlob, Goto, Active, ChangeSteps, files
<1>9. CASE ChangeStage(p)
  BY <1>9, <1>2 DEF ChangeStage, Goto, Active, ChangeSteps, files
<1>10. CASE ChangeRecheck(p)
  BY <1>10, <1>2 DEF ChangeRecheck, Goto, Active, ChangeSteps, files
<1>11. CASE ChangeRetire(p)
  BY <1>11, <1>2 DEF ChangeRetire, Goto, Active, ChangeSteps, files
<1>12. CASE ChangeSelect(p)
  BY <1>12, <1>2 DEF ChangeSelect, Goto, Active, ChangeSteps, files
<1>13. CASE ChangeUndo(p)
  BY <1>13, <1>2 DEF ChangeUndo, Goto, Active, ChangeSteps, files
<1>14. CASE ChangeFinally(p)
  BY <1>14, <1>2 DEF ChangeFinally, Goto, Active, ChangeSteps, files
<1>. QED
  BY <1>1, <1>3, <1>4, <1>5, <1>6, <1>7, <1>8, <1>9, <1>10, <1>11, <1>12, <1>13, <1>14 DEF ChangeStep

\* A step of an active invocation after which every tree is where it was.
LEMMA QuietDurable ==
    ASSUME OnlyChanges, ChangeInv, NEW p \in Proc, Active(p), Frame(p),
           NEW step, pc' = [pc EXCEPT ![p] = step],
           UNCHANGED <<canonical, stage, backup>>,
           lock'[Home(p)] # Free,
           ret' = ret \/ (ret[p] # "applied" /\ ret' = [ret EXCEPT ![p] = "unchanged"]),
           step \in {"crecheck", "cjournal", "cretire", "cselect"} =>
              pc[p] \in {"crecheck", "cjournal", "cretire", "cselect"},
           step \in {"cselect", "cundo"} => pc[p] \in {"cselect", "cundo"},
           step \in ChangeSteps \ {"cfinally", "crelease"} =>
              pc[p] \in ChangeSteps \ {"cfinally", "crelease"},
           step # "idle",
           pc[p] \in {"cselect", "cundo", "cfinally", "crelease"} =>
              step \in {"cselect", "cundo", "cfinally", "crelease", "done", "crashed"}
    PROVE  DurableAt(Home(p))'
<1>types. /\ pc \in [Proc -> Step] /\ ret \in [Proc -> {"none", "applied", "unchanged"}]
  BY DEF ChangeInv, TypeInv, TypeOK
<1>1. \A t : Includes(t, Home(p))' <=> Includes(t, Home(p))
  BY <1>types DEF Includes
<1>2. canonical'[Home(p)] = canonical[Home(p)]
      /\ (canonical[Home(p)] # Missing => Includes(canonical[Home(p)], Home(p)))
  BY AtHome
<1>3. ASSUME canonical[Home(p)] = Missing PROVE Displaced(p, Home(p))'
  <2>1. Displaced(p, Home(p))
    BY <1>3, AtHome
  <2>2. pc[p] \in {"cselect", "cundo", "cfinally", "crelease"}
    BY <2>1 DEF Displaced, Active, ChangeSteps
  <2>3. pc'[p] = step /\ ret'[p] # "applied"
    BY <1>types, <2>1 DEF Displaced
  <2>4. pc'[p] \in {"done", "crashed"} => \A q \in Proc : Active(q)' => Home(q) # Home(p)
    <3>1. \A q \in Proc : Active(q)' => Active(q) \/ q = p
      BY <1>types DEF Active
    <3>. QED  BY <3>1, AtHome DEF Active, ChangeSteps
  <2>. QED  BY <1>1, <2>1, <2>2, <2>3, <2>4 DEF Displaced
<1>4. ASSUME NEW q \in Proc, Home(q) = Home(p) PROVE Progress(q, Home(p))'
  <2>1. Progress(q, Home(p))
    BY <1>4, AtHome
  <2>2. CASE q = p
    BY <1>1, <1>types, <2>1, <2>2 DEF Progress
  <2>3. CASE q # p
    <3>1. pc'[q] = pc[q] /\ ret'[q] = ret[q]
      BY <2>3 DEF Frame
    <3>. QED  BY <1>1, <2>1, <3>1 DEF Progress
  <2>. QED  BY <2>2, <2>3
<1>. QED  BY <1>1, <1>2, <1>3, <1>4 DEF DurableAt

\* Every step keeps the applied changes of its invocation's garden.
LEMMA DurableHome ==
    ASSUME OnlyChanges, ChangeInv, NEW p \in Proc,
           ChangeStep(p) \/ Crash(p) \/ (Fault(p) /\ Active(p))
    PROVE  DurableAt(Home(p))'
<1>types. /\ canonical \in [Garden -> Tree] /\ lock \in [Garden -> Plan \cup {Free, Blank}]
          /\ pc \in [Proc -> Step] /\ held \in [Proc -> SUBSET Garden]
          /\ ret \in [Proc -> {"none", "applied", "unchanged"}]
          /\ stage \in [Proc -> [Garden -> Tree]] /\ backup \in [Proc -> [Garden -> Tree]]
  BY DEF ChangeInv, TypeInv, TypeOK
<1>home. Home(p) \in Garden
  BY HomeInGarden DEF OnlyChanges
<1>frame. Frame(p)
  BY ChangeFrame DEF ChangeInv, TypeInv
<1>durable. DurableAt(Home(p))
  BY <1>home DEF ChangeInv
<1>locks. Active(p) => lock[Home(p)] # Free /\ PlanOf[p] # Free
  BY AtHome, LockNames
<1>others. ASSUME NEW q \in Proc \ {p}, Home(q) = Home(p), Active(p)
           PROVE  pc'[q] = pc[q] /\ pc[q] \notin ChangeSteps /\ ret'[q] = ret[q]
  BY <1>others, <1>frame, AtHome DEF Frame, Active
\* Progress of the inactive invocations only says that none has applied before it began.
<1>idle. ASSUME NEW q \in Proc \ {p}, Home(q) = Home(p), Active(p)
         PROVE  Progress(q, Home(p))'
  <2>1. Progress(q, Home(p))
    BY <1>idle, <1>durable DEF DurableAt
  <2>. QED  BY <1>idle, <1>others, <2>1 DEF Progress, ChangeSteps
<1>1. CASE ChangeLock(p)
<2>1. pc[p] = "idle" /\ UNCHANGED <<canonical, stage, backup, ret>>
  BY <1>1 DEF ChangeLock
<2>2. \A t : Includes(t, Home(p))' <=> Includes(t, Home(p))
  BY <2>1 DEF Includes
<2>3. \A q \in Proc : Home(q) = Home(p) => Progress(q, Home(p))'
  <3>1. \A q \in Proc : Home(q) = Home(p) => Progress(q, Home(p))
    BY <1>durable DEF DurableAt
  <3>2. pc'[p] \in {"cverify", "done"} /\ \A q \in Proc \ {p} : pc'[q] = pc[q]
    BY <1>1, <1>types DEF ChangeLock, Goto
  <3>. QED  BY <2>1, <2>2, <3>1, <3>2 DEF Progress, ChangeSteps
<2>4. ASSUME canonical[Home(p)] = Missing PROVE \E q \in Proc : Displaced(q, Home(p))'
  <3>1. PICK q \in Proc : Displaced(q, Home(p))
    BY <1>durable, <2>4 DEF DurableAt
  <3>2. q # p
    BY <2>1, <3>1 DEF Displaced
  <3>3. lock' = lock /\ pc' = [pc EXCEPT ![p] = "done"]
    BY <1>1, <3>1 DEF ChangeLock, Goto, Displaced
  <3>4. \A r \in Proc : Active(r)' => Active(r)
    BY <1>types, <3>3 DEF Active, ChangeSteps
  <3>5. pc'[q] = pc[q]
    BY <1>types, <3>2, <3>3
  <3>. QED  BY <2>1, <2>2, <3>1, <3>3, <3>4, <3>5 DEF Displaced
<2>. QED  BY <1>durable, <2>1, <2>2, <2>3, <2>4 DEF DurableAt
<1>progress. Progress(p, Home(p))
  BY <1>durable DEF DurableAt
<1>2. CASE ChangeVerify(p)
  BY <1>2, <1>frame, <1>locks, <1>types, <1>progress, QuietDurable
     DEF ChangeVerify, Goto, Active, ChangeSteps, Progress, files
<1>3. CASE ChangeBlob(p)
  BY <1>3, <1>frame, <1>locks, <1>types, <1>progress, QuietDurable
     DEF ChangeBlob, Goto, Active, ChangeSteps, Progress, files
<1>4. CASE ChangeRecheck(p)
  BY <1>4, <1>frame, <1>locks, <1>types, <1>progress, QuietDurable
     DEF ChangeRecheck, Goto, Active, ChangeSteps, Progress, files
<1>5. CASE ChangeJournal(p)
<2>1. lock'[Home(p)] # Free
  BY <1>5, <1>types, <1>home, LockNames DEF ChangeJournal
<2>. QED
  BY <1>5, <1>frame, <2>1, QuietDurable DEF ChangeJournal, Goto, Active, ChangeSteps
<1>6. CASE Crash(p)
<2>1. Active(p) /\ pc' = [pc EXCEPT ![p] = "crashed"]
  BY <1>6, <1>types DEF Crash, Goto, Live, Active, Step, OnlyChanges, ChangeInv, TypeInv, Roles
<2>. QED
  BY <1>6, <1>frame, <1>locks, <2>1, QuietDurable DEF Crash, ChangeSteps, files
<1>7. CASE Fault(p) /\ Active(p)
<2>1. pc' = [pc EXCEPT ![p] = ChangeHandler(pc[p])]
  BY <1>7 DEF Fault, Goto, Handler, Active
<2>2. ChangeHandler(pc[p]) = IF pc[p] = "cselect" THEN "cundo"
                             ELSE IF pc[p] \in {"cfinally", "crelease"} THEN "done" ELSE "cfinally"
  BY DEF ChangeHandler
<2>. QED
  BY <1>7, <1>frame, <1>locks, <2>1, <2>2, QuietDurable DEF Fault, Active, ChangeSteps, files
<1>8. CASE ChangeStage(p)
<2>0. Active(p) /\ pc[p] = "cstage"
  BY <1>8 DEF ChangeStage, Active, ChangeSteps
<2>1. canonical[Home(p)] # Missing /\ Includes(canonical[Home(p)], Home(p))
  BY <2>0, AtHome DEF Displaced, ChangeSteps
<2>2. /\ stage'[p][Home(p)] = canonical[Home(p)] \cup {PlanOf[p]}
      /\ pc'[p] = "crecheck" /\ canonical' = canonical /\ ret' = ret
  BY <1>8, <2>1, <1>types, <1>home DEF ChangeStage, Goto
<2>3. Includes(canonical[Home(p)] \cup {PlanOf[p]}, Home(p))' /\ Includes(canonical[Home(p)], Home(p))'
  BY <2>1, <2>2 DEF Includes
<2>4. Progress(p, Home(p))'
  BY <2>0, <2>2, <2>3, <1>progress DEF Progress, ChangeSteps
<2>. QED  BY <1>idle, <2>0, <2>1, <2>2, <2>3, <2>4 DEF DurableAt
<1>9. CASE ChangeRetire(p)
<2>0. Active(p) /\ pc[p] = "cretire"
  BY <1>9 DEF ChangeRetire, Active, ChangeSteps
<2>1. canonical[Home(p)] # Missing /\ Includes(canonical[Home(p)], Home(p))
  BY <2>0, AtHome DEF Displaced, ChangeSteps
<2>2. /\ backup'[p][Home(p)] = canonical[Home(p)] /\ canonical'[Home(p)] = Missing
      /\ pc'[p] = "cselect" /\ stage' = stage /\ ret' = ret /\ lock' = lock
  BY <1>9, <2>1, <1>types, <1>home DEF ChangeRetire, Goto
<2>3. \A t : Includes(t, Home(p))' <=> Includes(t, Home(p))
  BY <2>2 DEF Includes
<2>4. Displaced(p, Home(p))'
  BY <2>0, <2>1, <2>2, <2>3, <1>locks, <1>progress DEF Displaced, Progress, ChangeSteps
<2>5. Progress(p, Home(p))'
  BY <2>0, <2>2, <2>3, <1>progress DEF Progress, ChangeSteps
<2>. QED  BY <1>idle, <2>0, <2>2, <2>4, <2>5 DEF DurableAt
<1>10. CASE ChangeSelect(p)
<2>0. Active(p) /\ pc[p] = "cselect"
  BY <1>10 DEF ChangeSelect, Active, ChangeSteps
<2>1. canonical[Home(p)] = Missing
  BY <2>0, <1>progress DEF Progress
<2>2. /\ canonical'[Home(p)] = stage[p][Home(p)]
      /\ ret'[p] = "applied" /\ pc'[p] = "cfinally"
  BY <1>10, <2>1, <1>types, <1>home DEF ChangeSelect, Goto
<2>3. PlanOf[p] \in stage[p][Home(p)] /\ Includes(stage[p][Home(p)], Home(p))
  BY <2>0, <1>progress DEF Progress
<2>4. Includes(canonical[Home(p)], Home(p))'
  BY <1>others, <2>0, <2>2, <2>3 DEF Includes
<2>5. canonical'[Home(p)] # Missing
  BY <2>2, <2>3 DEF Missing
<2>6. Progress(p, Home(p))'
  BY <2>2 DEF Progress, ChangeSteps
<2>. QED  BY <1>idle, <2>0, <2>4, <2>5, <2>6 DEF DurableAt
<1>11. CASE ChangeUndo(p)
<2>0. Active(p) /\ pc[p] = "cundo"
  BY <1>11 DEF ChangeUndo, Active, ChangeSteps
<2>1. canonical[Home(p)] = Missing
  BY <2>0, <1>progress DEF Progress
<2>2. Displaced(p, Home(p))
  BY <2>0, <2>1, AtHome
<2>3. canonical'[Home(p)] = backup[p][Home(p)] /\ pc'[p] = "cfinally" /\ ret' = ret
  BY <1>11, <2>1, <1>types, <1>home DEF ChangeUndo, Goto
<2>4. Includes(canonical[Home(p)], Home(p))' /\ canonical'[Home(p)] # Missing
  BY <2>2, <2>3 DEF Displaced, Includes
<2>5. Progress(p, Home(p))'
  BY <2>3 DEF Progress, ChangeSteps
<2>. QED  BY <1>idle, <2>0, <2>4, <2>5 DEF DurableAt
<1>12. CASE ChangeFinally(p)
<2>0. Active(p) /\ pc[p] = "cfinally"
  BY <1>12 DEF ChangeFinally, Active, ChangeSteps
<2>1. canonical' = canonical /\ ret' = ret /\ lock' = lock /\ pc'[p] = "crelease"
  BY <1>12, <1>types DEF ChangeFinally, Goto
<2>2. \A t : Includes(t, Home(p))' <=> Includes(t, Home(p))
  BY <2>1 DEF Includes
<2>3. Progress(p, Home(p))'
  BY <2>1 DEF Progress, ChangeSteps
<2>4. ASSUME canonical[Home(p)] = Missing PROVE Displaced(p, Home(p))'
  <3>1. Displaced(p, Home(p))
    BY <2>0, <2>4, AtHome
  <3>2. backup' = backup
    BY <1>12, <3>1 DEF ChangeFinally, Displaced
  <3>. QED  BY <2>1, <2>2, <3>1, <3>2 DEF Displaced
<2>5. canonical[Home(p)] # Missing => Includes(canonical[Home(p)], Home(p))'
  BY <2>0, <2>1, <2>2, AtHome
<2>. QED  BY <1>idle, <2>0, <2>1, <2>3, <2>4, <2>5 DEF DurableAt
<1>13. CASE ChangeRelease(p)
<2>0. Active(p) /\ pc[p] = "crelease"
  BY <1>13 DEF ChangeRelease, Active, ChangeSteps
<2>1. UNCHANGED <<canonical, backup, ret>> /\ pc' = [pc EXCEPT ![p] = "done"]
  BY <1>13 DEF ChangeRelease, Goto
<2>2. \A t : Includes(t, Home(p))' <=> Includes(t, Home(p))
  BY <2>1 DEF Includes
<2>3. Progress(p, Home(p))'
  BY <1>types, <2>1 DEF Progress, ChangeSteps
<2>4. ASSUME canonical[Home(p)] = Missing PROVE Displaced(p, Home(p))'
  <3>1. Displaced(p, Home(p))
    BY <2>0, <2>4, AtHome
  <3>2. lock' = lock
    BY <1>13, <3>1 DEF ChangeRelease, Displaced
  <3>3. \A q \in Proc : Active(q)' => Active(q) /\ q # p
    BY <1>types, <2>1 DEF Active, ChangeSteps
  <3>4. \A q \in Proc : Active(q)' => Home(q) # Home(p)
    BY <2>0, <3>3, AtHome
  <3>. QED  BY <1>types, <2>1, <2>2, <3>1, <3>2, <3>4 DEF Displaced
<2>5. canonical[Home(p)] # Missing => Includes(canonical[Home(p)], Home(p))'
  BY <2>0, <2>1, <2>2, AtHome
<2>. QED  BY <1>idle, <2>0, <2>1, <2>3, <2>4, <2>5 DEF DurableAt
<1>. QED
  BY <1>1, <1>2, <1>3, <1>4, <1>5, <1>6, <1>7, <1>8, <1>9, <1>10, <1>11, <1>12, <1>13 DEF ChangeStep

\* The owner only adds to trees that are in place.
LEMMA EditKeeps ==
    ASSUME OnlyChanges, ChangeInv, OwnerEdit, NEW g \in Garden
    PROVE  ExclusiveAt(g)' /\ DurableAt(g)'
<1>1. PICK e \in Edit, h \in Garden :
         canonical[h] # Missing /\ canonical' = [canonical EXCEPT ![h] = canonical[h] \cup {e}]
  BY DEF OwnerEdit
<1>2. canonical \in [Garden -> Tree]
  BY DEF ChangeInv, TypeInv, TypeOK
<1>3. UNCHANGED <<lock, stage, backup, pc, held, ret>>
  BY DEF OwnerEdit, invocation
<1>4. canonical[g] \subseteq canonical'[g] /\ (canonical'[g] = Missing <=> canonical[g] = Missing)
  BY <1>1, <1>2 DEF Missing
<1>5. \A t : Includes(t, g)' <=> Includes(t, g)
  BY <1>3 DEF Includes
<1>6. canonical'[g] # Missing => Includes(canonical[g], g)'
  BY <1>3, <1>4 DEF ChangeInv, DurableAt, Includes
<1>7. \A q \in Proc : Displaced(q, g) => Displaced(q, g)'
  BY <1>3, <1>5 DEF Displaced, Active
<1>8. \A q \in Proc : Progress(q, g) => Progress(q, g)'
  BY <1>3, <1>4, <1>5 DEF Progress
<1>9. ExclusiveAt(g)'
  BY <1>3 DEF ChangeInv, ExclusiveAt, Active
<1>. QED  BY <1>4, <1>6, <1>7, <1>8, <1>9 DEF ChangeInv, DurableAt

\* A step that concerns neither trees nor invocations.
LEMMA RestKeeps ==
    ASSUME ChangeInv, UNCHANGED <<canonical, lock, stage, backup, pc, held, ret>>,
           NEW g \in Garden
    PROVE  ExclusiveAt(g)' /\ DurableAt(g)'
  BY DEF ChangeInv, ExclusiveAt, DurableAt, Displaced, Progress, Includes, Active

\* ChangeInv is inductive.
LEMMA ChangeInvNext ==
    ASSUME OnlyChanges, ChangeInv, [Next]_vars
    PROVE  ChangeInv'
<1>types. TypeInv' /\ TypeInv /\ TypeOK
  BY TypeNext, RolesNext DEF ChangeInv, TypeInv
<1>1. ASSUME NEW p \in Proc, ChangeStep(p) \/ Crash(p) \/ (Fault(p) /\ Active(p)),
             NEW g \in Garden
      PROVE  ExclusiveAt(g)' /\ DurableAt(g)'
<2>1. CASE g = Home(p)
  BY <1>1, <2>1, ExclusiveHome, DurableHome
<2>2. CASE g # Home(p)
  BY <1>1, <1>types, <2>2, ChangeFrame, OtherGardens
<2>. QED  BY <2>1, <2>2
<1>2. ASSUME Rebind \/ UNCHANGED vars, NEW g \in Garden
      PROVE  ExclusiveAt(g)' /\ DurableAt(g)'
  BY <1>2, RestKeeps DEF Rebind, vars, files, invocation
<1>. QED
  BY <1>types, <1>1, <1>2, EditKeeps, OnlyChangeSteps DEF ChangeInv

\* At first nobody is active, and every garden has its tree.
LEMMA ChangeInvInit ==
    ASSUME OnlyChanges, Init
    PROVE  ChangeInv
<1>1. \A p \in Proc : ~Active(p) /\ ret[p] = "none" /\ pc[p] = "idle"
  BY DEF Init, StoreInit, Active, ChangeSteps
<1>2. \A g \in Garden : canonical[g] # Missing
  BY DEF Init, StoreInit, Missing
<1>3. \A g \in Garden : ExclusiveAt(g)
  BY <1>1 DEF ExclusiveAt
<1>4. \A g \in Garden : DurableAt(g)
  BY <1>1, <1>2 DEF DurableAt, Includes, Progress
<1>. QED  BY TypeInit, <1>3, <1>4 DEF ChangeInv

-----------------------------------------------------------------------------
\* With single-garden plans only, two invocations never both believe they hold
\* the write lock of one garden (the O_EXCL lock of ChangePlan.apply).
THEOREM ChangesExclude ==
    ASSUME OnlyChanges
    PROVE  Spec => []SingleWriter
<1>1. Init => ChangeInv
  BY ChangeInvInit
<1>2. ChangeInv /\ [Next]_vars => ChangeInv'
  BY ChangeInvNext
<1>3. ChangeInv => SingleWriter
  <2>. SUFFICES ASSUME ChangeInv, NEW p \in Proc, NEW q \in Proc, p # q
                PROVE  Writing(p) \cap Writing(q) = {}
    BY DEF SingleWriter
  <2>1. \A r \in Proc : Writing(r) # {} => Active(r)
    BY DEF Writing, Active, ChangeInv, TypeInv, Roles, OnlyChanges, ApplySteps, RecoverSteps
  <2>2. \A r \in Proc : Writing(r) \subseteq held[r]
    BY DEF Writing
  <2>3. \A r \in Proc : Active(r) => held[r] = {Home(r)}
    BY AtHome
  <2>4. Active(p) /\ Active(q) => Home(p) # Home(q)
    BY AtHome
  <2>. QED  BY <2>1, <2>2, <2>3, <2>4
<1>. QED  BY <1>1, <1>2, <1>3, PTL DEF Spec

\* With single-garden plans only, a change that was reported as applied is never
\* lost: it is in the garden's tree, or in the displaced tree that its lock keeps
\* for the owner (no later apply stages a copy without it).
THEOREM ChangesAreDurable ==
    ASSUME OnlyChanges
    PROVE  Spec => []AppliedIsDurable
<1>1. Init => ChangeInv
  BY ChangeInvInit
<1>2. ChangeInv /\ [Next]_vars => ChangeInv'
  BY ChangeInvNext
<1>3. ChangeInv => AppliedIsDurable
  <2>. SUFFICES ASSUME ChangeInv, NEW p \in Proc, ret[p] = "applied",
                       NEW g \in Targets[PlanOf[p]]
                PROVE  PlanOf[p] \in Surviving(g)
    BY DEF AppliedIsDurable
  <2>1. PlanOf[p] \in Change
    BY PlanKinds DEF OnlyChanges
  <2>2. g = Home(p) /\ g \in Garden
    BY <2>1, StoreAssumption DEF Home
  <2>3. DurableAt(g)
    BY <2>2 DEF ChangeInv
  <2>4. CASE canonical[g] # Missing
    BY <2>2, <2>3, <2>4 DEF DurableAt, Includes, Surviving
  <2>5. CASE canonical[g] = Missing
    <3>1. PICK q \in Proc : Displaced(q, g)
      BY <2>3, <2>5 DEF DurableAt
    <3>2. PlanOf[p] \in backup[q][g]
      BY <2>2, <3>1 DEF Displaced, Includes
    <3>. QED  BY <2>5, <3>2 DEF Surviving
  <2>. QED  BY <2>4, <2>5
<1>. QED  BY <1>1, <1>2, <1>3, PTL DEF Spec

-----------------------------------------------------------------------------
(***************************************************************************)
(* One invocation at a time (MaxLive <= 1): an interrupted selection can    *)
(* always be taken back, and recovery accepts what was left behind.        *)
(***************************************************************************)
Alone == \A p, q \in Proc : Live(p) /\ Live(q) => p = q

\* Only q has a backup at g.
OnlyBackup(q, g) == \A r \in Proc : r # q => backup[r][g] = Missing

\* The tree of g is in place, and nobody has a backup of it.
InPlace(g) == canonical[g] # Missing /\ \A r \in Proc : backup[r][g] = Missing

\* A garden that no operation has locked by name is in place.
FreeInPlace == \A g \in Garden : lock[g] \in {Free, Blank} => InPlace(g)

\* p selects its stages, between writing the journal and committing it.
Selects(p) == pc[p] \in {"selecting", "retire", "select", "commit"}

\* The trees are what the running invocation recorded: no edit, or none while it runs.
Calm == edits = {} \/ ~LiveEdits

\* The trees of plan d are what its journal recorded.
Sure(d) == edits = {} \/ (~LiveEdits /\ \E p \in Proc : PlanOf[p] = d /\ Selects(p))

\* What recover_routing demands of the tree and the backup at g.
KnownTrees(d, g) ==
    LET j == journal[d]
        kept == backup[j.by][g] IN
    /\ canonical[g] \in {Missing, j.before[g], j.after[g]}
    /\ kept \in {Missing, j.before[g]}
    /\ kept = Missing => canonical[g] = j.before[g]

\* While the lock at g names plan d with a journal: only the journal's backup is
\* there, and once the journal is finished the garden is in place.
LockedSound(d, g) ==
    LET j == journal[d] IN
    lock[g] = d =>
       /\ OnlyBackup(j.by, g)
       /\ Finished(j) => canonical[g] # Missing
       /\ j.state = "rolled-back" => backup[j.by][g] = Missing

\* While the journal of plan d is not finished: the garden is locked for it, and
\* the tree to go back to is in the backup, or else in place.
OriginalSound(d, g) ==
    LET j == journal[d] IN
    /\ lock[g] = d
    /\ backup[j.by][g] = Missing => j.before[g] \subseteq canonical[g]
    /\ backup[j.by][g] # Missing => j.before[g] \subseteq backup[j.by][g]
    /\ Sure(d) => KnownTrees(d, g)

\* A journal was written by an apply of its plan, about every target.
JournalSound(d) ==
    LET j == journal[d] IN
    j.state # "none" =>
       /\ Kind[j.by] = "route" /\ PlanOf[j.by] = d
       /\ Entries(j) = Targets[d]
       /\ j.bindings <= bindings
       /\ \A g \in Targets[d] : LockedSound(d, g)
       /\ Unfinished(j) => \A g \in Targets[d] : OriginalSound(d, g)

\* What a single-garden apply relies on at its steps.
ChangeDuty(p) ==
    LET g == Home(p) IN
    /\ pc[p] \in ChangeSteps =>
         lock[g] \in {Blank, PlanOf[p]} /\ OnlyBackup(p, g)
    /\ pc[p] \in {"cverify", "cblob", "cstage", "crecheck", "cjournal", "cretire"} => InPlace(g)
    /\ pc[p] \in {"cretire", "cselect", "cundo"} => lock[g] = PlanOf[p]
    /\ pc[p] \in {"cselect", "cundo"} => canonical[g] = Missing /\ backup[p][g] # Missing
    /\ pc[p] \in {"crecheck", "cjournal", "cretire", "cselect"} => stage[p][g] # Missing
    /\ pc[p] \in {"idle"} \cup (ChangeSteps \ {"cfinally", "crelease"}) => ret[p] # "applied"
    /\ pc[p] \in {"cfinally", "crelease"} =>
         (ret[p] = "applied" \/ backup[p][g] = Missing => canonical[g] # Missing)
    /\ pc[p] = "crelease" /\ ret[p] = "applied" => backup[p][g] = Missing

Planning == {"lock", "verify", "copy", "record", "validate", "reverify", "prepare"}

\* The entries that a routing apply has recorded are true, and staged.
Recorded(p) ==
    LET j == mem[p] IN
    \A g \in Entries(j) :
       /\ j.before[g] \subseteq canonical[g]
       /\ stage[p][g] = j.after[g] /\ PlanOf[p] \in j.after[g]
       /\ Calm => canonical[g] = j.before[g]

\* What it relies on before it writes a journal ...
PlanDuty(p) ==
    LET d == PlanOf[p]
        T == Targets[PlanOf[p]]
        j == mem[p] IN
    pc[p] \in Planning =>
       /\ journal[d].state = "none"
       /\ j.by = p /\ j.bindings <= bindings
       /\ \A g \in held[p] : lock[g] = d /\ InPlace(g)
       /\ IF pc[p] = "lock" THEN T = held[p] \cup todo[p] ELSE held[p] = T
       /\ Recorded(p)
       /\ pc[p] \in {"lock", "verify"} => Entries(j) = {}
       /\ pc[p] \in {"copy", "record"} =>
             todo[p] # {} /\ todo[p] \subseteq T /\ Entries(j) = T \ todo[p]
       /\ pc[p] = "record" => PlanOf[p] \in stage[p][First(todo[p])]
       /\ pc[p] \in {"validate", "reverify", "prepare"} => Entries(j) = T

\* ... while it selects ...
SelectDuty(p) ==
    LET T == Targets[PlanOf[p]]
        j == mem[p]
        left == CASE pc[p] = "selecting" -> T
                  [] pc[p] \in {"retire", "select"} -> todo[p]
                  [] OTHER -> {} IN
    Selects(p) =>
       /\ journal[PlanOf[p]] = j /\ j.by = p
       /\ j.state = (IF pc[p] = "selecting" THEN "prepared" ELSE "selecting")
       /\ left \subseteq T
       /\ \A g \in left : stage[p][g] = j.after[g] /\ PlanOf[p] \in j.after[g]
       /\ \A g \in left : (pc[p] = "select" /\ g = First(todo[p])) \/ backup[p][g] = Missing
       /\ \A g \in T \ left : canonical[g] # Missing /\ (Calm => canonical[g] = j.after[g])
       /\ pc[p] \in {"retire", "select"} => todo[p] # {}
       /\ pc[p] = "select" =>
             canonical[First(todo[p])] = Missing /\ backup[p][First(todo[p])] # Missing

\* ... and when it gives its locks back.
EndDuty(p) ==
    /\ held[p] \subseteq Targets[PlanOf[p]]
    /\ pc[p] = "idle" => held[p] = {}
    /\ pc[p] \in RecoverSteps => ctx[p] # "cli" /\ journal[PlanOf[p]].state # "none"
    /\ pc[p] \in {"except", "finally", "release"} /\ journal[PlanOf[p]].state = "none" =>
          \A g \in held[p] : lock[g] \in {PlanOf[p], Free} /\ InPlace(g)
    /\ pc[p] = "release" => journal[PlanOf[p]].state = "none"

\* What recovery relies on once its check has passed.
RecoverDuty(p) ==
    LET T == Targets[PlanOf[p]]
        j == mem[p] IN
    pc[p] \in RecoverSteps \ {"check"} =>
       /\ j = journal[PlanOf[p]] /\ j.state # "none"
       /\ todo[p] \subseteq T
       /\ \A g \in T : lock[g] \in {PlanOf[p], Free}
       /\ pc[p] \in {"rollback", "park", "putback"} =>
             \A g \in T \ todo[p] : j.state = "committed" \/ backup[j.by][g] = Missing
       /\ pc[p] \in {"park", "putback"} => todo[p] # {} /\ j.state # "committed"
       /\ pc[p] = "park" => backup[j.by][Final(todo[p])] # Missing
       /\ pc[p] \in {"clean", "cleanBackup", "unlock"} =>
             Finished(j) /\ \A g \in T \ todo[p] : lock[g] = Free
       /\ pc[p] \in {"cleanBackup", "unlock"} => todo[p] # {}
       /\ pc[p] = "unlock" => backup[j.by][First(todo[p])] = Missing

Duty(p) ==
    /\ Kind[p] = "change" => ChangeDuty(p)
    /\ Kind[p] = "route" => PlanDuty(p) /\ SelectDuty(p) /\ EndDuty(p)
    /\ Kind[p] # "change" => RecoverDuty(p)

SerialInv ==
    /\ TypeInv
    /\ Alone
    /\ FreeInPlace
    /\ \A d \in Route : JournalSound(d)
    /\ \A p \in Proc : Duty(p)

-----------------------------------------------------------------------------
(***************************************************************************)
(* What a step of one invocation leaves alone.                             *)
(***************************************************************************)
\* At garden g only stages change.
Still(g) ==
    /\ canonical'[g] = canonical[g] /\ lock'[g] = lock[g]
    /\ \A r \in Proc : backup'[r][g] = backup[r][g]

\* The other invocations keep their place.
OthersWait(p) ==
    \A q \in Proc : q # p => pc'[q] = pc[q] /\ held'[q] = held[q] /\ ret'[q] = ret[q]

\* The step is one of p at garden g: nothing else changes but stages.
LocalStep(p, g) ==
    /\ \A h \in Garden : h # g => Still(h)
    /\ \A d \in Route : d # PlanOf[p] => journal'[d] = journal[d]
    /\ bindings' = bindings /\ edits' = edits
    /\ OthersWait(p)

\* A lock file that p may have created, or none.
OwnLock(p) == {Free, Blank, PlanOf[p]}

\* The absent lock, the empty one and those that name plans are different.
LEMMA LocksDiffer ==
    /\ Free # Blank
    /\ \A d \in Plan : d # Free /\ d # Blank
  BY StoreAssumption DEF Free, Blank

\* A journal stays sound while nothing at the gardens it has locked changes.
LEMMA JournalKept ==
    ASSUME NEW d \in Route, JournalSound(d), journal'[d] = journal[d],
           bindings \in Nat, bindings' \in Nat, journal[d].bindings \in Nat,
           bindings <= bindings', Sure(d)' => Sure(d),
           \A h \in Garden : lock[h] = d \/ lock'[h] = d => Still(h),
           Targets[d] \subseteq Garden, journal[d].by \in Proc
    PROVE  JournalSound(d)'
<1>. SUFFICES ASSUME journal[d].state # "none" PROVE JournalSound(d)'
  BY DEF JournalSound
<1>. DEFINE j == journal[d]
<1>1. /\ Kind[j.by] = "route" /\ PlanOf[j.by] = d /\ Entries(j) = Targets[d]
      /\ j.bindings <= bindings
      /\ \A g \in Targets[d] : LockedSound(d, g)
      /\ Unfinished(j) => \A g \in Targets[d] : OriginalSound(d, g)
  BY DEF JournalSound
<1>2. ASSUME NEW g \in Targets[d] PROVE LockedSound(d, g)'
  <2>1. LockedSound(d, g)
    BY <1>1
  <2>2. CASE lock'[g] = d
    <3>1. Still(g)
      BY <2>2
    <3>. QED BY <2>1, <3>1 DEF LockedSound, Still, OnlyBackup
  <2>. QED BY <2>2 DEF LockedSound
<1>3. ASSUME Unfinished(j), NEW g \in Targets[d] PROVE OriginalSound(d, g)'
  <2>1. OriginalSound(d, g)
    BY <1>1, <1>3
  <2>2. Still(g)
    BY <2>1 DEF OriginalSound
  <2>. QED BY <2>1, <2>2 DEF OriginalSound, Still, KnownTrees
<1>4. Entries(j)' = Entries(j)
  BY DEF Entries
<1>. QED BY <1>1, <1>2, <1>3, <1>4 DEF JournalSound, Finished, Unfinished

\* What the types say of a journal.
LEMMA JournalFacts ==
    ASSUME TypeOK, NEW d \in Route
    PROVE  /\ journal[d] \in Journal
           /\ journal[d].by \in Proc /\ journal[d].bindings \in Nat
           /\ journal[d].before \in [Garden -> Tree] /\ journal[d].after \in [Garden -> Tree]
           /\ Targets[d] \subseteq Garden /\ Targets[d] # {}
           /\ d \in Plan
<1>1. journal[d] \in Journal
  BY DEF TypeOK
<1>. QED BY <1>1, StoreAssumption DEF Journal, Plan

\* A step of p does not disturb the journals of other plans.
LEMMA ForeignJournal ==
    ASSUME SerialInv, NEW p \in Proc, NEW g \in Garden, LocalStep(p, g),
           Still(g) \/ (lock[g] \in OwnLock(p) /\ lock'[g] \in OwnLock(p)),
           NEW d \in Route, d # PlanOf[p]
    PROVE  JournalSound(d)'
<1>1. TypeOK /\ JournalSound(d)
  BY DEF SerialInv, TypeInv
<1>2. journal'[d] = journal[d] /\ bindings' = bindings /\ edits' = edits
  BY DEF LocalStep
<1>3. Sure(d)' => Sure(d)
  <2>1. \A q \in Proc : PlanOf[q] = d => pc'[q] = pc[q]
    BY DEF LocalStep, OthersWait
  <2>. QED BY <1>2, <2>1 DEF Sure, Selects
<1>4. d # Free /\ d # Blank
  BY LocksDiffer DEF Plan
<1>5. ASSUME NEW h \in Garden, lock[h] = d \/ lock'[h] = d PROVE Still(h)
  BY <1>4, <1>5 DEF LocalStep, OwnLock
<1>6. bindings \in Nat
  BY <1>1 DEF TypeOK
<1>. QED BY <1>1, <1>2, <1>3, <1>5, <1>6, JournalFacts, JournalKept

\* Gardens that are not locked by name stay in place.
LEMMA StillInPlace ==
    ASSUME SerialInv, NEW p \in Proc, NEW g \in Garden, LocalStep(p, g),
           Still(g) \/ (lock'[g] \in {Free, Blank} => InPlace(g)')
    PROVE  FreeInPlace'
<1>1. FreeInPlace
  BY DEF SerialInv
<1>2. ASSUME NEW h \in Garden, Still(h) PROVE lock'[h] \in {Free, Blank} => InPlace(h)'
  BY <1>1, <1>2 DEF FreeInPlace, Still, InPlace
<1>. QED BY <1>2 DEF FreeInPlace, LocalStep

\* The invocations that do not run have next to nothing to rely on.
LEMMA IdleDuty ==
    ASSUME SerialInv, NEW p \in Proc, OthersWait(p), NEW q \in Proc, q # p, ~Live(q),
           pc \in [Proc -> Step]
    PROVE  Duty(q)'
<1>1. /\ pc'[q] = pc[q] /\ held'[q] = held[q] /\ ret'[q] = ret[q]
      /\ pc[q] \in {"idle", "done", "crashed"}
  BY DEF OthersWait, Live
<1>2. Duty(q)
  BY DEF SerialInv
<1>3. Kind[q] = "change" => ChangeDuty(q)'
  BY <1>1, <1>2 DEF Duty, ChangeDuty, ChangeSteps
<1>4. PlanDuty(q)' /\ SelectDuty(q)'
  BY <1>1 DEF PlanDuty, SelectDuty, Planning, Selects
<1>5. Kind[q] = "route" => EndDuty(q)'
  BY <1>1, <1>2 DEF Duty, EndDuty, RecoverSteps
<1>6. RecoverDuty(q)'
  BY <1>1 DEF RecoverDuty, RecoverSteps
<1>. QED BY <1>3, <1>4, <1>5, <1>6 DEF Duty

\* Only the invocation that runs takes steps.
LEMMA OnlyActor ==
    ASSUME MaxLive <= 1, TypeInv, Alone, NEW p \in Proc, Live(p) \/ Work(p),
           NEW q \in Proc, q # p
    PROVE  ~Live(q)
<1>1. CASE Live(p)
  BY <1>1 DEF Alone
<1>2. CASE ~Live(p) /\ Live(q)
  <2>1. Running = {q}
    BY <1>2 DEF Running, Alone
  <2>2. Cardinality(Running) = 1
    BY <2>1, FS_Singleton
  <2>3. Cardinality(Running) < MaxLive
    BY <1>2 DEF Work
  <2>. QED BY <2>2, <2>3, WritersAssumption
<1>. QED BY <1>1, <1>2

\* What is left to show for a step of p: its own journal and its own duty.
LEMMA StepKeeps ==
    ASSUME MaxLive <= 1, SerialInv, TypeInv', NEW p \in Proc, Live(p) \/ Work(p),
           NEW g \in Garden, LocalStep(p, g),
           \/ Still(g)
           \/ /\ lock[g] \in OwnLock(p) /\ lock'[g] \in OwnLock(p)
              /\ lock'[g] \in {Free, Blank} => InPlace(g)',
           PlanOf[p] \in Route => JournalSound(PlanOf[p])',
           Duty(p)'
    PROVE  SerialInv'
<1>1. \A q \in Proc : q # p => ~Live(q) /\ pc'[q] = pc[q]
  BY OnlyActor DEF SerialInv, LocalStep, OthersWait
<1>2. Alone'
  BY <1>1 DEF Alone, Live
<1>3. FreeInPlace'
  BY StillInPlace
<1>4. \A d \in Route : JournalSound(d)'
  BY ForeignJournal
<1>5. \A q \in Proc : Duty(q)'
  BY <1>1, IdleDuty DEF LocalStep, SerialInv, TypeInv, TypeOK
<1>. QED BY <1>2, <1>3, <1>4, <1>5 DEF SerialInv

-----------------------------------------------------------------------------
(***************************************************************************)
(* Single-garden applies.                                                  *)
(***************************************************************************)
\* A step of a single-garden apply concerns its garden.
LEMMA ChangeLocal ==
    ASSUME TypeOK, NEW p \in Proc, ChangeStep(p), Kind[p] = "change"
    PROVE  LocalStep(p, Home(p))
<1>types. /\ canonical \in [Garden -> Tree] /\ lock \in [Garden -> Plan \cup {Free, Blank}]
          /\ pc \in [Proc -> Step] /\ held \in [Proc -> SUBSET Garden]
          /\ ret \in [Proc -> {"none", "applied", "unchanged"}]
          /\ stage \in [Proc -> [Garden -> Tree]] /\ backup \in [Proc -> [Garden -> Tree]]
  BY DEF TypeOK
<1>home. Home(p) \in Garden
  BY HomeInGarden
<1>. USE <1>types, <1>home DEF LocalStep, Still, OthersWait, Goto
<1>1. CASE ChangeLock(p)
  BY <1>1 DEF ChangeLock, files, budget
<1>2. CASE ChangeVerify(p)
  BY <1>2 DEF ChangeVerify, files, budget
<1>3. CASE ChangeBlob(p)
  BY <1>3 DEF ChangeBlob, files, budget
<1>4. CASE ChangeStage(p)
  BY <1>4 DEF ChangeStage, files, budget
<1>5. CASE ChangeRecheck(p)
  BY <1>5 DEF ChangeRecheck, files, budget
<1>6. CASE ChangeJournal(p)
  BY <1>6 DEF ChangeJournal, files, budget
<1>7. CASE ChangeRetire(p)
  <2>1. CASE canonical[Home(p)] = Missing
    BY <1>7, <2>1 DEF ChangeRetire, files, budget
  <2>2. CASE canonical[Home(p)] # Missing
    <3>1. /\ backup' = [backup EXCEPT ![p][Home(p)] = canonical[Home(p)]]
          /\ canonical' = [canonical EXCEPT ![Home(p)] = Missing]
      BY <1>7, <2>2 DEF ChangeRetire
    <3>. QED BY <1>7, <2>2, <3>1 DEF ChangeRetire, files, budget
  <2>. QED BY <2>1, <2>2
<1>8. CASE ChangeSelect(p)
  BY <1>8 DEF ChangeSelect, files, budget
<1>9. CASE ChangeUndo(p)
  BY <1>9 DEF ChangeUndo, files, budget
<1>10. CASE ChangeFinally(p)
  BY <1>10 DEF ChangeFinally, files, budget
<1>11. CASE ChangeRelease(p)
  BY <1>11 DEF ChangeRelease, files, budget
<1>. QED
  BY <1>1, <1>2, <1>3, <1>4, <1>5, <1>6, <1>7, <1>8, <1>9, <1>10, <1>11 DEF ChangeStep

\* Every step of a single-garden apply finds what it relies on, and leaves what
\* the next one relies on.
LEMMA SerialChange ==
    ASSUME MaxLive <= 1, SerialInv, TypeInv', NEW p \in Proc, ChangeStep(p), Work(p)
    PROVE  SerialInv'
<1>. DEFINE g == Home(p)
<1>kind. Kind[p] = "change"
  BY StepKinds DEF SerialInv, TypeInv
<1>types. /\ canonical \in [Garden -> Tree] /\ lock \in [Garden -> Plan \cup {Free, Blank}]
          /\ pc \in [Proc -> Step] /\ held \in [Proc -> SUBSET Garden]
          /\ ret \in [Proc -> {"none", "applied", "unchanged"}]
          /\ stage \in [Proc -> [Garden -> Tree]] /\ backup \in [Proc -> [Garden -> Tree]]
          /\ ret' \in [Proc -> {"none", "applied", "unchanged"}]
  BY DEF SerialInv, TypeInv, TypeOK
<1>home. g \in Garden
  BY <1>kind, HomeInGarden
<1>local. LocalStep(p, g)
  BY <1>kind, ChangeLocal DEF SerialInv, TypeInv
<1>plan. PlanOf[p] \in Change /\ PlanOf[p] \in Plan /\ PlanOf[p] \notin Route
  BY <1>kind, PlanKinds, StoreAssumption
<1>locks. Free # Blank /\ PlanOf[p] # Free /\ PlanOf[p] # Blank
  BY <1>plan, LocksDiffer
<1>duty. ChangeDuty(p) /\ (lock[g] \in {Free, Blank} => InPlace(g))
  BY <1>kind, <1>home DEF SerialInv, Duty, FreeInPlace
<1>. SUFFICES /\ ChangeDuty(p)'
              /\ \/ Still(g)
                 \/ /\ lock[g] \in OwnLock(p) /\ lock'[g] \in OwnLock(p)
                    /\ lock'[g] \in {Free, Blank} => InPlace(g)'
  BY <1>kind, <1>home, <1>local, <1>plan, StepKeeps DEF Duty
<1>. HIDE DEF g
<1>g. Home(p) = g
  BY DEF g
<1>. USE <1>g, <1>types, <1>home, <1>locks, <1>duty
     DEF ChangeDuty, Still, OwnLock, InPlace, OnlyBackup, ChangeSteps, Goto
<1>1. CASE ChangeLock(p)
  BY <1>1 DEF ChangeLock, files
<1>2. CASE ChangeVerify(p)
  BY <1>2 DEF ChangeVerify, files
<1>3. CASE ChangeBlob(p)
  BY <1>3 DEF ChangeBlob, files
<1>4. CASE ChangeStage(p)
  BY <1>4 DEF ChangeStage, files, Missing
<1>5. CASE ChangeRecheck(p)
  BY <1>5 DEF ChangeRecheck, files
<1>6. CASE ChangeJournal(p)
  BY <1>6 DEF ChangeJournal, files
<1>7. CASE ChangeRetire(p)
  BY <1>7 DEF ChangeRetire, files
<1>8. CASE ChangeSelect(p)
  BY <1>8 DEF ChangeSelect, files
<1>9. CASE ChangeUndo(p)
  BY <1>9 DEF ChangeUndo, files
<1>10. CASE ChangeFinally(p)
  BY <1>10 DEF ChangeFinally, files
<1>11. CASE ChangeRelease(p)
  BY <1>11 DEF ChangeRelease, files
<1>. QED
  BY <1>1, <1>2, <1>3, <1>4, <1>5, <1>6, <1>7, <1>8, <1>9, <1>10, <1>11 DEF ChangeStep

-----------------------------------------------------------------------------
(***************************************************************************)
(* Routing applies, up to the journal.                                     *)
(***************************************************************************)
\* What the types say of an invocation that is given a routing plan.
LEMMA RouteFacts ==
    ASSUME TypeOK, NEW p \in Proc, Kind[p] # "change"
    PROVE  /\ PlanOf[p] \in Route /\ PlanOf[p] \in Plan
           /\ PlanOf[p] # Free /\ PlanOf[p] # Blank /\ Free # Blank
           /\ Targets[PlanOf[p]] \subseteq Garden /\ Targets[PlanOf[p]] # {}
           /\ mem[p] \in Journal /\ mem[p].by \in Proc /\ mem[p].bindings \in Nat
           /\ mem[p].before \in [Garden -> Tree] /\ mem[p].after \in [Garden -> Tree]
           /\ journal[PlanOf[p]] \in Journal
           /\ todo[p] \subseteq Garden /\ held[p] \subseteq Garden
<1>1. PlanOf[p] \in Route /\ PlanOf[p] \in Plan
  BY PlanKinds
<1>2. mem[p] \in Journal /\ todo[p] \subseteq Garden /\ held[p] \subseteq Garden
  BY DEF TypeOK
<1>. QED BY <1>1, <1>2, LocksDiffer, JournalFacts DEF Journal

\* A step that touches no tree in place, no lock, no backup and no journal, and
\* starts no selection, leaves only the invocation's own duty to show.
QuietStep(p) ==
    /\ \A h \in Garden : Still(h)
    /\ journal' = journal /\ bindings' = bindings /\ edits' = edits
    /\ OthersWait(p)
    /\ Selects(p)' => Selects(p)

LEMMA OwnJournalKept ==
    ASSUME TypeOK, NEW p \in Proc, QuietStep(p), PlanOf[p] \in Route, JournalSound(PlanOf[p])
    PROVE  JournalSound(PlanOf[p])'
<1>. DEFINE d == PlanOf[p]
<1>1. Sure(d)' => Sure(d)
  BY DEF QuietStep, OthersWait, Sure, Selects
<1>2. bindings \in Nat /\ bindings' \in Nat /\ bindings <= bindings'
  BY DEF TypeOK, QuietStep
<1>3. \A h \in Garden : lock[h] = d \/ lock'[h] = d => Still(h)
  BY DEF QuietStep
<1>. QED BY <1>1, <1>2, <1>3, JournalFacts, JournalKept DEF QuietStep

LEMMA QuietKeeps ==
    ASSUME MaxLive <= 1, SerialInv, TypeInv', NEW p \in Proc, Live(p) \/ Work(p),
           QuietStep(p), Duty(p)'
    PROVE  SerialInv'
<1>1. PICK g \in Garden : TRUE
  BY StoreAssumption DEF Garden
<1>2. LocalStep(p, g) /\ Still(g)
  BY DEF LocalStep, QuietStep
<1>3. PlanOf[p] \in Route => JournalSound(PlanOf[p])'
  BY OwnJournalKept DEF SerialInv, TypeInv
<1>. QED BY <1>2, <1>3, StepKeeps

\* A new document has no entries.
LEMMA NoEntries ==
    ASSUME NEW p \in Proc, NEW v
    PROVE  Entries(NewJournal(p, v)) = {}
  BY DEF Entries, NewJournal

\* The steps before the first change of a tree in place or a journal only read.
LEMMA RoutePlanQuiet ==
    ASSUME TypeOK, NEW p \in Proc,
           \/ RouteBegin(p) \/ RouteVerify(p) \/ RouteCopy(p) \/ RouteRecord(p)
           \/ RouteValidate(p) \/ RouteReverify(p) \/ RouteExcept(p) \/ RouteFinally(p)
    PROVE  QuietStep(p)
<1>types. /\ pc \in [Proc -> Step] /\ held \in [Proc -> SUBSET Garden]
          /\ ret \in [Proc -> {"none", "applied", "unchanged"}]
  BY DEF TypeOK
<1>. USE <1>types DEF QuietStep, Still, OthersWait, Goto, Selects
<1>1. CASE RouteBegin(p)
  BY <1>1 DEF RouteBegin, files, budget
<1>2. CASE RouteVerify(p)
  BY <1>2 DEF RouteVerify, files, budget
<1>3. CASE RouteCopy(p)
  BY <1>3 DEF RouteCopy, files, budget
<1>4. CASE RouteRecord(p)
  BY <1>4 DEF RouteRecord, files, budget
<1>5. CASE RouteValidate(p)
  BY <1>5 DEF RouteValidate, files, budget
<1>6. CASE RouteReverify(p)
  BY <1>6 DEF RouteReverify, files, budget
<1>7. CASE RouteExcept(p)
  BY <1>7 DEF RouteExcept, files, budget
<1>8. CASE RouteFinally(p)
  BY <1>8 DEF RouteFinally, files, budget
<1>. QED  BY <1>1, <1>2, <1>3, <1>4, <1>5, <1>6, <1>7, <1>8

\* What a routing apply may rely on.
RouteFoundation(p) ==
    /\ TypeOK /\ Kind[p] = "route"
    /\ PlanDuty(p) /\ SelectDuty(p) /\ EndDuty(p) /\ RecoverDuty(p)
    /\ PlanOf[p] \in Route /\ JournalSound(PlanOf[p])
    /\ FreeInPlace

LEMMA RouteFounded ==
    ASSUME SerialInv, NEW p \in Proc, Kind[p] = "route"
    PROVE  RouteFoundation(p)
<1>1. Duty(p) /\ TypeOK
  BY DEF SerialInv, TypeInv
<1>. QED BY <1>1, PlanKinds DEF Duty, SerialInv, RouteFoundation

\* At a step outside a phase there is nothing to rely on for that phase.
LEMMA PhaseDuty ==
    ASSUME NEW p \in Proc
    PROVE  /\ pc[p] \notin Planning => PlanDuty(p)
           /\ ~Selects(p) => SelectDuty(p)
           /\ pc[p] \notin RecoverSteps \ {"check"} => RecoverDuty(p)
  BY DEF PlanDuty, SelectDuty, RecoverDuty

\* Each of these steps leaves what the next one relies on.
LEMMA RoutePlanDuty ==
    ASSUME NEW p \in Proc, RouteFoundation(p), TypeOK',
           \/ RouteBegin(p) \/ RouteVerify(p) \/ RouteCopy(p) \/ RouteRecord(p)
           \/ RouteValidate(p) \/ RouteReverify(p) \/ RouteExcept(p) \/ RouteFinally(p)
    PROVE  PlanDuty(p)' /\ SelectDuty(p)' /\ EndDuty(p)' /\ RecoverDuty(p)'
<1>types. /\ pc \in [Proc -> Step] /\ held \in [Proc -> SUBSET Garden]
          /\ todo \in [Proc -> SUBSET Garden] /\ mem \in [Proc -> Journal]
          /\ ctx \in [Proc -> {"commit", "except", "cli"}]
          /\ ret \in [Proc -> {"none", "applied", "unchanged"}]
          /\ stage \in [Proc -> [Garden -> Tree]]
          /\ bindings \in Nat
  BY DEF TypeOK, RouteFoundation
<1>facts. /\ PlanOf[p] \in Route /\ PlanOf[p] # Free /\ PlanOf[p] # Blank /\ Free # Blank
          /\ Targets[PlanOf[p]] \subseteq Garden /\ Targets[PlanOf[p]] # {}
          /\ mem[p] \in Journal /\ todo[p] \subseteq Garden
          /\ Kind[p] = "route"
  BY RouteFacts DEF RouteFoundation
<1>duty. PlanDuty(p) /\ SelectDuty(p) /\ EndDuty(p)
  BY DEF RouteFoundation
<1>. USE <1>types, <1>facts DEF Goto
<1>1. CASE RouteBegin(p)
  <2>1. /\ pc[p] = "idle" /\ held' = held /\ pc'[p] \in {"done", "lock"}
        /\ pc'[p] = "lock" => /\ mem'[p] = NewJournal(p, bindings)
                              /\ todo'[p] = Targets[PlanOf[p]]
                              /\ journal'[PlanOf[p]].state = "none" /\ bindings' = bindings
    BY <1>1 DEF RouteBegin, files
  <2>2. PlanDuty(p)'
    BY <1>duty, <2>1, NoEntries DEF PlanDuty, EndDuty, Planning, Recorded, NewJournal
  <2>3. SelectDuty(p)' /\ EndDuty(p)' /\ RecoverDuty(p)'
    BY <1>duty, <2>1 DEF SelectDuty, Selects, EndDuty, RecoverDuty, RecoverSteps
  <2>. QED BY <2>2, <2>3
<1>2. CASE RouteVerify(p)
  <2>1. /\ pc[p] = "verify" /\ held' = held /\ pc'[p] \in {"copy", "except", "finally"}
        /\ pc'[p] = "copy" => todo'[p] = Targets[PlanOf[p]]
        /\ mem' = mem /\ UNCHANGED files
    BY <1>2 DEF RouteVerify
  <2>2. PlanDuty(p)'
    BY <1>duty, <2>1 DEF PlanDuty, Planning, Recorded, InPlace, files
  <2>3. EndDuty(p)'
    BY <1>duty, <2>1 DEF EndDuty, PlanDuty, Planning, InPlace, files, RecoverSteps
  <2>4. SelectDuty(p)' /\ RecoverDuty(p)'
    BY <2>1 DEF SelectDuty, Selects, RecoverDuty, RecoverSteps
  <2>. QED BY <2>2, <2>3, <2>4
<1>3. CASE RouteCopy(p)
  <2>. DEFINE g == First(todo[p])
  <2>1. /\ pc[p] = "copy" /\ held' = held /\ pc'[p] \in {"record", "except"}
        /\ todo' = todo /\ mem' = mem /\ UNCHANGED <<canonical, lock, journal, backup, bindings, edits>>
        /\ pc'[p] = "record" => stage' = [stage EXCEPT ![p][g] = canonical[g] \cup {PlanOf[p]}]
    BY <1>3 DEF RouteCopy, budget
  <2>2. todo[p] # {} /\ Entries(mem[p]) = Targets[PlanOf[p]] \ todo[p]
    BY <1>duty, <2>1 DEF PlanDuty, Planning
  <2>3. g \in todo[p] /\ g \in Garden
    BY <2>2, FirstMember
  <2>. HIDE DEF g
  <2>4. ASSUME pc'[p] = "record" PROVE Recorded(p)'
    BY <1>duty, <2>1, <2>2, <2>3, <2>4 DEF PlanDuty, Planning, Recorded, Entries, Calm
  <2>5. ASSUME pc'[p] = "record" PROVE PlanOf[p] \in stage'[p][First(todo'[p])]
    BY <2>1, <2>3, <2>5 DEF g
  <2>6. PlanDuty(p)'
    BY <1>duty, <2>1, <2>4, <2>5 DEF PlanDuty, Planning, InPlace, Entries
  <2>7. EndDuty(p)'
    BY <1>duty, <2>1 DEF EndDuty, PlanDuty, Planning, InPlace, RecoverSteps
  <2>8. SelectDuty(p)' /\ RecoverDuty(p)'
    BY <2>1 DEF SelectDuty, Selects, RecoverDuty, RecoverSteps
  <2>. QED BY <2>6, <2>7, <2>8
<1>4. CASE RouteRecord(p)
  <2>. DEFINE g == First(todo[p])
  <2>1. /\ pc[p] = "record" /\ held' = held /\ UNCHANGED files /\ edits' = edits
        /\ pc'[p] \in {"validate", "copy", "except"}
    BY <1>4 DEF RouteRecord, budget
  <2>2. todo[p] # {} /\ Entries(mem[p]) = Targets[PlanOf[p]] \ todo[p]
    BY <1>duty, <2>1 DEF PlanDuty, Planning
  <2>3. g \in todo[p] /\ g \in Garden
    BY <2>2, FirstMember
  <2>4. ASSUME pc'[p] # "except"
        PROVE  /\ canonical[g] # Missing
               /\ mem'[p] = [mem[p] EXCEPT !.before[g] = canonical[g], !.after[g] = stage[p][g]]
               /\ todo'[p] = todo[p] \ {g}
               /\ pc'[p] = IF todo[p] = {g} THEN "validate" ELSE "copy"
    BY <1>4, <2>4 DEF RouteRecord
  <2>. HIDE DEF g
  <2>5. ASSUME pc'[p] # "except" PROVE Entries(mem[p])' = Entries(mem[p]) \cup {g}
    <3>. DEFINE k == [mem[p] EXCEPT !.before[g] = canonical[g], !.after[g] = stage[p][g]]
    <3>1. Entries(k) = Entries(mem[p]) \cup {g}
      BY <2>3, <2>4, <2>5 DEF Entries, Journal
    <3>2. mem'[p] = k
      BY <2>4, <2>5
    <3>. HIDE DEF k
    <3>. QED BY <3>1, <3>2
  <2>6. ASSUME pc'[p] # "except" PROVE Recorded(p)'
    <3>1. PlanOf[p] \in stage[p][g]
      BY <1>duty, <2>1 DEF PlanDuty, Planning, g
    <3>2. /\ mem'[p].before = [mem[p].before EXCEPT ![g] = canonical[g]]
          /\ mem'[p].after = [mem[p].after EXCEPT ![g] = stage[p][g]]
      BY <2>4, <2>6 DEF Journal
    <3>3. mem[p].before \in [Garden -> Tree] /\ mem[p].after \in [Garden -> Tree]
      BY DEF Journal
    <3>4. Recorded(p)
      BY <1>duty, <2>1 DEF PlanDuty, Planning
    <3>5. Entries(mem[p]) \subseteq Garden
      BY EntriesInGarden
    <3>. QED BY <2>1, <2>3, <2>5, <2>6, <3>1, <3>2, <3>3, <3>4, <3>5 DEF Recorded, Calm, files
  <2>7. PlanDuty(p)'
    <3>1. CASE pc'[p] = "except"
      BY <3>1 DEF PlanDuty, Planning
    <3>2. CASE pc'[p] # "except"
      <4>1. mem'[p].by = mem[p].by /\ mem'[p].bindings = mem[p].bindings
        BY <2>4, <3>2 DEF Journal
      <4>2. pc'[p] = "copy" => todo'[p] # {} /\ Entries(mem[p])' = Targets[PlanOf[p]] \ todo'[p]
        BY <1>duty, <2>1, <2>2, <2>3, <2>4, <2>5, <3>2 DEF PlanDuty, Planning
      <4>3. pc'[p] = "validate" => Entries(mem[p])' = Targets[PlanOf[p]]
        BY <1>duty, <2>1, <2>2, <2>3, <2>4, <2>5, <3>2 DEF PlanDuty, Planning
      <4>. QED BY <1>duty, <2>1, <2>4, <2>6, <3>2, <4>1, <4>2, <4>3 DEF PlanDuty, Planning, InPlace, files
    <3>. QED BY <3>1, <3>2
  <2>8. EndDuty(p)'
    BY <1>duty, <2>1 DEF EndDuty, PlanDuty, Planning, InPlace, RecoverSteps, files
  <2>9. SelectDuty(p)' /\ RecoverDuty(p)'
    BY <2>1 DEF SelectDuty, Selects, RecoverDuty, RecoverSteps
  <2>. QED BY <2>7, <2>8, <2>9
<1>5. CASE RouteValidate(p) \/ RouteReverify(p)
  <2>1. /\ pc[p] \in {"validate", "reverify"} /\ held' = held /\ mem' = mem
        /\ UNCHANGED files /\ edits' = edits
        /\ pc'[p] \in {"reverify", "prepare", "except"}
    BY <1>5 DEF RouteValidate, RouteReverify, budget
  <2>2. PlanDuty(p)'
    BY <1>duty, <2>1 DEF PlanDuty, Planning, Recorded, InPlace, Calm, files
  <2>3. EndDuty(p)'
    BY <1>duty, <2>1 DEF EndDuty, PlanDuty, Planning, InPlace, files, RecoverSteps
  <2>4. SelectDuty(p)' /\ RecoverDuty(p)'
    BY <2>1 DEF SelectDuty, Selects, RecoverDuty, RecoverSteps
  <2>. QED BY <2>2, <2>3, <2>4
<1>6. CASE RouteExcept(p)
  <2>1. /\ pc[p] = "except" /\ held' = held /\ UNCHANGED files
        /\ ctx'[p] = "except"
        /\ pc'[p] = IF journal[PlanOf[p]].state # "none" THEN "check" ELSE "finally"
    BY <1>6 DEF RouteExcept
  <2>2. EndDuty(p)'
    BY <1>duty, <2>1 DEF EndDuty, InPlace, files, RecoverSteps
  <2>3. PlanDuty(p)' /\ SelectDuty(p)' /\ RecoverDuty(p)'
    BY <2>1 DEF PlanDuty, Planning, SelectDuty, Selects, RecoverDuty, RecoverSteps
  <2>. QED BY <2>2, <2>3
<1>7. CASE RouteFinally(p)
  <2>1. /\ pc[p] = "finally"
        /\ UNCHANGED <<canonical, lock, journal, backup>>
        /\ pc'[p] = IF journal[PlanOf[p]].state # "none" THEN "done" ELSE "release"
        /\ held'[p] = {} \/ (held' = held /\ pc'[p] = "release")
    BY <1>7 DEF RouteFinally
  <2>2. EndDuty(p)'
    BY <1>duty, <2>1 DEF EndDuty, InPlace, RecoverSteps
  <2>3. PlanDuty(p)' /\ SelectDuty(p)' /\ RecoverDuty(p)'
    BY <2>1 DEF PlanDuty, Planning, SelectDuty, Selects, RecoverDuty, RecoverSteps
  <2>. QED BY <2>2, <2>3
<1>. QED  BY <1>1, <1>2, <1>3, <1>4, <1>5, <1>6, <1>7

\* Reading steps of a routing apply.
LEMMA SerialPlan ==
    ASSUME MaxLive <= 1, SerialInv, TypeInv', NEW p \in Proc, Work(p), Kind[p] = "route",
           \/ RouteBegin(p) \/ RouteVerify(p) \/ RouteCopy(p) \/ RouteRecord(p)
           \/ RouteValidate(p) \/ RouteReverify(p) \/ RouteExcept(p) \/ RouteFinally(p)
    PROVE  SerialInv'
<1>1. QuietStep(p)
  BY RoutePlanQuiet DEF SerialInv, TypeInv
<1>2. Duty(p)'
  BY RouteFounded, RoutePlanDuty DEF TypeInv, Duty
<1>. QED BY <1>1, <1>2, QuietKeeps

\* Taking the next lock.
LEMMA SerialLock ==
    ASSUME MaxLive <= 1, SerialInv, TypeInv', NEW p \in Proc, Work(p), Kind[p] = "route",
           RouteLock(p)
    PROVE  SerialInv'
<1>types. /\ pc \in [Proc -> Step] /\ held \in [Proc -> SUBSET Garden]
          /\ todo \in [Proc -> SUBSET Garden] /\ mem \in [Proc -> Journal]
          /\ lock \in [Garden -> Plan \cup {Free, Blank}]
  BY DEF SerialInv, TypeInv, TypeOK
<1>facts. /\ PlanOf[p] \in Route /\ PlanOf[p] # Free /\ PlanOf[p] # Blank /\ Free # Blank
          /\ Targets[PlanOf[p]] \subseteq Garden
  BY RouteFacts DEF SerialInv, TypeInv
<1>duty. PlanDuty(p) /\ EndDuty(p) /\ FreeInPlace /\ JournalSound(PlanOf[p])
  BY RouteFounded DEF RouteFoundation
<1>0. pc[p] = "lock" /\ todo[p] # {}
  BY DEF RouteLock, SerialInv, TypeInv, Looping
<1>g. PICK g \in todo[p] : g = First(todo[p])
  BY <1>types, <1>0, FirstMember
<1>1. pc[p] = "lock" /\ todo[p] # {} /\ g \in todo[p] /\ g \in Garden
  BY <1>types, <1>0
<1>2. /\ UNCHANGED <<canonical, journal, stage, backup, bindings, mem, ret, edits>>
      /\ \/ /\ lock[g] = Free /\ lock' = [lock EXCEPT ![g] = PlanOf[p]]
            /\ held' = [held EXCEPT ![p] = @ \cup {g}] /\ todo' = [todo EXCEPT ![p] = @ \ {g}]
            /\ pc' = [pc EXCEPT ![p] = IF todo[p] = {g} THEN "verify" ELSE "lock"]
         \/ /\ lock[g] # Free /\ UNCHANGED <<lock, held, todo>>
            /\ pc' = [pc EXCEPT ![p] = "except"]
  BY <1>g DEF RouteLock, budget, Goto
<1>3. LocalStep(p, g)
  BY <1>types, <1>1, <1>2 DEF LocalStep, Still, OthersWait
<1>4. \/ Still(g)
      \/ /\ lock[g] \in OwnLock(p) /\ lock'[g] \in OwnLock(p)
         /\ lock'[g] \in {Free, Blank} => InPlace(g)'
  BY <1>types, <1>facts, <1>1, <1>2 DEF Still, OwnLock
<1>5. JournalSound(PlanOf[p])'
  <2>1. journal'[PlanOf[p]].state = "none"
    BY <1>duty, <1>1, <1>2 DEF PlanDuty, Planning
  <2>. QED BY <2>1 DEF JournalSound
<1>6. PlanDuty(p)'
  <2>1. lock[g] = Free => InPlace(g)
    BY <1>duty, <1>1 DEF FreeInPlace
  <2>2. Entries(mem[p]) = {}
    BY <1>duty, <1>1 DEF PlanDuty, Planning
  <2>3. Entries(mem[p])' = {}
    BY <1>2, <2>2 DEF Entries
  <2>4. Recorded(p)'
    BY <2>3 DEF Recorded
  <2>5. CASE lock[g] = Free
    <3>1. /\ lock' = [lock EXCEPT ![g] = PlanOf[p]]
          /\ held'[p] = held[p] \cup {g} /\ todo'[p] = todo[p] \ {g}
          /\ pc'[p] = IF todo[p] = {g} THEN "verify" ELSE "lock"
      BY <1>types, <1>2, <2>5
    <3>2. /\ \A h \in held[p] : lock[h] = PlanOf[p] /\ InPlace(h)
          /\ Targets[PlanOf[p]] = held[p] \cup todo[p]
          /\ journal[PlanOf[p]].state = "none" /\ mem[p].by = p /\ mem[p].bindings <= bindings
      BY <1>duty, <1>1 DEF PlanDuty, Planning
    <3>3. \A h \in held'[p] : lock'[h] = PlanOf[p] /\ InPlace(h)'
      BY <1>types, <1>1, <1>2, <2>1, <2>5, <3>1, <3>2 DEF InPlace
    <3>4. IF pc'[p] = "lock" THEN Targets[PlanOf[p]] = held'[p] \cup todo'[p]
          ELSE held'[p] = Targets[PlanOf[p]]
      BY <1>1, <3>1, <3>2
    <3>. QED BY <1>1, <1>2, <2>3, <2>4, <3>1, <3>2, <3>3, <3>4 DEF PlanDuty, Planning
  <2>6. CASE lock[g] # Free
    BY <1>types, <1>2, <2>6 DEF PlanDuty, Planning
  <2>. QED BY <2>5, <2>6
<1>7. EndDuty(p)'
  BY <1>types, <1>duty, <1>1, <1>2 DEF EndDuty, PlanDuty, Planning, InPlace, RecoverSteps
<1>8. SelectDuty(p)' /\ RecoverDuty(p)'
  BY <1>types, <1>2 DEF SelectDuty, Selects, RecoverDuty, RecoverSteps
<1>9. Duty(p)'
  BY <1>6, <1>7, <1>8 DEF Duty
<1>. QED BY <1>1, <1>3, <1>4, <1>5, <1>9, StepKeeps

\* The journal file holds the rewritten document.
LEMMA Written ==
    ASSUME TypeOK, NEW p \in Proc, NEW s \in JournalState, WriteJournal(p, s),
           PlanOf[p] \in Route
    PROVE  /\ mem'[p] \in Journal
           /\ journal'[PlanOf[p]] = mem'[p] /\ mem'[p].state = s
           /\ mem'[p].by = mem[p].by /\ mem'[p].bindings = mem[p].bindings
           /\ mem'[p].before = mem[p].before /\ mem'[p].after = mem[p].after
           /\ Entries(mem[p])' = Entries(mem[p])
           /\ \A d \in Route : d # PlanOf[p] => journal'[d] = journal[d]
           /\ \A q \in Proc : q # p => mem'[q] = mem[q]
<1>1. mem \in [Proc -> Journal] /\ journal \in [Route -> Journal]
  BY DEF TypeOK
<1>2. mem'[p] = [mem[p] EXCEPT !.state = s] /\ journal'[PlanOf[p]] = [mem[p] EXCEPT !.state = s]
  BY <1>1 DEF WriteJournal
<1>3. /\ mem'[p].state = s /\ mem'[p].by = mem[p].by /\ mem'[p].bindings = mem[p].bindings
      /\ mem'[p].before = mem[p].before /\ mem'[p].after = mem[p].after
      /\ mem'[p] \in Journal
  BY <1>1, <1>2 DEF Journal
<1>4. Entries(mem[p])' = Entries(mem[p])
  BY <1>3 DEF Entries
<1>5. /\ \A d \in Route : d # PlanOf[p] => journal'[d] = journal[d]
      /\ \A q \in Proc : q # p => mem'[q] = mem[q]
  BY <1>1 DEF WriteJournal
<1>. QED BY <1>2, <1>3, <1>4, <1>5

-----------------------------------------------------------------------------
(***************************************************************************)
(* Routing applies: writing the journal and selecting the stages.          *)
(***************************************************************************)
\* Writing the journal: every target is in place as it was recorded.
LEMMA SerialPrepare ==
    ASSUME MaxLive <= 1, SerialInv, TypeInv', NEW p \in Proc, Work(p), Kind[p] = "route",
           RoutePrepare(p)
    PROVE  SerialInv'
<1>. DEFINE d == PlanOf[p]
            T == Targets[PlanOf[p]]
<1>types. /\ pc \in [Proc -> Step] /\ TypeOK /\ bindings \in Nat
  BY DEF SerialInv, TypeInv, TypeOK
<1>facts. d \in Route /\ d # Free /\ d # Blank /\ Free # Blank /\ T \subseteq Garden
  BY RouteFacts DEF SerialInv, TypeInv
<1>duty. PlanDuty(p) /\ EndDuty(p)
  BY RouteFounded DEF RouteFoundation
<1>1. /\ pc[p] = "prepare" /\ pc' = [pc EXCEPT ![p] = "selecting"]
      /\ WriteJournal(p, "prepared")
      /\ UNCHANGED <<canonical, lock, stage, backup, bindings, held, ctx, ret, edits>>
  BY DEF RoutePrepare, budget, Goto
<1>2. /\ journal'[d] = mem'[p] /\ mem'[p].state = "prepared"
      /\ mem'[p].by = mem[p].by /\ mem'[p].bindings = mem[p].bindings
      /\ mem'[p].before = mem[p].before /\ mem'[p].after = mem[p].after
      /\ Entries(mem[p])' = Entries(mem[p])
      /\ \A e \in Route : e # d => journal'[e] = journal[e]
  BY <1>1, <1>types, <1>facts, Written DEF JournalState
<1>3. PICK g \in Garden : TRUE
  BY StoreAssumption DEF Garden
<1>4. LocalStep(p, g) /\ Still(g)
  BY <1>types, <1>1, <1>2 DEF LocalStep, Still, OthersWait
<1>5. /\ mem[p].by = p /\ mem[p].bindings <= bindings /\ held[p] = T /\ Recorded(p)
      /\ \A h \in T : lock[h] = d /\ InPlace(h)
      /\ Entries(mem[p]) = T
  BY <1>duty, <1>1 DEF PlanDuty, Planning
<1>6. JournalSound(d)'
  <2>1. ASSUME NEW h \in T PROVE LockedSound(d, h)'
    BY <1>1, <1>2, <1>5, <2>1 DEF LockedSound, OnlyBackup, InPlace, Finished
  <2>2. ASSUME NEW h \in T PROVE OriginalSound(d, h)'
    <3>1. /\ lock'[h] = d /\ backup'[p][h] = Missing
          /\ mem'[p].before[h] \subseteq canonical'[h]
          /\ Calm => canonical'[h] = mem'[p].before[h]
      BY <1>1, <1>2, <1>5, <2>2 DEF InPlace, Recorded
    <3>2. Sure(d)' => Calm
      BY <1>1 DEF Sure, Calm
    <3>3. Sure(d)' => KnownTrees(d, h)'
      BY <1>2, <1>5, <3>1, <3>2 DEF KnownTrees
    <3>. QED BY <1>2, <1>5, <3>1, <3>3 DEF OriginalSound
  <2>3. Entries(journal[d])' = T
    <3>1. Entries(journal[d])' = Entries(mem[p])'
      BY <1>2 DEF Entries
    <3>. QED BY <3>1, <1>2, <1>5
  <2>. QED BY <1>1, <1>2, <1>5, <2>1, <2>2, <2>3 DEF JournalSound
<1>7. SelectDuty(p)'
  BY <1>types, <1>1, <1>2, <1>5 DEF SelectDuty, Selects, Recorded, InPlace
<1>8. EndDuty(p)'
  BY <1>types, <1>duty, <1>1 DEF EndDuty, RecoverSteps
<1>9. PlanDuty(p)' /\ RecoverDuty(p)'
  BY <1>types, <1>1 DEF PlanDuty, Planning, RecoverDuty, RecoverSteps
<1>10. Duty(p)'
  BY <1>7, <1>8, <1>9 DEF Duty
<1>. QED BY <1>4, <1>6, <1>10, StepKeeps

\* Announcing the selection.
LEMMA SerialSelecting ==
    ASSUME MaxLive <= 1, SerialInv, TypeInv', NEW p \in Proc, Work(p), Kind[p] = "route",
           RouteSelecting(p)
    PROVE  SerialInv'
<1>. DEFINE d == PlanOf[p]
            T == Targets[PlanOf[p]]
<1>types. /\ pc \in [Proc -> Step] /\ TypeOK /\ todo \in [Proc -> SUBSET Garden]
  BY DEF SerialInv, TypeInv, TypeOK
<1>facts. d \in Route /\ T \subseteq Garden /\ T # {}
  BY RouteFacts DEF SerialInv, TypeInv
<1>duty. SelectDuty(p) /\ EndDuty(p) /\ JournalSound(d)
  BY RouteFounded DEF RouteFoundation
<1>1. /\ pc[p] = "selecting" /\ pc' = [pc EXCEPT ![p] = "retire"]
      /\ WriteJournal(p, "selecting") /\ todo'[p] = Entries(mem[p])
      /\ UNCHANGED <<canonical, lock, stage, backup, bindings, held, ctx, ret, edits>>
  BY <1>types DEF RouteSelecting, budget, Goto
<1>2. /\ journal'[d] = mem'[p] /\ mem'[p].state = "selecting"
      /\ mem'[p].by = mem[p].by /\ mem'[p].bindings = mem[p].bindings
      /\ mem'[p].before = mem[p].before /\ mem'[p].after = mem[p].after
      /\ Entries(mem[p])' = Entries(mem[p])
      /\ \A e \in Route : e # d => journal'[e] = journal[e]
  BY <1>1, <1>types, <1>facts, Written DEF JournalState
<1>3. PICK g \in Garden : TRUE
  BY StoreAssumption DEF Garden
<1>4. LocalStep(p, g) /\ Still(g)
  BY <1>types, <1>1, <1>2 DEF LocalStep, Still, OthersWait
<1>5. /\ journal[d] = mem[p] /\ mem[p].by = p /\ mem[p].state = "prepared"
      /\ \A h \in T : stage[p][h] = mem[p].after[h] /\ PlanOf[p] \in mem[p].after[h]
      /\ \A h \in T : backup[p][h] = Missing
  BY <1>duty, <1>1 DEF SelectDuty, Selects
<1>6. /\ Kind[p] = "route" /\ Entries(mem[p]) = T /\ mem[p].bindings <= bindings
      /\ \A h \in T : LockedSound(d, h) /\ OriginalSound(d, h)
  BY <1>duty, <1>5 DEF JournalSound, Unfinished
<1>7. JournalSound(d)'
  <2>1. Sure(d)' => Sure(d)
    BY <1>1 DEF Sure, Selects
  <2>2. ASSUME NEW h \in T PROVE LockedSound(d, h)'
    BY <1>1, <1>2, <1>5, <1>6, <2>2 DEF LockedSound, OnlyBackup, Finished
  <2>3. ASSUME NEW h \in T PROVE OriginalSound(d, h)'
    BY <1>1, <1>2, <1>5, <1>6, <2>1, <2>3 DEF OriginalSound, KnownTrees
  <2>4. Entries(journal[d])' = T
    <3>1. Entries(journal[d])' = Entries(mem[p])'
      BY <1>2 DEF Entries
    <3>. QED BY <3>1, <1>2, <1>6
  <2>. QED BY <1>1, <1>2, <1>5, <1>6, <2>2, <2>3, <2>4 DEF JournalSound
<1>8. SelectDuty(p)'
  BY <1>types, <1>facts, <1>1, <1>2, <1>5, <1>6 DEF SelectDuty, Selects
<1>9. EndDuty(p)'
  BY <1>types, <1>duty, <1>1 DEF EndDuty, RecoverSteps
<1>10. PlanDuty(p)' /\ RecoverDuty(p)'
  BY <1>types, <1>1 DEF PlanDuty, Planning, RecoverDuty, RecoverSteps
<1>11. Duty(p)'
  BY <1>8, <1>9, <1>10 DEF Duty
<1>. QED BY <1>4, <1>7, <1>11, StepKeeps

\* Moving the tree in place to the backup.
LEMMA SerialRetire ==
    ASSUME MaxLive <= 1, SerialInv, TypeInv', NEW p \in Proc, Work(p), Kind[p] = "route",
           RouteRetire(p)
    PROVE  SerialInv'
<1>. DEFINE d == PlanOf[p]
            T == Targets[PlanOf[p]]
<1>types. /\ pc \in [Proc -> Step] /\ TypeOK /\ todo \in [Proc -> SUBSET Garden]
          /\ canonical \in [Garden -> Tree] /\ backup \in [Proc -> [Garden -> Tree]]
  BY DEF SerialInv, TypeInv, TypeOK
<1>facts. d \in Route /\ d # Free /\ d # Blank /\ T \subseteq Garden
  BY RouteFacts DEF SerialInv, TypeInv
<1>duty. SelectDuty(p) /\ EndDuty(p) /\ JournalSound(d)
  BY RouteFounded DEF RouteFoundation
<1>0. /\ pc[p] = "retire" /\ journal[d] = mem[p] /\ mem[p].by = p /\ mem[p].state = "selecting"
      /\ todo[p] # {} /\ todo[p] \subseteq T
      /\ \A h \in todo[p] : /\ stage[p][h] = mem[p].after[h] /\ PlanOf[p] \in mem[p].after[h]
                             /\ backup[p][h] = Missing
      /\ \A h \in T \ todo[p] : canonical[h] # Missing /\ (Calm => canonical[h] = mem[p].after[h])
  <2>1. pc[p] = "retire"
    BY DEF RouteRetire
  <2>. QED BY <1>duty, <2>1 DEF SelectDuty, Selects
<1>g. PICK g \in todo[p] : g = First(todo[p])
  BY <1>types, <1>0, FirstMember
<1>1. /\ g \in T /\ g \in Garden
      /\ Entries(mem[p]) = T
      /\ mem[p].before[g] # Missing
      /\ \A h \in T : LockedSound(d, h) /\ OriginalSound(d, h)
  <2>1. Entries(mem[p]) = T /\ \A h \in T : LockedSound(d, h) /\ OriginalSound(d, h)
    BY <1>duty, <1>0 DEF JournalSound, Unfinished
  <2>. QED BY <1>0, <1>facts, <2>1 DEF Entries
<1>2. canonical[g] # Missing /\ lock[g] = d /\ mem[p].before[g] \subseteq canonical[g]
  BY <1>0, <1>1 DEF OriginalSound, Missing
<1>3. /\ backup' = [backup EXCEPT ![p][g] = canonical[g]]
      /\ canonical' = [canonical EXCEPT ![g] = Missing]
      /\ pc' = [pc EXCEPT ![p] = "select"]
      /\ UNCHANGED <<lock, journal, stage, bindings, todo, held, mem, ctx, ret, edits>>
  BY <1>g, <1>2 DEF RouteRetire, budget, Goto
<1>4. LocalStep(p, g)
  BY <1>types, <1>1, <1>3 DEF LocalStep, Still, OthersWait
<1>5. lock[g] \in OwnLock(p) /\ lock'[g] \in OwnLock(p) /\ lock'[g] \notin {Free, Blank}
  BY <1>facts, <1>2, <1>3 DEF OwnLock
<1>6. JournalSound(d)'
  <2>1. Sure(d)' => Sure(d)
    BY <1>types, <1>0, <1>3 DEF Sure, Selects
  <2>2. ASSUME NEW h \in T PROVE LockedSound(d, h)'
    <3>1. OnlyBackup(p, h)' /\ lock[h] = d
      BY <1>types, <1>facts, <1>0, <1>1, <1>3, <2>2 DEF LockedSound, OriginalSound, OnlyBackup
    <3>. QED BY <1>0, <1>3, <3>1 DEF LockedSound, Finished
  <2>3. ASSUME NEW h \in T PROVE OriginalSound(d, h)'
    <3>1. CASE h = g
      <4>1. /\ backup'[p][h] = canonical[g] /\ canonical'[h] = Missing /\ backup[p][h] = Missing
        BY <1>types, <1>0, <1>1, <1>3, <3>1
      <4>2. OriginalSound(d, h)
        BY <1>1
      <4>. QED BY <1>0, <1>1, <1>2, <1>3, <2>1, <3>1, <4>1, <4>2 DEF OriginalSound, KnownTrees
    <3>2. CASE h # g
      <4>1. backup'[p][h] = backup[p][h] /\ canonical'[h] = canonical[h]
        BY <1>types, <1>facts, <1>3, <3>2
      <4>2. OriginalSound(d, h)
        BY <1>1
      <4>. QED BY <1>0, <1>3, <2>1, <4>1, <4>2 DEF OriginalSound, KnownTrees
    <3>. QED BY <3>1, <3>2
  <2>. QED BY <1>duty, <1>0, <1>3, <2>2, <2>3 DEF JournalSound, Entries
<1>7. SelectDuty(p)'
  <2>1. /\ pc'[p] = "select" /\ canonical'[g] = Missing /\ backup'[p][g] # Missing
        /\ \A h \in Garden : h # g => canonical'[h] = canonical[h] /\ backup'[p][h] = backup[p][h]
        /\ First(todo[p])' = g
    BY <1>types, <1>g, <1>1, <1>2, <1>3
  <2>. QED BY <1>types, <1>facts, <1>0, <1>3, <2>1 DEF SelectDuty, Selects, Calm
<1>8. EndDuty(p)' /\ PlanDuty(p)' /\ RecoverDuty(p)'
  BY <1>types, <1>duty, <1>3 DEF EndDuty, PlanDuty, Planning, RecoverDuty, RecoverSteps
<1>9. Duty(p)'
  BY <1>7, <1>8 DEF Duty
<1>. QED BY <1>1, <1>4, <1>5, <1>6, <1>9, StepKeeps

\* Moving the stage in place.
LEMMA SerialSelect ==
    ASSUME MaxLive <= 1, SerialInv, TypeInv', NEW p \in Proc, Work(p), Kind[p] = "route",
           RouteSelect(p)
    PROVE  SerialInv'
<1>. DEFINE d == PlanOf[p]
            T == Targets[PlanOf[p]]
<1>types. /\ pc \in [Proc -> Step] /\ TypeOK /\ todo \in [Proc -> SUBSET Garden]
          /\ canonical \in [Garden -> Tree] /\ stage \in [Proc -> [Garden -> Tree]]
  BY DEF SerialInv, TypeInv, TypeOK
<1>facts. d \in Route /\ d # Free /\ d # Blank /\ T \subseteq Garden
  BY RouteFacts DEF SerialInv, TypeInv
<1>duty. SelectDuty(p) /\ EndDuty(p) /\ JournalSound(d)
  BY RouteFounded DEF RouteFoundation
<1>0. /\ pc[p] = "select" /\ journal[d] = mem[p] /\ mem[p].by = p /\ mem[p].state = "selecting"
      /\ todo[p] # {} /\ todo[p] \subseteq T
      /\ \A h \in todo[p] : stage[p][h] = mem[p].after[h] /\ PlanOf[p] \in mem[p].after[h]
      /\ \A h \in todo[p] : h # First(todo[p]) => backup[p][h] = Missing
      /\ \A h \in T \ todo[p] : canonical[h] # Missing /\ (Calm => canonical[h] = mem[p].after[h])
      /\ canonical[First(todo[p])] = Missing /\ backup[p][First(todo[p])] # Missing
  <2>1. pc[p] = "select"
    BY DEF RouteSelect
  <2>. QED BY <1>duty, <2>1 DEF SelectDuty, Selects
<1>g. PICK g \in todo[p] : g = First(todo[p])
  BY <1>types, <1>0, FirstMember
<1>1. /\ g \in T /\ g \in Garden
      /\ \A h \in T : LockedSound(d, h) /\ OriginalSound(d, h)
  BY <1>facts, <1>duty, <1>0 DEF JournalSound, Unfinished
<1>2. /\ canonical[g] = Missing /\ backup[p][g] # Missing /\ lock[g] = d
      /\ stage[p][g] = mem[p].after[g] /\ stage[p][g] # Missing
  BY <1>g, <1>0, <1>1 DEF OriginalSound, Missing
<1>3. /\ stage' = [stage EXCEPT ![p][g] = Missing]
      /\ canonical' = [canonical EXCEPT ![g] = stage[p][g]]
      /\ pc' = [pc EXCEPT ![p] = IF todo[p] = {g} THEN "commit" ELSE "retire"]
      /\ todo' = [todo EXCEPT ![p] = @ \ {g}]
      /\ UNCHANGED <<lock, journal, backup, bindings, held, mem, ctx, ret, edits>>
  BY <1>g, <1>2 DEF RouteSelect, budget, Goto
<1>4. LocalStep(p, g)
  BY <1>types, <1>1, <1>3 DEF LocalStep, Still, OthersWait
<1>5. lock[g] \in OwnLock(p) /\ lock'[g] \in OwnLock(p) /\ lock'[g] \notin {Free, Blank}
  BY <1>facts, <1>2, <1>3 DEF OwnLock
<1>6. JournalSound(d)'
  <2>1. Sure(d)' => Sure(d)
    BY <1>types, <1>0, <1>3 DEF Sure, Selects
  <2>2. ASSUME NEW h \in T PROVE LockedSound(d, h)'
    BY <1>0, <1>1, <1>3, <2>2 DEF LockedSound, OnlyBackup, Finished
  <2>3. ASSUME NEW h \in T PROVE OriginalSound(d, h)'
    <3>1. CASE h = g
      <4>1. canonical'[h] = mem[p].after[h]
        BY <1>types, <1>1, <1>2, <1>3, <3>1
      <4>2. OriginalSound(d, h)
        BY <1>1
      <4>. QED BY <1>0, <1>2, <1>3, <2>1, <3>1, <4>1, <4>2 DEF OriginalSound, KnownTrees
    <3>2. CASE h # g
      <4>1. canonical'[h] = canonical[h]
        BY <1>types, <1>facts, <1>3, <3>2
      <4>2. OriginalSound(d, h)
        BY <1>1
      <4>. QED BY <1>0, <1>3, <2>1, <4>1, <4>2 DEF OriginalSound, KnownTrees
    <3>. QED BY <3>1, <3>2
  <2>. QED BY <1>duty, <1>0, <1>3, <2>2, <2>3 DEF JournalSound, Entries
<1>7. SelectDuty(p)'
  <2>1. /\ canonical'[g] = mem[p].after[g] /\ canonical'[g] # Missing
        /\ \A h \in Garden : h # g => canonical'[h] = canonical[h] /\ stage'[p][h] = stage[p][h]
        /\ todo'[p] = todo[p] \ {g}
        /\ pc'[p] = IF todo[p] = {g} THEN "commit" ELSE "retire"
    BY <1>types, <1>1, <1>2, <1>3
  <2>2. \A h \in T \ todo'[p] : canonical'[h] # Missing /\ (Calm' => canonical'[h] = mem[p].after[h])
    BY <1>facts, <1>0, <1>3, <2>1 DEF Calm
  <2>3. \A h \in todo'[p] : /\ stage'[p][h] = mem[p].after[h] /\ PlanOf[p] \in mem[p].after[h]
                            /\ backup'[p][h] = Missing
    <3>. SUFFICES ASSUME NEW h \in todo[p], h # g
                  PROVE  /\ stage'[p][h] = mem[p].after[h] /\ PlanOf[p] \in mem[p].after[h]
                         /\ backup'[p][h] = Missing
      BY <2>1
    <3>1. stage'[p][h] = stage[p][h] /\ backup' = backup
      BY <1>facts, <1>0, <1>3, <2>1
    <3>2. h # First(todo[p])
      BY <1>g
    <3>3. /\ stage[p][h] = mem[p].after[h] /\ PlanOf[p] \in mem[p].after[h]
          /\ backup[p][h] = Missing
      BY <1>0, <3>2
    <3>. QED BY <3>1, <3>3
  <2>. QED BY <1>facts, <1>0, <1>3, <2>1, <2>2, <2>3 DEF SelectDuty, Selects
<1>8. EndDuty(p)' /\ PlanDuty(p)' /\ RecoverDuty(p)'
  BY <1>types, <1>duty, <1>3 DEF EndDuty, PlanDuty, Planning, RecoverDuty, RecoverSteps
<1>9. Duty(p)'
  BY <1>7, <1>8 DEF Duty
<1>. QED BY <1>1, <1>4, <1>5, <1>6, <1>9, StepKeeps

\* Committing the journal: every target holds its new tree.
LEMMA SerialCommit ==
    ASSUME MaxLive <= 1, SerialInv, TypeInv', NEW p \in Proc, Work(p), Kind[p] = "route",
           RouteCommit(p)
    PROVE  SerialInv'
<1>. DEFINE d == PlanOf[p]
            T == Targets[PlanOf[p]]
<1>types. /\ pc \in [Proc -> Step] /\ TypeOK /\ ctx \in [Proc -> {"commit", "except", "cli"}]
  BY DEF SerialInv, TypeInv, TypeOK
<1>facts. d \in Route /\ T \subseteq Garden
  BY RouteFacts DEF SerialInv, TypeInv
<1>duty. SelectDuty(p) /\ EndDuty(p) /\ JournalSound(d)
  BY RouteFounded DEF RouteFoundation
<1>1. /\ pc[p] = "commit" /\ pc' = [pc EXCEPT ![p] = "check"] /\ ctx'[p] = "commit"
      /\ WriteJournal(p, "committed")
      /\ UNCHANGED <<canonical, lock, stage, backup, bindings, held, ret, edits>>
  BY <1>types DEF RouteCommit, budget, Goto
<1>2. /\ journal'[d] = mem'[p] /\ mem'[p].state = "committed"
      /\ mem'[p].by = mem[p].by /\ mem'[p].bindings = mem[p].bindings
      /\ mem'[p].before = mem[p].before /\ mem'[p].after = mem[p].after
      /\ Entries(mem[p])' = Entries(mem[p])
      /\ \A e \in Route : e # d => journal'[e] = journal[e]
  BY <1>1, <1>types, <1>facts, Written DEF JournalState
<1>3. PICK g \in Garden : TRUE
  BY StoreAssumption DEF Garden
<1>4. LocalStep(p, g) /\ Still(g)
  BY <1>types, <1>1, <1>2 DEF LocalStep, Still, OthersWait
<1>5. /\ journal[d] = mem[p] /\ mem[p].by = p /\ mem[p].state = "selecting"
      /\ \A h \in T : canonical[h] # Missing
  BY <1>duty, <1>1 DEF SelectDuty, Selects
<1>6. /\ Entries(mem[p]) = T /\ mem[p].bindings <= bindings
      /\ \A h \in T : LockedSound(d, h)
  BY <1>duty, <1>5 DEF JournalSound
<1>7. JournalSound(d)'
  <2>1. ASSUME NEW h \in T PROVE LockedSound(d, h)'
    BY <1>1, <1>2, <1>5, <1>6, <2>1 DEF LockedSound, OnlyBackup, Finished
  <2>2. Entries(journal[d])' = T
    <3>1. Entries(journal[d])' = Entries(mem[p])'
      BY <1>2 DEF Entries
    <3>. QED BY <3>1, <1>2, <1>6
  <2>. QED BY <1>1, <1>2, <1>5, <1>6, <2>1, <2>2 DEF JournalSound, Unfinished
<1>8. EndDuty(p)' /\ PlanDuty(p)' /\ SelectDuty(p)' /\ RecoverDuty(p)'
  BY <1>types, <1>duty, <1>1, <1>2
     DEF EndDuty, PlanDuty, Planning, SelectDuty, Selects, RecoverDuty, RecoverSteps
<1>9. Duty(p)'
  BY <1>8 DEF Duty
<1>. QED BY <1>4, <1>7, <1>9, StepKeeps

\* Giving back a lock: its garden is in place.
LEMMA SerialRelease ==
    ASSUME MaxLive <= 1, SerialInv, TypeInv', NEW p \in Proc, Work(p), Kind[p] = "route",
           RouteRelease(p)
    PROVE  SerialInv'
<1>. DEFINE d == PlanOf[p]
            T == Targets[PlanOf[p]]
<1>types. /\ pc \in [Proc -> Step] /\ held \in [Proc -> SUBSET Garden]
          /\ lock \in [Garden -> Plan \cup {Free, Blank}] /\ TypeOK
  BY DEF SerialInv, TypeInv, TypeOK
<1>facts. d \in Route /\ d # Free /\ d # Blank /\ T \subseteq Garden
  BY RouteFacts DEF SerialInv, TypeInv
<1>duty. EndDuty(p)
  BY RouteFounded DEF RouteFoundation
<1>0. /\ pc[p] = "release" /\ journal[d].state = "none" /\ held[p] \subseteq T
      /\ \A h \in held[p] : lock[h] \in {d, Free} /\ InPlace(h)
  <2>1. pc[p] = "release"
    BY DEF RouteRelease
  <2>. QED BY <1>duty, <2>1 DEF EndDuty
<1>1. UNCHANGED <<canonical, journal, stage, backup, bindings, edits, ret>>
  BY DEF RouteRelease, budget
<1>2. JournalSound(d)'
  BY <1>0, <1>1 DEF JournalSound
<1>3. CASE held[p] = {}
  <2>1. pc' = [pc EXCEPT ![p] = "done"] /\ UNCHANGED <<lock, held>>
    BY <1>3 DEF RouteRelease, Goto
  <2>2. PICK g \in Garden : TRUE
    BY StoreAssumption DEF Garden
  <2>3. LocalStep(p, g) /\ Still(g)
    BY <1>types, <1>1, <2>1 DEF LocalStep, Still, OthersWait
  <2>4. EndDuty(p)' /\ PlanDuty(p)' /\ SelectDuty(p)' /\ RecoverDuty(p)'
    BY <1>types, <1>duty, <2>1
       DEF EndDuty, PlanDuty, Planning, SelectDuty, Selects, RecoverDuty, RecoverSteps
  <2>5. Duty(p)'
    BY <2>4 DEF Duty
  <2>. QED BY <1>2, <2>3, <2>5, StepKeeps
<1>4. CASE held[p] # {}
  <2>g. PICK g \in held[p] : g = First(held[p])
    BY <1>types, <1>4, FirstMember
  <2>1. /\ lock' = [lock EXCEPT ![g] = Free] /\ held' = [held EXCEPT ![p] = @ \ {g}] /\ pc' = pc
    BY <1>4, <2>g DEF RouteRelease
  <2>2. g \in Garden /\ InPlace(g)' /\ lock[g] \in OwnLock(p) /\ lock'[g] \in OwnLock(p)
    BY <1>types, <1>0, <1>1, <2>1 DEF InPlace, OwnLock
  <2>3. LocalStep(p, g)
    BY <1>types, <1>1, <2>1 DEF LocalStep, Still, OthersWait
  <2>4. EndDuty(p)'
    BY <1>types, <1>facts, <1>0, <1>1, <2>1 DEF EndDuty, InPlace, RecoverSteps
  <2>5. PlanDuty(p)' /\ SelectDuty(p)' /\ RecoverDuty(p)'
    BY <1>0, <2>1 DEF PlanDuty, Planning, SelectDuty, Selects, RecoverDuty, RecoverSteps
  <2>6. Duty(p)'
    BY <2>4, <2>5 DEF Duty
  <2>. QED BY <1>2, <2>2, <2>3, <2>6, StepKeeps
<1>. QED BY <1>3, <1>4

\* Every step of a routing apply.
LEMMA SerialRoute ==
    ASSUME MaxLive <= 1, SerialInv, TypeInv', NEW p \in Proc, Work(p), RouteStep(p)
    PROVE  SerialInv'
<1>1. Kind[p] = "route"
  BY StepKinds DEF SerialInv, TypeInv
<1>. QED
  BY <1>1, SerialPlan, SerialLock, SerialPrepare, SerialSelecting, SerialRetire, SerialSelect,
     SerialCommit, SerialRelease DEF RouteStep

-----------------------------------------------------------------------------
(***************************************************************************)
(* Recovery.                                                               *)
(***************************************************************************)
\* Reverse identity order: the last garden of a set is one of its members.
LEMMA FinalMember ==
    ASSUME NEW S, S \subseteq Garden, S # {}
    PROVE  Final(S) \in S
<1>. DEFINE D == {g \in Garden : \A h \in S : h <= g}
<1>1. \A h \in S : h \in Garden /\ h <= N
  BY DEF Garden
<1>2. N \in D
  BY <1>1, StoreAssumption DEF Garden
<1>3. PICK g \in D : \A h \in D : g <= h
  <2>1. D \subseteq Garden /\ D # {}
    BY <1>2
  <2>. HIDE DEF D
  <2>. QED BY <2>1, SmallestGarden
<1>4. g \in S
  <2>. SUFFICES ASSUME g \notin S PROVE FALSE
    OBVIOUS
  <2>1. PICK h \in S : TRUE
    OBVIOUS
  <2>2. g \in Int /\ g >= 1 /\ g <= N /\ \A k \in S : k \in Int /\ k >= 1 /\ k <= g
    BY <1>3, StoreAssumption DEF Garden
  <2>3. \A k \in S : k <= g - 1
    BY <2>2
  <2>4. g - 1 \in Garden
    BY <2>1, <2>2, <2>3, StoreAssumption DEF Garden
  <2>5. g - 1 \in D
    BY <2>3, <2>4
  <2>. QED BY <1>3, <2>2, <2>5
<1>5. \A h \in S : h <= g
  BY <1>3
<1>. QED BY <1>4, <1>5 DEF Final

\* What a recovery may rely on.
RecoverFoundation(p) ==
    /\ TypeOK /\ Kind[p] # "change" /\ Roles
    /\ RecoverDuty(p) /\ (Kind[p] = "route" => EndDuty(p))
    /\ PlanOf[p] \in Route /\ JournalSound(PlanOf[p])
    /\ FreeInPlace

LEMMA RecoverFounded ==
    ASSUME SerialInv, NEW p \in Proc, Kind[p] # "change"
    PROVE  RecoverFoundation(p)
<1>1. Duty(p) /\ TypeOK /\ Roles
  BY DEF SerialInv, TypeInv
<1>. QED BY <1>1, PlanKinds DEF Duty, SerialInv, RecoverFoundation

\* An exception in recovery leaves everything to whoever called it.
LEMMA HandlerDuty ==
    ASSUME NEW p \in Proc, RecoverFoundation(p), pc[p] \in RecoverSteps,
           pc' = [pc EXCEPT ![p] = RecoverHandler(p)], held' = held, journal' = journal
    PROVE  Duty(p)'
<1>types. pc \in [Proc -> Step] /\ ctx \in [Proc -> {"commit", "except", "cli"}]
  BY DEF RecoverFoundation, TypeOK
<1>1. /\ pc'[p] \in {"except", "finally", "idle"}
      /\ ctx[p] # "cli" => pc'[p] # "idle"
  BY <1>types DEF RecoverHandler
<1>2. Kind[p] = "route" => EndDuty(p)'
  BY <1>1 DEF RecoverFoundation, EndDuty, RecoverSteps
<1>3. PlanDuty(p)' /\ SelectDuty(p)' /\ RecoverDuty(p)'
  BY <1>1 DEF PlanDuty, Planning, SelectDuty, Selects, RecoverDuty, RecoverSteps
<1>. QED BY <1>2, <1>3 DEF Duty, RecoverFoundation

\* The steps of recovery that change no tree in place, no lock, backup or journal.
LEMMA RecoverQuiet ==
    ASSUME TypeOK, NEW p \in Proc,
           \/ RecoverBegin(p) \/ RecoverCheck(p) \/ RollbackSkip(p) \/ RollbackDrop(p)
           \/ CleanStage(p)
    PROVE  QuietStep(p) /\ held' = held
<1>types. /\ pc \in [Proc -> Step] /\ ctx \in [Proc -> {"commit", "except", "cli"}]
  BY DEF TypeOK
<1>. USE <1>types DEF QuietStep, Still, OthersWait, Goto, Selects
<1>1. CASE RecoverBegin(p)
  BY <1>1 DEF RecoverBegin, files, budget
<1>2. CASE RecoverCheck(p)
  BY <1>2 DEF RecoverCheck, files, budget, RecoverHandler
<1>3. CASE RollbackSkip(p)
  BY <1>3 DEF RollbackSkip, files, budget
<1>4. CASE RollbackDrop(p)
  BY <1>4 DEF RollbackDrop, files, budget
<1>5. CASE CleanStage(p)
  BY <1>5 DEF CleanStage, files, budget
<1>. QED BY <1>1, <1>2, <1>3, <1>4, <1>5

\* At a step of recovery there is nothing else to rely on.
LEMMA RecoverPhase ==
    ASSUME NEW p \in Proc, Kind[p] # "change", pc[p] \in RecoverSteps,
           Kind[p] = "route" => EndDuty(p), RecoverDuty(p)
    PROVE  Duty(p)
  BY DEF Duty, PlanDuty, Planning, SelectDuty, Selects, RecoverSteps

\* They leave what the next step relies on.
LEMMA RecoverQuietDuty ==
    ASSUME NEW p \in Proc, RecoverFoundation(p), QuietStep(p), held' = held,
           \/ RecoverBegin(p) \/ RecoverCheck(p) \/ RollbackSkip(p) \/ RollbackDrop(p)
           \/ CleanStage(p)
    PROVE  Duty(p)'
<1>. DEFINE d == PlanOf[p]
            T == Targets[PlanOf[p]]
<1>types. /\ pc \in [Proc -> Step] /\ ctx \in [Proc -> {"commit", "except", "cli"}]
          /\ todo \in [Proc -> SUBSET Garden] /\ mem \in [Proc -> Journal]
          /\ Kind[p] # "change" /\ TypeOK
  BY DEF RecoverFoundation, TypeOK
<1>facts. d \in Route /\ d # Free /\ T \subseteq Garden /\ T # {}
  BY RouteFacts DEF RecoverFoundation
<1>duty. RecoverDuty(p) /\ (Kind[p] = "route" => EndDuty(p)) /\ JournalSound(d)
  BY DEF RecoverFoundation
<1>same. /\ journal' = journal /\ \A h \in T : lock'[h] = lock[h]
         /\ \A h \in T : \A r \in Proc : backup'[r][h] = backup[r][h]
  BY <1>facts DEF QuietStep, Still
<1>1. CASE RecoverBegin(p)
  <2>1. pc[p] = "idle" /\ pc'[p] = "check" /\ Kind[p] = "recover"
    BY <1>1, <1>types DEF RecoverBegin, Goto
  <2>. QED BY <1>types, <2>1, RecoverPhase DEF Duty, PlanDuty, SelectDuty, EndDuty, RecoverDuty,
              Planning, Selects, RecoverSteps
<1>2. CASE RecoverCheck(p)
  <2>1. CASE ~Recoverable(d)
    BY <1>2, <2>1, HandlerDuty DEF RecoverCheck, Goto, RecoverSteps, QuietStep
  <2>2. CASE Recoverable(d)
    <3>1. /\ pc[p] = "check" /\ pc'[p] = "rollback" /\ ctx' = ctx
          /\ mem'[p] = journal[d] /\ todo'[p] = Entries(journal[d])
      BY <1>2, <1>types, <2>2 DEF RecoverCheck, Goto
    <3>2. /\ journal[d].state # "none" /\ todo'[p] = T
          /\ \A h \in T : lock[h] \in {d, Free}
      BY <1>duty, <2>2, <3>1 DEF Recoverable, OwnedAndKnown, JournalSound
    <3>3. RecoverDuty(p)'
      BY <1>same, <3>1, <3>2 DEF RecoverDuty
    <3>4. Kind[p] = "route" => EndDuty(p)'
      BY <1>duty, <1>same, <3>1 DEF EndDuty, RecoverSteps
    <3>. QED BY <1>types, <3>1, <3>3, <3>4 DEF Duty, PlanDuty, SelectDuty, Planning, Selects
  <2>. QED BY <2>1, <2>2
<1>3. CASE RollbackSkip(p)
  <2>0. todo[p] # {} /\ pc[p] = "rollback"
    BY <1>3 DEF RollbackSkip
  <2>g. PICK g \in todo[p] : g = Final(todo[p])
    BY <1>types, <2>0, FinalMember
  <2>1. /\ pc' = pc /\ mem' = mem /\ ctx' = ctx
        /\ mem[p].state = "committed" \/ backup[mem[p].by][g] = Missing
        /\ todo'[p] = todo[p] \ {g}
    BY <1>3, <1>types, <2>g DEF RollbackSkip
  <2>2. RecoverDuty(p)'
    <3>1. mem[p].by \in Proc
      BY <1>types DEF Journal
    <3>. QED BY <1>duty, <1>same, <2>0, <2>1, <3>1 DEF RecoverDuty, RecoverSteps
  <2>3. Kind[p] = "route" => EndDuty(p)'
    BY <1>duty, <1>same, <2>0, <2>1 DEF EndDuty, RecoverSteps
  <2>. QED BY <1>types, <2>0, <2>1, <2>2, <2>3 DEF Duty, PlanDuty, SelectDuty, Planning, Selects
<1>4. CASE RollbackDrop(p)
  <2>1. /\ pc[p] = "rollback" /\ todo[p] # {} /\ mem' = mem /\ ctx' = ctx /\ todo' = todo
        /\ mem[p].state # "committed" /\ backup[mem[p].by][Final(todo[p])] # Missing
        /\ pc'[p] \in {"park", "putback"} /\ backup' = backup
    BY <1>4, <1>types DEF RollbackDrop, Goto
  <2>2. RecoverDuty(p)'
    BY <1>duty, <1>same, <2>1 DEF RecoverDuty, RecoverSteps
  <2>3. Kind[p] = "route" => EndDuty(p)'
    BY <1>duty, <1>same, <2>1 DEF EndDuty, RecoverSteps
  <2>. QED BY <1>types, <2>1, <2>2, <2>3 DEF Duty, PlanDuty, SelectDuty, Planning, Selects
<1>5. CASE CleanStage(p)
  <2>1. /\ pc[p] = "clean" /\ todo[p] # {} /\ mem' = mem /\ ctx' = ctx /\ todo' = todo
        /\ pc'[p] = "cleanBackup" /\ backup' = backup
    BY <1>5, <1>types DEF CleanStage, Goto
  <2>2. RecoverDuty(p)'
    BY <1>duty, <1>same, <2>1 DEF RecoverDuty, RecoverSteps, Finished
  <2>3. Kind[p] = "route" => EndDuty(p)'
    BY <1>duty, <1>same, <2>1 DEF EndDuty, RecoverSteps
  <2>. QED BY <1>types, <2>1, <2>2, <2>3 DEF Duty, PlanDuty, SelectDuty, Planning, Selects
<1>. QED BY <1>1, <1>2, <1>3, <1>4, <1>5

LEMMA SerialRecoverQuiet ==
    ASSUME MaxLive <= 1, SerialInv, TypeInv', NEW p \in Proc, Work(p), Kind[p] # "change",
           \/ RecoverBegin(p) \/ RecoverCheck(p) \/ RollbackSkip(p) \/ RollbackDrop(p)
           \/ CleanStage(p)
    PROVE  SerialInv'
<1>1. QuietStep(p) /\ held' = held
  BY RecoverQuiet DEF SerialInv, TypeInv
<1>2. Duty(p)'
  BY <1>1, RecoverFounded, RecoverQuietDuty
<1>. QED BY <1>1, <1>2, QuietKeeps

\* A garden with a backup of the journal is still locked, and for a journal that
\* is not committed it is then not finished either.
LEMMA BackupLocked ==
    ASSUME NEW p \in Proc, RecoverFoundation(p), pc[p] \in RecoverSteps \ {"check"},
           NEW g \in Targets[PlanOf[p]], backup[mem[p].by][g] # Missing
    PROVE  /\ lock[g] = PlanOf[p] /\ LockedSound(PlanOf[p], g)
           /\ mem[p].state # "committed" => Unfinished(journal[PlanOf[p]])
<1>1. /\ mem[p] = journal[PlanOf[p]] /\ mem[p].state # "none"
      /\ lock[g] \in {PlanOf[p], Free} /\ g \in Garden /\ mem[p].by \in Proc
      /\ journal[PlanOf[p]].state \in JournalState
  <2>1. TypeOK /\ Kind[p] # "change" /\ RecoverDuty(p)
    BY DEF RecoverFoundation
  <2>2. mem[p].by \in Proc /\ g \in Garden /\ journal[PlanOf[p]] \in Journal
    BY <2>1, RouteFacts
  <2>. QED BY <2>1, <2>2 DEF RecoverDuty, Journal
<1>2. lock[g] = PlanOf[p]
  BY <1>1 DEF RecoverFoundation, FreeInPlace, InPlace
<1>3. LockedSound(PlanOf[p], g)
  BY <1>1 DEF RecoverFoundation, JournalSound
<1>4. mem[p].state # "rolled-back"
  BY <1>1, <1>2, <1>3 DEF LockedSound
<1>. QED BY <1>1, <1>2, <1>3, <1>4 DEF JournalState, Unfinished

\* Moving the new tree away, back to the stage.
LEMMA SerialPark ==
    ASSUME MaxLive <= 1, SerialInv, TypeInv', NEW p \in Proc, Work(p), Kind[p] # "change",
           RollbackPark(p)
    PROVE  SerialInv'
<1>. DEFINE d == PlanOf[p]
            T == Targets[PlanOf[p]]
            b == mem[p].by
<1>types. /\ pc \in [Proc -> Step] /\ ctx \in [Proc -> {"commit", "except", "cli"}]
          /\ todo \in [Proc -> SUBSET Garden] /\ mem \in [Proc -> Journal]
          /\ canonical \in [Garden -> Tree] /\ stage \in [Proc -> [Garden -> Tree]]
          /\ TypeOK
  BY DEF SerialInv, TypeInv, TypeOK
<1>facts. d \in Route /\ d # Free /\ d # Blank /\ T \subseteq Garden /\ b \in Proc
  BY RouteFacts, <1>types
<1>found. RecoverFoundation(p)
  BY RecoverFounded
<1>duty. RecoverDuty(p) /\ (Kind[p] = "route" => EndDuty(p)) /\ JournalSound(d)
  BY <1>found DEF RecoverFoundation
<1>0. /\ pc[p] = "park" /\ mem[p] = journal[d] /\ todo[p] # {} /\ todo[p] \subseteq T
      /\ mem[p].state # "committed" /\ mem[p].state # "none"
      /\ backup[b][Final(todo[p])] # Missing
  BY <1>duty DEF RollbackPark, RecoverDuty, RecoverSteps
<1>g. PICK g \in todo[p] : g = Final(todo[p])
  BY <1>types, <1>0, FinalMember
<1>1. g \in T /\ g \in Garden /\ backup[b][g] # Missing
  BY <1>g, <1>0, <1>facts
<1>2. lock[g] = d /\ LockedSound(d, g) /\ Unfinished(journal[d])
  BY <1>found, <1>0, <1>1, BackupLocked DEF RecoverSteps
<1>3. UNCHANGED <<lock, journal, backup, bindings, todo, held, mem, ctx, ret, edits>>
  BY DEF RollbackPark, budget
<1>4. CASE canonical[g] = Missing
  <2>1. /\ pc' = [pc EXCEPT ![p] = RecoverHandler(p)] /\ UNCHANGED <<canonical, stage>>
    BY <1>g, <1>4 DEF RollbackPark, Goto
  <2>2. QuietStep(p)
    BY <1>types, <1>3, <2>1 DEF QuietStep, Still, OthersWait, Selects, RecoverHandler
  <2>3. Duty(p)'
    BY <1>found, <1>0, <1>3, <2>1, HandlerDuty DEF RecoverSteps
  <2>. QED BY <2>2, <2>3, QuietKeeps
<1>5. CASE canonical[g] # Missing
  <2>1. /\ canonical' = [canonical EXCEPT ![g] = Missing]
        /\ pc' = [pc EXCEPT ![p] = "putback"]
    BY <1>g, <1>5 DEF RollbackPark, Goto
  <2>2. LocalStep(p, g)
    BY <1>types, <1>1, <1>3, <2>1 DEF LocalStep, Still, OthersWait
  <2>3. lock[g] \in OwnLock(p) /\ lock'[g] \in OwnLock(p) /\ lock'[g] \notin {Free, Blank}
    BY <1>facts, <1>2, <1>3 DEF OwnLock
  <2>4. JournalSound(d)'
    <3>1. Sure(d)' => Sure(d)
      BY <1>types, <1>3, <2>1 DEF Sure, Selects
    <3>2. ASSUME NEW h \in T PROVE LockedSound(d, h)'
      BY <1>duty, <1>0, <1>2, <1>3, <3>2 DEF LockedSound, JournalSound, OnlyBackup, Finished, Unfinished
    <3>3. ASSUME NEW h \in T PROVE OriginalSound(d, h)'
      <4>1. OriginalSound(d, h)
        BY <1>duty, <1>0, <1>2, <3>3 DEF JournalSound
      <4>2. CASE h = g
        <5>1. canonical'[h] = Missing /\ backup[journal[d].by][h] # Missing
          BY <1>types, <1>0, <1>1, <2>1, <4>2
        <5>. QED BY <1>3, <3>1, <4>1, <5>1 DEF OriginalSound, KnownTrees
      <4>3. CASE h # g
        <5>1. canonical'[h] = canonical[h]
          BY <1>types, <1>facts, <2>1, <4>3
        <5>. QED BY <1>3, <3>1, <4>1, <5>1 DEF OriginalSound, KnownTrees
      <4>. QED BY <4>2, <4>3
    <3>. QED BY <1>duty, <1>0, <1>3, <3>2, <3>3 DEF JournalSound, Entries
  <2>5. pc'[p] = "putback" /\ pc'[p] \in RecoverSteps
    BY <1>types, <2>1 DEF RecoverSteps
  <2>6. RecoverDuty(p)'
    BY <1>duty, <1>0, <1>3, <2>5 DEF RecoverDuty, RecoverSteps
  <2>7. Kind[p] = "route" => EndDuty(p)'
    BY <1>duty, <1>0, <1>3, <2>5 DEF EndDuty, RecoverSteps
  <2>8. Duty(p)'
    BY <2>5, <2>6, <2>7 DEF Duty, PlanDuty, Planning, SelectDuty, Selects
  <2>. QED BY <1>1, <2>2, <2>3, <2>4, <2>8, StepKeeps
<1>. QED BY <1>4, <1>5

\* Moving the backup in place.
LEMMA SerialPutback ==
    ASSUME MaxLive <= 1, SerialInv, TypeInv', NEW p \in Proc, Work(p), Kind[p] # "change",
           RollbackPutback(p)
    PROVE  SerialInv'
<1>. DEFINE d == PlanOf[p]
            T == Targets[PlanOf[p]]
            b == mem[p].by
<1>types. /\ pc \in [Proc -> Step] /\ ctx \in [Proc -> {"commit", "except", "cli"}]
          /\ todo \in [Proc -> SUBSET Garden] /\ mem \in [Proc -> Journal]
          /\ canonical \in [Garden -> Tree] /\ backup \in [Proc -> [Garden -> Tree]]
          /\ lock \in [Garden -> Plan \cup {Free, Blank}] /\ TypeOK
  BY DEF SerialInv, TypeInv, TypeOK
<1>facts. /\ d \in Route /\ d # Free /\ d # Blank /\ Free # Blank
          /\ T \subseteq Garden /\ b \in Proc
  BY RouteFacts, <1>types
<1>found. RecoverFoundation(p)
  BY RecoverFounded
<1>duty. RecoverDuty(p) /\ (Kind[p] = "route" => EndDuty(p)) /\ JournalSound(d) /\ FreeInPlace
  BY <1>found DEF RecoverFoundation
<1>0. /\ pc[p] = "putback" /\ mem[p] = journal[d] /\ todo[p] # {} /\ todo[p] \subseteq T
      /\ mem[p].state # "committed" /\ mem[p].state # "none"
      /\ \A h \in T \ todo[p] : backup[b][h] = Missing
      /\ \A h \in T : lock[h] \in {d, Free}
  BY <1>duty DEF RollbackPutback, RecoverDuty, RecoverSteps
<1>g. PICK g \in todo[p] : g = Final(todo[p])
  BY <1>types, <1>0, FinalMember
<1>1. g \in T /\ g \in Garden
  BY <1>g, <1>0, <1>facts
<1>3. UNCHANGED <<lock, journal, stage, bindings, held, mem, ctx, ret, edits>>
  BY DEF RollbackPutback, budget
<1>4. CASE backup[b][g] = Missing \/ canonical[g] # Missing
  <2>1. /\ pc' = [pc EXCEPT ![p] = RecoverHandler(p)] /\ UNCHANGED <<canonical, backup>>
    BY <1>g, <1>4 DEF RollbackPutback, Goto
  <2>2. QuietStep(p)
    BY <1>types, <1>3, <2>1 DEF QuietStep, Still, OthersWait, Selects, RecoverHandler
  <2>3. Duty(p)'
    BY <1>found, <1>0, <1>3, <2>1, HandlerDuty DEF RecoverSteps
  <2>. QED BY <2>2, <2>3, QuietKeeps
<1>5. CASE backup[b][g] # Missing /\ canonical[g] = Missing
  <2>1. /\ canonical' = [canonical EXCEPT ![g] = backup[b][g]]
        /\ backup' = [backup EXCEPT ![b][g] = Missing]
        /\ todo' = [todo EXCEPT ![p] = @ \ {g}]
        /\ pc' = [pc EXCEPT ![p] = "rollback"]
    BY <1>g, <1>5 DEF RollbackPutback, Goto
  <2>l. lock[g] = d /\ LockedSound(d, g) /\ Unfinished(journal[d])
    BY <1>found, <1>0, <1>1, <1>5, BackupLocked DEF RecoverSteps
  <2>2. LocalStep(p, g)
    BY <1>types, <1>1, <1>3, <2>1 DEF LocalStep, Still, OthersWait
  <2>3. lock[g] \in OwnLock(p) /\ lock'[g] \in OwnLock(p) /\ lock'[g] \notin {Free, Blank}
    BY <1>facts, <2>l, <1>3 DEF OwnLock
  <2>h. /\ \A h \in Garden : h # g => canonical'[h] = canonical[h] /\ backup'[b][h] = backup[b][h]
        /\ canonical'[g] = backup[b][g] /\ backup'[b][g] = Missing
        /\ \A h \in Garden, r \in Proc : r # b => backup'[r][h] = backup[r][h]
    BY <1>types, <1>facts, <1>1, <2>1
  <2>4. JournalSound(d)'
    <3>1. Sure(d)' => Sure(d)
      BY <1>types, <1>3, <2>1 DEF Sure, Selects
    <3>2. ASSUME NEW h \in T PROVE LockedSound(d, h)'
      <4>1. LockedSound(d, h) /\ ~Finished(journal[d]) /\ journal[d].state # "rolled-back"
        BY <1>duty, <1>0, <2>l, <3>2 DEF JournalSound, Unfinished, Finished
      <4>2. OnlyBackup(b, h) => OnlyBackup(b, h)'
        BY <1>facts, <1>0, <1>3, <2>h, <3>2 DEF OnlyBackup
      <4>. QED BY <1>0, <1>3, <4>1, <4>2 DEF LockedSound, OnlyBackup, Finished
    <3>3. ASSUME NEW h \in T PROVE OriginalSound(d, h)'
      <4>1. OriginalSound(d, h)
        BY <1>duty, <1>0, <2>l, <3>3 DEF JournalSound
      <4>2. CASE h = g
        BY <1>0, <1>3, <1>5, <2>h, <3>1, <4>1, <4>2 DEF OriginalSound, KnownTrees
      <4>3. CASE h # g
        <5>1. canonical'[h] = canonical[h] /\ backup'[b][h] = backup[b][h]
          BY <1>facts, <2>h, <4>3
        <5>. QED BY <1>0, <1>3, <3>1, <4>1, <5>1 DEF OriginalSound, KnownTrees
      <4>. QED BY <4>2, <4>3
    <3>. QED BY <1>duty, <1>0, <1>3, <3>2, <3>3 DEF JournalSound, Entries
  <2>5. pc'[p] = "rollback" /\ pc'[p] \in RecoverSteps /\ todo'[p] = todo[p] \ {g}
    BY <1>types, <2>1 DEF RecoverSteps
  <2>6. RecoverDuty(p)'
    BY <1>0, <1>1, <1>3, <1>facts, <2>h, <2>5 DEF RecoverDuty, RecoverSteps
  <2>7. Kind[p] = "route" => EndDuty(p)'
    BY <1>duty, <1>0, <1>3, <2>5 DEF EndDuty, RecoverSteps
  <2>8. Duty(p)'
    BY <2>5, <2>6, <2>7 DEF Duty, PlanDuty, Planning, SelectDuty, Selects
  <2>. QED BY <1>1, <2>2, <2>3, <2>4, <2>8, StepKeeps
<1>. QED BY <1>4, <1>5

\* Recording the outcome: nothing is left to restore.
LEMMA SerialSettle ==
    ASSUME MaxLive <= 1, SerialInv, TypeInv', NEW p \in Proc, Work(p), Kind[p] # "change",
           RecoverSettle(p)
    PROVE  SerialInv'
<1>. DEFINE d == PlanOf[p]
            T == Targets[PlanOf[p]]
            b == mem[p].by
<1>types. /\ pc \in [Proc -> Step] /\ ctx \in [Proc -> {"commit", "except", "cli"}]
          /\ todo \in [Proc -> SUBSET Garden] /\ mem \in [Proc -> Journal]
          /\ canonical \in [Garden -> Tree] /\ backup \in [Proc -> [Garden -> Tree]]
          /\ lock \in [Garden -> Plan \cup {Free, Blank}] /\ TypeOK
  BY DEF SerialInv, TypeInv, TypeOK
<1>facts. /\ d \in Route /\ d # Free /\ d # Blank /\ Free # Blank
          /\ T \subseteq Garden /\ b \in Proc
  BY RouteFacts, <1>types
<1>found. RecoverFoundation(p)
  BY RecoverFounded
<1>duty. RecoverDuty(p) /\ (Kind[p] = "route" => EndDuty(p)) /\ JournalSound(d) /\ FreeInPlace
  BY <1>found DEF RecoverFoundation
<1>0. /\ pc[p] = "rollback" /\ todo[p] = {} /\ mem[p] = journal[d] /\ mem[p].state # "none"
      /\ \A h \in T : mem[p].state = "committed" \/ backup[b][h] = Missing
      /\ \A h \in T : lock[h] \in {d, Free}
  BY <1>duty DEF RecoverSettle, RecoverDuty, RecoverSteps
<1>1. PICK s \in {"committed", "rolled-back"} :
         /\ WriteJournal(p, s) /\ (s = "committed" <=> mem[p].state = "committed")
  BY DEF RecoverSettle
<1>2. /\ pc' = [pc EXCEPT ![p] = "clean"] /\ todo'[p] = Entries(mem[p])
      /\ UNCHANGED <<canonical, lock, stage, backup, bindings, held, ctx, ret, edits>>
  BY <1>types DEF RecoverSettle, budget, Goto
<1>3. /\ journal'[d] = mem'[p] /\ mem'[p].state = s
      /\ mem'[p].by = b /\ mem'[p].bindings = mem[p].bindings
      /\ mem'[p].before = mem[p].before /\ mem'[p].after = mem[p].after
      /\ Entries(mem[p])' = Entries(mem[p])
      /\ \A e \in Route : e # d => journal'[e] = journal[e]
  <2>1. s \in JournalState
    BY DEF JournalState
  <2>. QED BY <1>1, <1>types, <1>facts, <2>1, Written
<1>4. PICK g \in Garden : TRUE
  BY StoreAssumption DEF Garden
<1>5. LocalStep(p, g) /\ Still(g)
  BY <1>types, <1>2, <1>3 DEF LocalStep, Still, OthersWait
<1>6. /\ Kind[b] = "route" /\ PlanOf[b] = d /\ Entries(mem[p]) = T /\ mem[p].bindings <= bindings
      /\ \A h \in T : LockedSound(d, h)
      /\ Unfinished(mem[p]) => \A h \in T : OriginalSound(d, h)
  BY <1>duty, <1>0 DEF JournalSound
<1>7. ASSUME NEW h \in T, lock[h] = d
      PROVE  canonical[h] # Missing
  <2>1. mem[p].state \in JournalState
    BY <1>types DEF Journal
  <2>2. CASE Finished(mem[p])
    BY <1>0, <1>6, <1>7, <2>2 DEF LockedSound
  <2>3. CASE Unfinished(mem[p])
    <3>1. OriginalSound(d, h) /\ backup[b][h] = Missing
      BY <1>0, <1>6, <2>3 DEF Unfinished
    <3>2. mem[p].before[h] # Missing
      BY <1>6 DEF Entries
    <3>. QED BY <1>0, <3>1, <3>2 DEF OriginalSound, Missing
  <2>. QED BY <1>0, <2>1, <2>2, <2>3 DEF JournalState, Finished, Unfinished
<1>8. JournalSound(d)'
  <2>1. ASSUME NEW h \in T PROVE LockedSound(d, h)'
    <3>. SUFFICES ASSUME lock[h] = d PROVE LockedSound(d, h)'
      BY <1>2 DEF LockedSound
    <3>1. canonical'[h] # Missing /\ OnlyBackup(b, h)'
      BY <1>0, <1>2, <1>3, <1>6, <1>7 DEF LockedSound, OnlyBackup
    <3>2. s = "rolled-back" => backup'[b][h] = Missing
      BY <1>0, <1>1, <1>2
    <3>. QED BY <1>2, <1>3, <3>1, <3>2 DEF LockedSound, OnlyBackup
  <2>2. Entries(journal[d])' = T
    <3>1. Entries(journal[d])' = Entries(mem[p])'
      BY <1>3 DEF Entries
    <3>. QED BY <3>1, <1>3, <1>6
  <2>. QED BY <1>2, <1>3, <1>6, <2>1, <2>2 DEF JournalSound, Unfinished
<1>9. pc'[p] = "clean" /\ todo'[p] = T
  BY <1>types, <1>2, <1>6
<1>10. RecoverDuty(p)'
  BY <1>0, <1>2, <1>3, <1>9 DEF RecoverDuty, RecoverSteps, Finished
<1>11. Kind[p] = "route" => EndDuty(p)'
  BY <1>duty, <1>0, <1>2, <1>3, <1>9 DEF EndDuty, RecoverSteps
<1>12. Duty(p)'
  BY <1>9, <1>10, <1>11 DEF Duty, PlanDuty, Planning, SelectDuty, Selects
<1>. QED BY <1>5, <1>8, <1>12, StepKeeps

\* Removing a backup, file by file.
LEMMA SerialCleanBackup ==
    ASSUME MaxLive <= 1, SerialInv, TypeInv', NEW p \in Proc, Work(p), Kind[p] # "change",
           TearBackup(p) \/ CleanBackup(p)
    PROVE  SerialInv'
<1>. DEFINE d == PlanOf[p]
            T == Targets[PlanOf[p]]
            b == mem[p].by
<1>types. /\ pc \in [Proc -> Step] /\ ctx \in [Proc -> {"commit", "except", "cli"}]
          /\ todo \in [Proc -> SUBSET Garden] /\ mem \in [Proc -> Journal]
          /\ canonical \in [Garden -> Tree] /\ backup \in [Proc -> [Garden -> Tree]]
          /\ lock \in [Garden -> Plan \cup {Free, Blank}] /\ TypeOK
  BY DEF SerialInv, TypeInv, TypeOK
<1>facts. /\ d \in Route /\ d # Free /\ d # Blank /\ Free # Blank
          /\ T \subseteq Garden /\ b \in Proc
  BY RouteFacts, <1>types
<1>found. RecoverFoundation(p)
  BY RecoverFounded
<1>duty. RecoverDuty(p) /\ (Kind[p] = "route" => EndDuty(p)) /\ JournalSound(d) /\ FreeInPlace
  BY <1>found DEF RecoverFoundation
<1>0. /\ pc[p] = "cleanBackup" /\ mem[p] = journal[d] /\ todo[p] # {} /\ todo[p] \subseteq T
      /\ mem[p].state # "none" /\ Finished(mem[p])
      /\ \A h \in T : lock[h] \in {d, Free}
      /\ \A h \in T \ todo[p] : lock[h] = Free
  BY <1>duty DEF TearBackup, CleanBackup, RecoverDuty, RecoverSteps
<1>g. PICK g \in todo[p] : g = First(todo[p])
  BY <1>types, <1>0, FirstMember
<1>1. g \in T /\ g \in Garden
  BY <1>g, <1>0, <1>facts
<1>2. PICK t \in {{Torn}, Missing} :
         /\ backup' = [backup EXCEPT ![b][g] = t]
         /\ t # Missing => backup[b][g] # Missing
         /\ pc' = (IF t = Missing THEN [pc EXCEPT ![p] = "unlock"] ELSE pc)
  <2>1. CASE TearBackup(p)
    <3>1. backup' = [backup EXCEPT ![b][g] = {Torn}] /\ backup[b][g] # Missing /\ pc' = pc
      BY <1>g, <2>1 DEF TearBackup, invocation
    <3>. QED BY <3>1 DEF Missing
  <2>2. CASE CleanBackup(p)
    BY <1>g, <2>2 DEF CleanBackup, Goto
  <2>. QED BY <2>1, <2>2
<1>3. UNCHANGED <<canonical, lock, journal, stage, bindings, todo, held, mem, ctx, ret, edits>>
  BY DEF TearBackup, CleanBackup, invocation, budget
<1>4. LocalStep(p, g)
  BY <1>types, <1>1, <1>2, <1>3 DEF LocalStep, Still, OthersWait
<1>h. /\ \A h \in Garden : h # g => backup'[b][h] = backup[b][h]
      /\ backup'[b][g] = t
      /\ \A h \in Garden, r \in Proc : r # b => backup'[r][h] = backup[r][h]
  BY <1>types, <1>facts, <1>1, <1>2
<1>5. t # Missing => lock[g] = d /\ LockedSound(d, g)
  BY <1>found, <1>0, <1>1, <1>2, BackupLocked DEF RecoverSteps
<1>6. /\ lock[g] \in OwnLock(p) /\ lock'[g] \in OwnLock(p)
      /\ lock'[g] \in {Free, Blank} => InPlace(g)'
  <2>1. lock[g] \in OwnLock(p) /\ lock'[g] \in OwnLock(p)
    BY <1>0, <1>1, <1>3 DEF OwnLock
  <2>2. lock[g] \in {Free, Blank} => t = Missing /\ InPlace(g)
    BY <1>duty, <1>facts, <1>1, <1>5 DEF FreeInPlace
  <2>3. ASSUME t = Missing, InPlace(g) PROVE InPlace(g)'
    BY <1>1, <1>3, <1>h, <2>3 DEF InPlace
  <2>. QED BY <1>3, <2>1, <2>2, <2>3
<1>7. JournalSound(d)'
  <2>1. ASSUME NEW h \in T PROVE LockedSound(d, h)'
    <3>. SUFFICES ASSUME lock[h] = d PROVE LockedSound(d, h)'
      BY <1>3 DEF LockedSound
    <3>1. LockedSound(d, h) /\ canonical[h] # Missing
      BY <1>duty, <1>0 DEF JournalSound, LockedSound
    <3>2. OnlyBackup(b, h)'
      BY <1>0, <1>3, <1>facts, <1>h, <3>1 DEF LockedSound, OnlyBackup
    <3>3. mem[p].state = "rolled-back" => backup'[b][h] = Missing
      BY <1>0, <1>1, <1>facts, <1>2, <1>5, <1>h, <3>1 DEF LockedSound
    <3>. QED BY <1>0, <1>3, <3>1, <3>2, <3>3 DEF LockedSound, OnlyBackup
  <2>. QED BY <1>duty, <1>0, <1>3, <2>1 DEF JournalSound, Entries, Unfinished, Finished
<1>8. /\ pc'[p] = IF t = Missing THEN "unlock" ELSE "cleanBackup"
  BY <1>types, <1>0, <1>2
<1>9. RecoverDuty(p)'
  <2>1. pc'[p] = "unlock" => backup'[b][First(todo'[p])] = Missing
    BY <1>g, <1>3, <1>8, <1>h
  <2>. QED BY <1>0, <1>3, <1>8, <2>1 DEF RecoverDuty, RecoverSteps, Finished
<1>10. Kind[p] = "route" => EndDuty(p)'
  BY <1>duty, <1>0, <1>3, <1>8 DEF EndDuty, RecoverSteps
<1>11. Duty(p)'
  BY <1>8, <1>9, <1>10 DEF Duty, PlanDuty, Planning, SelectDuty, Selects
<1>. QED BY <1>1, <1>4, <1>6, <1>7, <1>11, StepKeeps

\* Removing a lock: its garden is in place and has no backup.
LEMMA SerialUnlock ==
    ASSUME MaxLive <= 1, SerialInv, TypeInv', NEW p \in Proc, Work(p), Kind[p] # "change",
           CleanLock(p)
    PROVE  SerialInv'
<1>. DEFINE d == PlanOf[p]
            T == Targets[PlanOf[p]]
            b == mem[p].by
<1>types. /\ pc \in [Proc -> Step] /\ ctx \in [Proc -> {"commit", "except", "cli"}]
          /\ todo \in [Proc -> SUBSET Garden] /\ mem \in [Proc -> Journal]
          /\ canonical \in [Garden -> Tree] /\ backup \in [Proc -> [Garden -> Tree]]
          /\ lock \in [Garden -> Plan \cup {Free, Blank}] /\ TypeOK
  BY DEF SerialInv, TypeInv, TypeOK
<1>facts. /\ d \in Route /\ d # Free /\ d # Blank /\ Free # Blank
          /\ T \subseteq Garden /\ b \in Proc
  BY RouteFacts, <1>types
<1>found. RecoverFoundation(p)
  BY RecoverFounded
<1>duty. RecoverDuty(p) /\ (Kind[p] = "route" => EndDuty(p)) /\ JournalSound(d) /\ FreeInPlace
  BY <1>found DEF RecoverFoundation
<1>0. /\ pc[p] = "unlock" /\ mem[p] = journal[d] /\ todo[p] # {} /\ todo[p] \subseteq T
      /\ mem[p].state # "none" /\ Finished(mem[p])
      /\ backup[b][First(todo[p])] = Missing
      /\ \A h \in T : lock[h] \in {d, Free}
      /\ \A h \in T \ todo[p] : lock[h] = Free
  BY <1>duty DEF CleanLock, RecoverDuty, RecoverSteps
<1>g. PICK g \in todo[p] : g = First(todo[p])
  BY <1>types, <1>0, FirstMember
<1>1. g \in T /\ g \in Garden /\ backup[b][g] = Missing
  BY <1>g, <1>0, <1>facts
<1>2. /\ lock' = [lock EXCEPT ![g] = Free]
      /\ todo' = [todo EXCEPT ![p] = @ \ {g}]
      /\ pc' = [pc EXCEPT ![p] = "clean"]
      /\ UNCHANGED <<canonical, journal, stage, backup, bindings, held, mem, ctx, ret, edits>>
  BY <1>g DEF CleanLock, Goto, budget
<1>3. LocalStep(p, g)
  BY <1>types, <1>1, <1>2 DEF LocalStep, Still, OthersWait
<1>4. InPlace(g)'
  <2>1. CASE lock[g] = d
    <3>1. LockedSound(d, g)
      BY <1>duty, <1>0, <1>1 DEF JournalSound
    <3>. QED BY <1>0, <1>1, <1>2, <2>1, <3>1 DEF LockedSound, OnlyBackup, InPlace
  <2>2. CASE lock[g] = Free
    BY <1>duty, <1>1, <1>2, <2>2 DEF FreeInPlace, InPlace
  <2>. QED BY <1>0, <1>1, <2>1, <2>2
<1>5. lock[g] \in OwnLock(p) /\ lock'[g] \in OwnLock(p)
  BY <1>types, <1>0, <1>1, <1>2 DEF OwnLock
<1>6. JournalSound(d)'
  <2>1. ASSUME NEW h \in T PROVE LockedSound(d, h)'
    <3>1. lock'[h] = d => lock[h] = d
      BY <1>types, <1>facts, <1>2
    <3>2. LockedSound(d, h)
      BY <1>duty, <1>0 DEF JournalSound
    <3>. QED BY <1>2, <3>1, <3>2 DEF LockedSound, OnlyBackup, Finished
  <2>. QED BY <1>duty, <1>0, <1>2, <2>1 DEF JournalSound, Entries, Unfinished, Finished
<1>7. /\ pc'[p] = "clean" /\ todo'[p] = todo[p] \ {g}
      /\ \A h \in T : lock'[h] = (IF h = g THEN Free ELSE lock[h])
  BY <1>types, <1>facts, <1>2
<1>8. RecoverDuty(p)'
  BY <1>0, <1>2, <1>7 DEF RecoverDuty, RecoverSteps, Finished
<1>9. Kind[p] = "route" => EndDuty(p)'
  BY <1>duty, <1>0, <1>2, <1>7 DEF EndDuty, RecoverSteps
<1>10. Duty(p)'
  BY <1>7, <1>8, <1>9 DEF Duty, PlanDuty, Planning, SelectDuty, Selects
<1>. QED BY <1>1, <1>3, <1>4, <1>5, <1>6, <1>10, StepKeeps

\* Removing the journal: every lock of the plan is gone.
LEMMA SerialEnd ==
    ASSUME MaxLive <= 1, SerialInv, TypeInv', NEW p \in Proc, Work(p), Kind[p] # "change",
           RecoverEnd(p)
    PROVE  SerialInv'
<1>. DEFINE d == PlanOf[p]
            T == Targets[PlanOf[p]]
            b == mem[p].by
<1>types. /\ pc \in [Proc -> Step] /\ ctx \in [Proc -> {"commit", "except", "cli"}]
          /\ todo \in [Proc -> SUBSET Garden] /\ mem \in [Proc -> Journal]
          /\ canonical \in [Garden -> Tree] /\ backup \in [Proc -> [Garden -> Tree]]
          /\ lock \in [Garden -> Plan \cup {Free, Blank}] /\ TypeOK
  BY DEF SerialInv, TypeInv, TypeOK
<1>facts. /\ d \in Route /\ d # Free /\ d # Blank /\ Free # Blank
          /\ T \subseteq Garden /\ b \in Proc
  BY RouteFacts, <1>types
<1>found. RecoverFoundation(p)
  BY RecoverFounded
<1>duty. RecoverDuty(p) /\ (Kind[p] = "route" => EndDuty(p)) /\ JournalSound(d) /\ FreeInPlace
  BY <1>found DEF RecoverFoundation
<1>0. /\ pc[p] = "clean" /\ mem[p] = journal[d] /\ todo[p] = {} /\ mem[p].state # "none"
      /\ \A h \in T : lock[h] = Free
  BY <1>duty DEF RecoverEnd, RecoverDuty, RecoverSteps
<1>1. /\ journal' = [journal EXCEPT ![d] = NoJournal]
      /\ pc' = [pc EXCEPT ![p] = IF ctx[p] = "cli" THEN "idle" ELSE "finally"]
      /\ ret' \in {ret, [ret EXCEPT ![p] = "applied"]}
      /\ UNCHANGED <<canonical, lock, stage, backup, bindings, held, ctx, edits>>
  BY <1>0 DEF RecoverEnd, budget, Goto
<1>2. PICK g \in Garden : TRUE
  BY StoreAssumption DEF Garden
<1>3. ret \in [Proc -> {"none", "applied", "unchanged"}] /\ journal \in [Route -> Journal]
  BY <1>types DEF TypeOK
<1>4. LocalStep(p, g) /\ Still(g)
  BY <1>types, <1>1, <1>3 DEF LocalStep, Still, OthersWait
<1>5. journal'[d].state = "none"
  BY <1>1, <1>3, <1>facts DEF NoJournal, NewJournal
<1>6. JournalSound(d)'
  BY <1>5 DEF JournalSound
<1>7. /\ pc'[p] = (IF ctx[p] = "cli" THEN "idle" ELSE "finally")
  BY <1>types, <1>1
<1>8. Kind[p] = "route" => EndDuty(p)'
  <2>1. \A h \in T : InPlace(h)
    BY <1>duty, <1>facts, <1>0 DEF FreeInPlace
  <2>. QED BY <1>duty, <1>0, <1>1, <1>5, <1>7, <2>1 DEF EndDuty, InPlace, RecoverSteps
<1>9. Duty(p)'
  BY <1>7, <1>8 DEF Duty, PlanDuty, Planning, SelectDuty, Selects, RecoverDuty, RecoverSteps
<1>. QED BY <1>4, <1>6, <1>9, StepKeeps

\* Every step of recovery.
LEMMA SerialRecover ==
    ASSUME MaxLive <= 1, SerialInv, TypeInv', NEW p \in Proc, Work(p), RecoverStep(p)
    PROVE  SerialInv'
<1>1. Kind[p] # "change"
  BY StepKinds DEF SerialInv, TypeInv
<1>. QED
  BY <1>1, SerialRecoverQuiet, SerialPark, SerialPutback, SerialSettle, SerialCleanBackup,
     SerialUnlock, SerialEnd DEF RecoverStep

-----------------------------------------------------------------------------
(***************************************************************************)
(* Kills, failing operations, the owner and the bindings file.             *)
(***************************************************************************)
\* A killed invocation relies on nothing any more.
LEMMA SerialCrash ==
    ASSUME MaxLive <= 1, SerialInv, TypeInv', NEW p \in Proc, Crash(p)
    PROVE  SerialInv'
<1>types. pc \in [Proc -> Step] /\ held \in [Proc -> SUBSET Garden]
  BY DEF SerialInv, TypeInv, TypeOK
<1>1. /\ Live(p) /\ UNCHANGED <<files, ret, edits>>
      /\ pc' = [pc EXCEPT ![p] = IF Kind[p] = "recover" THEN "idle" ELSE "crashed"]
      /\ held' = [held EXCEPT ![p] = {}]
  BY DEF Crash, Goto
<1>2. QuietStep(p)
  BY <1>types, <1>1 DEF QuietStep, Still, OthersWait, Selects, files
<1>3. Duty(p)'
  BY <1>types, <1>1 DEF Duty, ChangeDuty, PlanDuty, SelectDuty, EndDuty, RecoverDuty, ChangeSteps,
                       Planning, Selects, RecoverSteps
<1>. QED BY <1>1, <1>2, <1>3, QuietKeeps

\* An operation that raises without effect hands over to a handler.
LEMMA SerialFault ==
    ASSUME MaxLive <= 1, SerialInv, TypeInv', NEW p \in Proc, Fault(p)
    PROVE  SerialInv'
<1>types. pc \in [Proc -> Step] /\ ctx \in [Proc -> {"commit", "except", "cli"}]
  BY DEF SerialInv, TypeInv, TypeOK
<1>duty. Duty(p) /\ Roles
  BY DEF SerialInv, TypeInv
<1>1. /\ Live(p) /\ UNCHANGED <<files, todo, held, mem, ctx, ret, edits>>
      /\ pc' = [pc EXCEPT ![p] = Handler(p)]
  BY DEF Fault, Goto
<1>2. Selects(p)' => Selects(p)
  <2>1. Handler(p) \in {"cundo", "done", "cfinally", "except", "finally", "idle"}
    BY <1>1, <1>types
       DEF Live, Step, Handler, ChangeHandler, GroupHandler, RecoverHandler, ChangeSteps,
           ApplySteps, RecoverSteps
  <2>. QED BY <1>types, <1>1, <2>1 DEF Selects
<1>3. QuietStep(p)
  BY <1>types, <1>1, <1>2 DEF QuietStep, Still, OthersWait, files
<1>. SUFFICES Duty(p)'
  BY <1>1, <1>3, QuietKeeps
<1>4. CASE pc[p] \in ChangeSteps
  <2>1. Kind[p] = "change" /\ pc'[p] = ChangeHandler(pc[p])
    BY <1>types, <1>duty, <1>1, <1>4 DEF Roles, Handler
  <2>2. ChangeDuty(p)'
    BY <1>duty, <1>1, <1>4, <2>1
       DEF Duty, ChangeDuty, ChangeSteps, ChangeHandler, files, InPlace, OnlyBackup
  <2>. QED BY <2>1, <2>2 DEF Duty
<1>5. CASE pc[p] \in ApplySteps
  <2>1. Kind[p] = "route" /\ pc'[p] = "except"
    <3>1. Kind[p] = "route" /\ pc[p] \notin ChangeSteps
      BY <1>duty, <1>5 DEF Roles, ChangeSteps, ApplySteps
    <3>2. Handler(p) = "except"
      BY <1>5, <3>1 DEF Handler, GroupHandler, RecoverSteps, ApplySteps
    <3>. QED BY <1>types, <1>1, <3>1, <3>2
  <2>2. CASE pc[p] \in Planning
    BY <1>duty, <1>1, <2>1, <2>2
       DEF Duty, EndDuty, PlanDuty, SelectDuty, RecoverDuty, Planning, Selects, RecoverSteps,
           InPlace, files
  <2>3. CASE Selects(p)
    BY <1>duty, <1>1, <2>1, <2>3
       DEF Duty, EndDuty, PlanDuty, SelectDuty, RecoverDuty, Planning, Selects, RecoverSteps, files
  <2>. QED BY <1>5, <2>2, <2>3 DEF ApplySteps, Planning, Selects
<1>6. CASE pc[p] \in RecoverSteps
  <2>1. Kind[p] # "change" /\ Handler(p) = RecoverHandler(p)
    BY <1>duty, <1>6 DEF Roles, Handler, GroupHandler, ChangeSteps, ApplySteps, RecoverSteps
  <2>. QED BY <1>1, <1>6, <2>1, RecoverFounded, HandlerDuty DEF files
<1>7. CASE pc[p] \in {"except", "finally", "release"}
  <2>1. Kind[p] = "route" /\ pc'[p] \in {"finally", "done"}
    BY <1>types, <1>duty, <1>1, <1>7
       DEF Roles, Handler, GroupHandler, ChangeSteps, ApplySteps, RecoverSteps
  <2>. QED BY <1>duty, <1>1, <1>7, <2>1
              DEF Duty, EndDuty, PlanDuty, SelectDuty, RecoverDuty, Planning, Selects,
                  RecoverSteps, InPlace, files
<1>. QED BY <1>types, <1>1, <1>4, <1>5, <1>6, <1>7 DEF Live, Step

\* A lock file that was created but not written is not in the list of locks.
LEMMA SerialLockFault ==
    ASSUME MaxLive <= 1, SerialInv, TypeInv', NEW p \in Proc, LockFault(p)
    PROVE  SerialInv'
<1>types. /\ pc \in [Proc -> Step] /\ held \in [Proc -> SUBSET Garden]
          /\ todo \in [Proc -> SUBSET Garden] /\ lock \in [Garden -> Plan \cup {Free, Blank}]
  BY DEF SerialInv, TypeInv, TypeOK
<1>0. pc[p] = "lock" /\ todo[p] # {} /\ Kind[p] = "route"
  BY DEF LockFault, SerialInv, TypeInv, Looping, Roles, ApplySteps
<1>facts. /\ PlanOf[p] \in Route /\ PlanOf[p] # Free /\ PlanOf[p] # Blank /\ Free # Blank
          /\ Targets[PlanOf[p]] \subseteq Garden
  BY <1>0, RouteFacts DEF SerialInv, TypeInv
<1>duty. PlanDuty(p) /\ EndDuty(p) /\ FreeInPlace
  BY <1>0, RouteFounded DEF RouteFoundation
<1>g. PICK g \in todo[p] : g = First(todo[p])
  BY <1>types, <1>0, FirstMember
<1>1. /\ lock[g] = Free /\ lock' = [lock EXCEPT ![g] = Blank] /\ g \in Garden
      /\ pc' = [pc EXCEPT ![p] = "except"]
      /\ UNCHANGED <<canonical, journal, stage, backup, bindings, held, ret, edits>>
  BY <1>types, <1>g DEF LockFault, Goto
<1>2. LocalStep(p, g)
  BY <1>types, <1>1 DEF LocalStep, Still, OthersWait
<1>3. InPlace(g)' /\ lock[g] \in OwnLock(p) /\ lock'[g] \in OwnLock(p)
  BY <1>types, <1>duty, <1>1 DEF FreeInPlace, InPlace, OwnLock
<1>4. /\ journal[PlanOf[p]].state = "none"
      /\ \A h \in held[p] : lock[h] = PlanOf[p] /\ InPlace(h)
  BY <1>duty, <1>0 DEF PlanDuty, Planning
<1>5. JournalSound(PlanOf[p])'
  BY <1>1, <1>4 DEF JournalSound
<1>6. EndDuty(p)'
  <2>1. \A h \in held[p] : lock'[h] = PlanOf[p] /\ InPlace(h)'
    BY <1>types, <1>facts, <1>1, <1>4 DEF InPlace
  <2>. QED BY <1>types, <1>duty, <1>1, <2>1 DEF EndDuty, RecoverSteps
<1>7. PlanDuty(p)' /\ SelectDuty(p)' /\ RecoverDuty(p)'
  BY <1>types, <1>1 DEF PlanDuty, Planning, SelectDuty, Selects, RecoverDuty, RecoverSteps
<1>8. Duty(p)'
  BY <1>0, <1>6, <1>7 DEF Duty
<1>. QED BY <1>0, <1>1, <1>2, <1>3, <1>5, <1>8, StepKeeps DEF Live

\* An edit only adds to trees in place; nobody runs meanwhile, or all knowledge
\* of what the trees were is void.
LEMMA SerialEdit ==
    ASSUME SerialInv, TypeInv', OwnerEdit
    PROVE  SerialInv'
<1>types. TypeOK /\ pc \in [Proc -> Step] /\ canonical \in [Garden -> Tree]
  BY DEF SerialInv, TypeInv, TypeOK
<1>1. /\ UNCHANGED <<lock, journal, stage, backup, bindings, pc, todo, held, mem, ctx, ret>>
      /\ edits' # {} /\ (LiveEdits \/ Running = {})
  BY DEF OwnerEdit, invocation
<1>trees. ASSUME NEW h \in Garden
          PROVE  /\ canonical[h] \subseteq canonical'[h]
                 /\ canonical[h] = Missing => canonical'[h] = Missing
                 /\ canonical[h] # Missing => canonical'[h] # Missing
  BY <1>types DEF OwnerEdit, Missing
<1>2. \A p \in Proc : LiveEdits \/ ~Live(p)
  BY <1>1 DEF Running
<1>3. \A p \in Proc : Live(p) => ~Calm'
  BY <1>1, <1>2 DEF Calm
<1>4. Alone' /\ FreeInPlace'
  BY <1>1, <1>trees DEF SerialInv, Alone, Live, FreeInPlace, InPlace
<1>5. ASSUME NEW d \in Route PROVE JournalSound(d)'
  <2>1. JournalSound(d) /\ Targets[d] \subseteq Garden
    BY <1>types, JournalFacts DEF SerialInv
  <2>2. ~Sure(d)'
    BY <1>1, <1>2 DEF Sure, Selects, Live
  <2>3. ASSUME NEW g \in Targets[d], LockedSound(d, g) PROVE LockedSound(d, g)'
    BY <1>1, <1>trees, <2>1, <2>3 DEF LockedSound, OnlyBackup, Finished
  <2>4. ASSUME NEW g \in Targets[d], OriginalSound(d, g) PROVE OriginalSound(d, g)'
    <3>1. canonical[g] \subseteq canonical'[g]
      BY <1>trees, <2>1
    <3>. QED BY <1>1, <2>2, <2>4, <3>1 DEF OriginalSound
  <2>. QED BY <1>1, <2>1, <2>3, <2>4 DEF JournalSound, Entries, Unfinished
<1>6. ASSUME NEW p \in Proc PROVE Duty(p)'
  <2>1. Duty(p)
    BY DEF SerialInv
  <2>2. CASE Kind[p] = "change"
    <3>1. Home(p) \in Garden
      BY <2>2, HomeInGarden
    <3>2. /\ canonical[Home(p)] = Missing => canonical'[Home(p)] = Missing
          /\ canonical[Home(p)] # Missing => canonical'[Home(p)] # Missing
      BY <1>trees, <3>1
    <3>3. ChangeDuty(p)
      BY <2>1, <2>2 DEF Duty
    <3>4. UNCHANGED <<lock[Home(p)], backup, stage, pc, ret>>
      BY <1>1
    <3>5. ChangeDuty(p)'
      BY <3>2, <3>3, <3>4 DEF ChangeDuty, InPlace, OnlyBackup
    <3>. QED BY <2>2, <3>5 DEF Duty
  <2>3. CASE Kind[p] # "change"
    <3>0. /\ Targets[PlanOf[p]] \subseteq Garden /\ held[p] \subseteq Garden
          /\ todo[p] \subseteq Garden
      BY <1>types, <2>3, RouteFacts
    <3>1. Kind[p] = "route" => PlanDuty(p)'
      <4>. SUFFICES ASSUME Kind[p] = "route", pc[p] \in Planning PROVE PlanDuty(p)'
        BY <1>1 DEF PlanDuty
      <4>1. PlanDuty(p) /\ ~Calm'
        BY <1>3, <2>1 DEF Duty, Planning, Live
      <4>2. Recorded(p)'
        <5>1. Recorded(p) /\ Entries(mem[p]) \subseteq Garden
          BY <4>1, EntriesInGarden DEF PlanDuty
        <5>2. ASSUME NEW h \in Entries(mem[p]) PROVE mem[p].before[h] \subseteq canonical'[h]
          <6>1. mem[p].before[h] \subseteq canonical[h] /\ h \in Garden
            BY <5>1 DEF Recorded
          <6>2. canonical[h] \subseteq canonical'[h]
            BY <1>trees, <6>1
          <6>. QED BY <6>1, <6>2
        <5>. QED BY <1>1, <4>1, <5>1, <5>2 DEF Recorded, Entries
      <4>3. \A h \in held[p] : InPlace(h) => InPlace(h)'
        BY <1>1, <1>trees, <3>0 DEF InPlace
      <4>. QED BY <1>1, <4>1, <4>2, <4>3 DEF PlanDuty, Entries
    <3>2. Kind[p] = "route" => SelectDuty(p)'
      <4>. SUFFICES ASSUME Kind[p] = "route", Selects(p) PROVE SelectDuty(p)'
        BY <1>1 DEF SelectDuty, Selects
      <4>1. SelectDuty(p) /\ ~Calm'
        BY <1>3, <2>1 DEF Duty, Selects, Live
      <4>2. pc[p] = "select" => canonical'[First(todo[p])] = Missing
        <5>. SUFFICES ASSUME pc[p] = "select" PROVE canonical'[First(todo[p])] = Missing
          OBVIOUS
        <5>1. First(todo[p]) \in Garden
          BY <3>0, <4>1, FirstMember DEF SelectDuty, Selects
        <5>. QED BY <1>trees, <4>1, <5>1 DEF SelectDuty, Selects
      <4>3. \A h \in Targets[PlanOf[p]] : canonical[h] # Missing => canonical'[h] # Missing
        BY <1>trees, <3>0
      <4>4. UNCHANGED <<journal, mem, stage, backup, pc, todo>>
        BY <1>1
      <4>. QED BY <4>1, <4>2, <4>3, <4>4 DEF SelectDuty, Selects
    <3>3. Kind[p] = "route" => EndDuty(p)'
      BY <1>1, <1>trees, <2>1, <3>0 DEF Duty, EndDuty, InPlace
    <3>4. RecoverDuty(p)'
      BY <1>1, <1>trees, <2>1, <2>3 DEF Duty, RecoverDuty, Finished
    <3>. QED BY <2>3, <3>1, <3>2, <3>3, <3>4 DEF Duty
  <2>. QED BY <2>2, <2>3
<1>. QED BY <1>4, <1>5, <1>6 DEF SerialInv

\* A new bindings file, and no step at all.
LEMMA SerialRest ==
    ASSUME SerialInv, TypeInv', Rebind \/ UNCHANGED vars
    PROVE  SerialInv'
<1>types. TypeOK /\ bindings \in Nat /\ bindings' \in Nat
  BY DEF SerialInv, TypeInv, TypeOK
<1>1. /\ UNCHANGED <<canonical, lock, journal, stage, backup, pc, todo, held, mem, ctx, ret, edits>>
      /\ bindings <= bindings'
  BY <1>types DEF Rebind, vars, files, invocation, budget
<1>2. Alone' /\ FreeInPlace'
  BY <1>1 DEF SerialInv, Alone, Live, FreeInPlace, InPlace
<1>3. ASSUME NEW d \in Route PROVE JournalSound(d)'
  <2>1. JournalSound(d) /\ (Sure(d)' => Sure(d)) /\ \A h \in Garden : Still(h)
    BY <1>1 DEF SerialInv, Sure, Selects, Still
  <2>. QED BY <1>types, <1>1, <2>1, JournalFacts, JournalKept
<1>4. ASSUME NEW p \in Proc PROVE Duty(p)'
  <2>1. Duty(p)
    BY DEF SerialInv
  <2>2. Kind[p] = "change" => ChangeDuty(p)'
    BY <1>1, <2>1 DEF Duty, ChangeDuty, InPlace, OnlyBackup
  <2>3. Kind[p] = "route" => PlanDuty(p)'
    <3>. SUFFICES ASSUME Kind[p] = "route", pc[p] \in Planning PROVE PlanDuty(p)'
      BY <1>1 DEF PlanDuty
    <3>1. mem[p].bindings \in Nat
      <4>1. mem[p] \in Journal
        BY <1>types DEF TypeOK
      <4>. QED BY <4>1 DEF Journal
    <3>2. mem[p].bindings <= bindings'
      BY <1>types, <1>1, <2>1, <3>1 DEF Duty, PlanDuty
    <3>. QED BY <1>1, <2>1, <3>2 DEF Duty, PlanDuty, Recorded, InPlace, Entries, Calm
  <2>4. Kind[p] = "route" => SelectDuty(p)' /\ EndDuty(p)'
    BY <1>1, <2>1 DEF Duty, SelectDuty, Selects, EndDuty, InPlace, Calm
  <2>5. Kind[p] # "change" => RecoverDuty(p)'
    BY <1>1, <2>1 DEF Duty, RecoverDuty, Finished
  <2>. QED BY <2>2, <2>3, <2>4, <2>5 DEF Duty
<1>. QED BY <1>2, <1>3, <1>4 DEF SerialInv

-----------------------------------------------------------------------------
\* Nothing has happened yet.
LEMMA SerialInit == Init => SerialInv
<1>. SUFFICES ASSUME Init PROVE SerialInv
  OBVIOUS
<1>1. TypeInv
  BY TypeInit
<1>. USE DEF Init, StoreInit
<1>2. Alone /\ FreeInPlace
  BY DEF Alone, Live, FreeInPlace, InPlace, Missing
<1>3. \A d \in Route : JournalSound(d)
  BY DEF JournalSound, NoJournal, NewJournal
<1>4. \A p \in Proc : Duty(p)
  BY DEF Duty, ChangeDuty, PlanDuty, SelectDuty, EndDuty, RecoverDuty, ChangeSteps, Planning,
         Selects, RecoverSteps
<1>. QED BY <1>1, <1>2, <1>3, <1>4 DEF SerialInv

LEMMA SerialNext ==
    ASSUME MaxLive <= 1, SerialInv, [Next]_vars
    PROVE  SerialInv'
<1>1. TypeInv'
  BY TypeNext, RolesNext DEF SerialInv, TypeInv
<1>2. ASSUME NEW p \in Proc, Work(p) PROVE SerialInv'
  BY <1>1, <1>2, SerialChange, SerialRoute, SerialRecover DEF Work
<1>3. ASSUME NEW p \in Proc, Crash(p) \/ Fault(p) \/ LockFault(p) PROVE SerialInv'
  BY <1>1, <1>3, SerialCrash, SerialFault, SerialLockFault
<1>4. CASE OwnerEdit
  BY <1>1, <1>4, SerialEdit
<1>5. CASE Rebind \/ UNCHANGED vars
  BY <1>1, <1>5, SerialRest
<1>. QED BY <1>2, <1>3, <1>4, <1>5 DEF Next

\* For any gardens, plans and invocations of which one runs at a time, and any
\* kills, failing operations, edits and bindings: every tree that an unfinished
\* journal would restore still exists complete.
THEOREM SerialOriginalsSurvive ==
    ASSUME MaxLive <= 1
    PROVE  Spec => []OriginalsSurvive
<1>1. SerialInv => OriginalsSurvive
  <2>. SUFFICES ASSUME SerialInv, NEW d \in Route, Unfinished(journal[d]),
                       NEW g \in Entries(journal[d])
                PROVE  \/ journal[d].before[g] \subseteq canonical[g]
                       \/ journal[d].before[g] \subseteq backup[journal[d].by][g]
    BY DEF OriginalsSurvive
  <2>1. JournalSound(d) /\ journal[d].state # "none"
    BY DEF SerialInv, Unfinished
  <2>2. OriginalSound(d, g)
    BY <2>1 DEF JournalSound
  <2>. QED BY <2>2 DEF OriginalSound
<1>2. SerialInv /\ [Next]_vars => SerialInv'
  BY SerialNext
<1>. QED BY SerialInit, <1>1, <1>2, PTL DEF Spec

\* Likewise: while nobody edits a tree or changes the bindings, recovery accepts
\* whatever an interrupted apply or rollback left behind.
THEOREM SerialRecoverable ==
    ASSUME MaxLive <= 1
    PROVE  Spec => []UnfinishedIsRecoverable
<1>1. SerialInv => UnfinishedIsRecoverable
  <2>. SUFFICES ASSUME SerialInv, edits = {}, bindings = 0, NEW d \in Route,
                       Unfinished(journal[d])
                PROVE  Recoverable(d)
    BY DEF UnfinishedIsRecoverable
  <2>1. JournalSound(d) /\ journal[d].state # "none" /\ Sure(d) /\ ~Finished(journal[d])
        /\ journal[d].state # "committed"
    BY DEF SerialInv, Unfinished, Finished, Sure
  <2>2. journal[d].bindings = 0
    <3>1. journal[d].bindings \in Nat /\ journal[d].bindings <= 0
      BY <2>1, JournalFacts DEF SerialInv, TypeInv, JournalSound
    <3>. QED BY <3>1
  <2>3. ASSUME NEW g \in Entries(journal[d]) PROVE OwnedAndKnown(d, g)
    <3>1. OriginalSound(d, g)
      BY <2>1 DEF JournalSound
    <3>. QED BY <2>1, <3>1 DEF OriginalSound, KnownTrees, OwnedAndKnown
  <2>. QED BY <2>1, <2>2, <2>3 DEF Recoverable
<1>2. SerialInv /\ [Next]_vars => SerialInv'
  BY SerialNext
<1>. QED BY SerialInit, <1>1, <1>2, PTL DEF Spec

-----------------------------------------------------------------------------
(***************************************************************************)
(* Nothing is left behind.                                                 *)
(***************************************************************************)
Undisturbed == crashes = 0 /\ faults = 0 /\ bindings = 0

NoStages(p) == \A g \in Garden : stage[p][g] = Missing
NoBackups(p, G) == \A g \in G : backup[p][g] = Missing

\* What a single-garden apply has left beside gardens.
ChangeTidy(p) ==
    LET others == Garden \ {Home(p)} IN
    /\ pc[p] \notin {"crashed", "cundo"} /\ held[p] \subseteq {Home(p)}
    /\ NoBackups(p, others) /\ \A g \in others : stage[p][g] = Missing
    /\ pc[p] \in {"idle", "cverify", "cblob", "cstage", "crelease", "done"} => NoStages(p)
    /\ pc[p] \in {"idle", "crelease", "done"} => NoBackups(p, Garden)
    /\ pc[p] = "cfinally" => ret[p] = "applied" \/ backup[p][Home(p)] = Missing

\* What a routing apply has left, and that it recovers only after it has committed.
RouteTidy(p) ==
    LET d == PlanOf[p] IN
    /\ pc[p] # "crashed"
    /\ NoBackups(p, Garden \ Targets[d])
    /\ pc[p] \in {"idle", "lock", "verify", "release", "done"} => NoStages(p)
    /\ pc[p] \in Planning \cup {"idle", "except", "finally", "release", "done"} =>
          NoBackups(p, Garden)
    /\ pc[p] \in {"except", "finally", "release"} => journal[d].state = "none"
    /\ pc[p] \in RecoverSteps =>
          ctx[p] = "commit" /\ journal[d].by = p /\ journal[d].state = "committed"
    /\ pc[p] = "check" => Recoverable(d)
    /\ pc[p] \in {"clean", "cleanBackup", "unlock"} => NoBackups(p, Targets[d] \ todo[p])

Tidy(p) ==
    /\ Kind[p] = "change" => ChangeTidy(p)
    /\ Kind[p] = "route" => RouteTidy(p)
    /\ Kind[p] = "recover" => pc[p] = "idle" /\ NoStages(p) /\ NoBackups(p, Garden)

\* Every lock and every journal is that of p, which runs.
Mine(p) ==
    /\ \A g \in Garden : lock[g] # Free => Live(p) /\ g \in held[p]
    /\ \A d \in Route : journal[d].state # "none" =>
          Kind[p] = "route" /\ PlanOf[p] = d /\ (Selects(p) \/ pc[p] \in RecoverSteps)

\* A step of p: the others keep their place and what they have beside gardens.
OwnTemporaries(p) ==
    \A q \in Proc : q # p => stage'[q] = stage[q] /\ backup'[q] = backup[q] /\ pc'[q] = pc[q]
                             /\ held'[q] = held[q]

TidyInv == Undisturbed => (\A p \in Proc : Tidy(p)) /\ (\E p \in Proc : Mine(p))

\* Where nobody else runs, the locks and journals are those of p.
LEMMA MineAlone ==
    ASSUME MaxLive <= 1, TypeInv, Alone, NEW p \in Proc, Live(p) \/ Work(p),
           NEW q \in Proc, Mine(q)
    PROVE  Mine(p)
<1>1. CASE q = p
  BY <1>1
<1>2. CASE q # p
  <2>1. ~Live(q)
    BY <1>2, OnlyActor
  <2>2. ~Selects(q) /\ pc[q] \notin RecoverSteps
    BY <2>1 DEF Live, Selects, RecoverSteps
  <2>. QED BY <2>1, <2>2 DEF Mine
<1>. QED BY <1>1, <1>2

\* What is left to show for a step of p.
LEMMA TidyStep ==
    ASSUME MaxLive <= 1, SerialInv, NEW p \in Proc, Live(p) \/ Work(p),
           \A q \in Proc : Tidy(q), OwnTemporaries(p), Tidy(p)', Mine(p)'
    PROVE  (\A q \in Proc : Tidy(q)') /\ (\E q \in Proc : Mine(q)')
<1>1. ASSUME NEW q \in Proc, q # p PROVE Tidy(q)'
  <2>1. ~Live(q) /\ Tidy(q)
    BY <1>1, OnlyActor DEF SerialInv
  <2>2. stage'[q] = stage[q] /\ backup'[q] = backup[q] /\ pc'[q] = pc[q] /\ held'[q] = held[q]
    BY <1>1 DEF OwnTemporaries
  <2>3. pc[q] \in Step
    BY DEF SerialInv, TypeInv, TypeOK
  <2>4. pc[q] \in {"idle", "done", "crashed"}
    BY <2>1, <2>3 DEF Live
  <2>5. Kind[q] = "change" => ChangeTidy(q)'
    BY <2>1, <2>2, <2>4 DEF Tidy, ChangeTidy, NoStages, NoBackups
  <2>6. Kind[q] = "route" => RouteTidy(q)'
    BY <2>1, <2>2, <2>4 DEF Tidy, RouteTidy, NoStages, NoBackups, Planning, RecoverSteps
  <2>. QED BY <2>1, <2>2, <2>5, <2>6 DEF Tidy, NoStages, NoBackups
<1>. QED BY <1>1

\* The steps of a single-garden apply.
LEMMA TidyChange ==
    ASSUME SerialInv, NEW p \in Proc, Kind[p] = "change", Tidy(p), Mine(p), ChangeStep(p)
    PROVE  Tidy(p)' /\ Mine(p)' /\ OwnTemporaries(p)
<1>types. /\ canonical \in [Garden -> Tree] /\ lock \in [Garden -> Plan \cup {Free, Blank}]
          /\ pc \in [Proc -> Step] /\ held \in [Proc -> SUBSET Garden]
          /\ ret \in [Proc -> {"none", "applied", "unchanged"}]
          /\ stage \in [Proc -> [Garden -> Tree]] /\ backup \in [Proc -> [Garden -> Tree]]
  BY DEF SerialInv, TypeInv, TypeOK
<1>home. Home(p) \in Garden
  BY HomeInGarden
<1>plan. PlanOf[p] # Free /\ PlanOf[p] # Blank /\ Free # Blank
  BY PlanKinds, LocksDiffer
<1>duty. ChangeDuty(p) /\ ChangeTidy(p)
  BY DEF SerialInv, Duty, Tidy
<1>mine. /\ \A d \in Route : journal[d].state = "none"
         /\ \A g \in Garden : lock[g] # Free => Live(p) /\ g \in held[p]
  BY DEF Mine
<1>. DEFINE g == Home(p)
<1>. SUFFICES ChangeTidy(p)' /\ Mine(p)' /\ OwnTemporaries(p)
  BY DEF Tidy
<1>. HIDE DEF g
<1>g. Home(p) = g
  BY DEF g
<1>. USE <1>types, <1>home, <1>plan, <1>g
     DEF ChangeTidy, OwnTemporaries, NoStages, NoBackups, Goto
<1>1. CASE ChangeLock(p)
  <2>1. ChangeTidy(p)' /\ OwnTemporaries(p)
    BY <1>1, <1>duty DEF ChangeLock
  <2>2. Mine(p)'
    BY <1>1, <1>mine DEF ChangeLock, Mine, Live
  <2>. QED BY <2>1, <2>2
<1>2. CASE ChangeVerify(p)
  <2>1. ChangeTidy(p)' /\ OwnTemporaries(p)
    BY <1>2, <1>duty DEF ChangeVerify, files, ChangeDuty, InPlace
  <2>2. Mine(p)'
    BY <1>2, <1>mine DEF ChangeVerify, files, Mine, Live
  <2>. QED BY <2>1, <2>2
<1>3. CASE ChangeBlob(p)
  <2>1. ChangeTidy(p)' /\ OwnTemporaries(p)
    BY <1>3, <1>duty DEF ChangeBlob
  <2>2. Mine(p)'
    BY <1>3, <1>mine DEF ChangeBlob, Mine, Live
  <2>. QED BY <2>1, <2>2
<1>4. CASE ChangeStage(p)
  <2>1. ChangeTidy(p)' /\ OwnTemporaries(p)
    BY <1>4, <1>duty DEF ChangeStage, ChangeDuty, InPlace
  <2>2. Mine(p)'
    BY <1>4, <1>mine DEF ChangeStage, Mine, Live
  <2>. QED BY <2>1, <2>2
<1>5. CASE ChangeRecheck(p)
  <2>1. ChangeTidy(p)' /\ OwnTemporaries(p)
    BY <1>5, <1>duty DEF ChangeRecheck, files, ChangeDuty, InPlace
  <2>2. Mine(p)'
    BY <1>5, <1>mine DEF ChangeRecheck, files, Mine, Live
  <2>. QED BY <2>1, <2>2
<1>6. CASE ChangeJournal(p)
  <2>1. ChangeTidy(p)' /\ OwnTemporaries(p)
    BY <1>6, <1>duty DEF ChangeJournal
  <2>2. g \in held[p]
    BY <1>6, <1>duty, <1>mine DEF ChangeJournal, ChangeDuty, ChangeSteps
  <2>3. Mine(p)'
    BY <1>6, <1>mine, <2>2 DEF ChangeJournal, Mine, Live
  <2>. QED BY <2>1, <2>3
<1>7. CASE ChangeRetire(p)
  <2>1. canonical[g] # Missing
    BY <1>7, <1>duty DEF ChangeRetire, ChangeDuty, InPlace
  <2>2. ChangeTidy(p)' /\ OwnTemporaries(p)
    BY <1>7, <1>duty, <2>1 DEF ChangeRetire
  <2>3. Mine(p)'
    BY <1>7, <1>mine DEF ChangeRetire, Mine, Live
  <2>. QED BY <2>2, <2>3
<1>8. CASE ChangeSelect(p)
  <2>1. canonical[g] = Missing
    BY <1>8, <1>duty DEF ChangeSelect, ChangeDuty
  <2>2. ChangeTidy(p)' /\ OwnTemporaries(p)
    BY <1>8, <1>duty, <2>1 DEF ChangeSelect
  <2>3. Mine(p)'
    BY <1>8, <1>mine DEF ChangeSelect, Mine, Live
  <2>. QED BY <2>2, <2>3
<1>9. CASE ChangeUndo(p)
  BY <1>9, <1>duty DEF ChangeUndo
<1>10. CASE ChangeFinally(p)
  <2>1. ChangeTidy(p)' /\ OwnTemporaries(p)
    BY <1>10, <1>duty DEF ChangeFinally
  <2>2. Mine(p)'
    BY <1>10, <1>mine DEF ChangeFinally, Mine, Live
  <2>. QED BY <2>1, <2>2
<1>11. CASE ChangeRelease(p)
  <2>1. ChangeTidy(p)' /\ OwnTemporaries(p)
    BY <1>11, <1>duty DEF ChangeRelease
  <2>2. backup[p][g] = Missing
    BY <1>11, <1>duty DEF ChangeRelease
  <2>3. \A h \in Garden : lock'[h] = Free
    BY <1>11, <1>duty, <1>mine, <2>2 DEF ChangeRelease
  <2>4. Mine(p)'
    BY <1>11, <1>mine, <2>3 DEF ChangeRelease, Mine
  <2>. QED BY <2>1, <2>4
<1>. QED
  BY <1>1, <1>2, <1>3, <1>4, <1>5, <1>6, <1>7, <1>8, <1>9, <1>10, <1>11 DEF ChangeStep


\* The steps of a routing apply; if nobody edits while it runs, it selects all
\* its stages and its own recovery accepts the committed journal.
LEMMA TidyRoute ==
    ASSUME ~LiveEdits, SerialInv, SerialInv', NEW p \in Proc, Kind[p] = "route", bindings = 0,
           Tidy(p), Mine(p), RouteStep(p)
    PROVE  Tidy(p)' /\ Mine(p)' /\ OwnTemporaries(p)
<1>. DEFINE d == PlanOf[p]
            T == Targets[PlanOf[p]]
<1>types. /\ TypeOK /\ pc \in [Proc -> Step] /\ held \in [Proc -> SUBSET Garden]
          /\ canonical \in [Garden -> Tree] /\ lock \in [Garden -> Plan \cup {Free, Blank}]
          /\ todo \in [Proc -> SUBSET Garden] /\ ctx \in [Proc -> {"commit", "except", "cli"}]
          /\ stage \in [Proc -> [Garden -> Tree]] /\ backup \in [Proc -> [Garden -> Tree]]
          /\ journal \in [Route -> Journal]
  BY DEF SerialInv, TypeInv, TypeOK
<1>facts. /\ d \in Route /\ T \subseteq Garden /\ d # Free
          /\ todo[p] \subseteq Garden /\ held[p] \subseteq Garden
  BY <1>types, RouteFacts
<1>tidy. RouteTidy(p)
  BY DEF Tidy
<1>mine. /\ \A g \in Garden : lock[g] # Free => Live(p) /\ g \in held[p]
         /\ \A e \in Route : journal[e].state # "none" =>
               e = d /\ (Selects(p) \/ pc[p] \in RecoverSteps)
  BY DEF Mine
<1>found. PlanDuty(p) /\ SelectDuty(p) /\ EndDuty(p) /\ JournalSound(d)
  BY RouteFounded DEF RouteFoundation
<1>. SUFFICES RouteTidy(p)' /\ Mine(p)' /\ OwnTemporaries(p)
  BY DEF Tidy
<1>. USE <1>types, <1>facts DEF OwnTemporaries, Goto
<1>1. CASE RouteBegin(p)
  <2>1. pc[p] = "idle" /\ journal[d].state = "none"
    BY <1>1, <1>mine DEF RouteBegin, Selects, RecoverSteps
  <2>2. pc' = [pc EXCEPT ![p] = "lock"] /\ UNCHANGED <<files, held, ctx>>
    BY <1>1, <2>1 DEF RouteBegin
  <2>3. RouteTidy(p)'
    BY <1>tidy, <2>1, <2>2 DEF RouteTidy, NoStages, NoBackups, RecoverSteps, files
  <2>4. Mine(p)'
    BY <1>mine, <2>1, <2>2 DEF Mine, Live, Selects, RecoverSteps, files
  <2>. QED BY <2>2, <2>3, <2>4 DEF files
<1>2. CASE RouteLock(p)
  <2>1. pc[p] = "lock" /\ journal[d].state = "none" /\ todo[p] # {}
    BY <1>2, <1>mine DEF RouteLock, Selects, RecoverSteps, SerialInv, TypeInv, Looping
  <2>g. PICK g \in todo[p] : g = First(todo[p])
    BY <2>1, FirstMember
  <2>2. /\ pc' = [pc EXCEPT ![p] = pc'[p]] /\ pc'[p] \in {"lock", "verify", "except"}
        /\ UNCHANGED <<canonical, journal, stage, backup, bindings, ctx>>
        /\ \/ lock' = lock /\ held' = held
           \/ lock' = [lock EXCEPT ![g] = d] /\ held' = [held EXCEPT ![p] = @ \cup {g}]
    BY <1>2, <2>g DEF RouteLock
  <2>3. RouteTidy(p)'
    BY <1>tidy, <2>1, <2>2 DEF RouteTidy, NoStages, NoBackups, RecoverSteps, Planning
  <2>4. Mine(p)'
    <3>1. \A h \in Garden : lock'[h] # Free => Live(p)' /\ h \in held'[p]
      BY <1>mine, <2>1, <2>2, <2>g DEF Live
    <3>2. \A e \in Route : journal'[e].state = "none"
      BY <1>mine, <2>1, <2>2 DEF Selects, RecoverSteps
    <3>. QED BY <3>1, <3>2 DEF Mine
  <2>5. OwnTemporaries(p)
    BY <2>2
  <2>. QED BY <2>3, <2>4, <2>5
<1>3. CASE RouteVerify(p) \/ RouteCopy(p) \/ RouteRecord(p) \/ RouteValidate(p) \/ RouteReverify(p)
  <2>1. pc[p] \in Planning /\ pc[p] # "lock" /\ journal[d].state = "none"
    BY <1>3, <1>mine DEF RouteVerify, RouteCopy, RouteRecord, RouteValidate, RouteReverify,
                         Selects, RecoverSteps, Planning
  <2>2. /\ pc' = [pc EXCEPT ![p] = pc'[p]]
        /\ pc'[p] \in (Planning \ {"lock", "verify"}) \cup {"except", "finally"}
        /\ UNCHANGED <<canonical, journal, lock, backup, bindings, held, ctx>>
        /\ \A q \in Proc : q # p => stage'[q] = stage[q]
    BY <1>3 DEF RouteVerify, RouteCopy, RouteRecord, RouteValidate, RouteReverify, Planning, files
  <2>3. RouteTidy(p)'
    BY <1>tidy, <2>1, <2>2 DEF RouteTidy, NoStages, NoBackups, RecoverSteps, Planning
  <2>4. Mine(p)'
    BY <1>mine, <2>1, <2>2 DEF Mine, Live, Selects, RecoverSteps, Planning
  <2>. QED BY <2>2, <2>3, <2>4
<1>4. CASE RoutePrepare(p) \/ RouteSelecting(p)
  <2>1. /\ pc[p] \in {"prepare", "selecting"}
        /\ pc' = [pc EXCEPT ![p] = pc'[p]] /\ pc'[p] \in {"selecting", "retire"}
        /\ UNCHANGED <<canonical, lock, stage, backup, bindings, held, ctx>>
        /\ \A e \in Route : e # d => journal'[e] = journal[e]
    BY <1>4 DEF RoutePrepare, RouteSelecting, WriteJournal
  <2>2. RouteTidy(p)'
    BY <1>tidy, <2>1 DEF RouteTidy, NoStages, NoBackups, RecoverSteps, Planning
  <2>3. Mine(p)'
    BY <1>mine, <2>1 DEF Mine, Live, Selects, RecoverSteps
  <2>. QED BY <2>1, <2>2, <2>3
<1>5. CASE RouteRetire(p)
  <2>1. /\ pc[p] = "retire" /\ journal[d] = mem[p] /\ mem[p].by = p /\ mem[p].state = "selecting"
        /\ todo[p] # {} /\ todo[p] \subseteq T
        /\ \A h \in todo[p] : backup[p][h] = Missing
    <3>1. pc[p] = "retire"
      BY <1>5 DEF RouteRetire
    <3>. QED BY <1>found, <3>1 DEF SelectDuty, Selects
  <2>g. PICK g \in todo[p] : g = First(todo[p])
    BY <2>1, FirstMember
  <2>2. OriginalSound(d, g) /\ Entries(mem[p]) = T
    BY <1>found, <2>1 DEF JournalSound, Unfinished
  <2>3. canonical[g] # Missing
    BY <2>1, <2>2 DEF OriginalSound, Entries, Missing
  <2>4. /\ backup' = [backup EXCEPT ![p][g] = canonical[g]]
        /\ pc' = [pc EXCEPT ![p] = "select"]
        /\ UNCHANGED <<lock, journal, stage, bindings, held, ctx>>
    BY <1>5, <2>g, <2>3 DEF RouteRetire
  <2>5. RouteTidy(p)'
    <3>1. \A h \in Garden \ T : backup'[p][h] = backup[p][h]
      BY <2>1, <2>4
    <3>. QED BY <1>tidy, <2>1, <2>4, <3>1 DEF RouteTidy, NoStages, NoBackups, RecoverSteps, Planning
  <2>6. Mine(p)'
    BY <1>mine, <2>1, <2>4 DEF Mine, Live, Selects, RecoverSteps
  <2>7. OwnTemporaries(p)
    BY <2>4
  <2>. QED BY <2>5, <2>6, <2>7
<1>6. CASE RouteSelect(p)
  <2>1. /\ pc[p] = "select" /\ todo[p] # {} /\ todo[p] \subseteq T
        /\ canonical[First(todo[p])] = Missing
        /\ \A h \in todo[p] : stage[p][h] = mem[p].after[h] /\ PlanOf[p] \in mem[p].after[h]
    <3>1. pc[p] = "select"
      BY <1>6 DEF RouteSelect
    <3>. QED BY <1>found, <3>1 DEF SelectDuty, Selects
  <2>2. stage[p][First(todo[p])] # Missing
    BY <2>1, FirstMember DEF Missing
  <2>3. /\ stage' = [stage EXCEPT ![p][First(todo[p])] = Missing]
        /\ pc' = [pc EXCEPT ![p] = pc'[p]] /\ pc'[p] \in {"commit", "retire"}
        /\ UNCHANGED <<lock, journal, backup, bindings, held, ctx>>
    BY <1>6, <2>1, <2>2 DEF RouteSelect
  <2>4. RouteTidy(p)'
    BY <1>tidy, <2>1, <2>3 DEF RouteTidy, NoStages, NoBackups, RecoverSteps, Planning
  <2>5. Mine(p)'
    BY <1>mine, <2>1, <2>3 DEF Mine, Live, Selects, RecoverSteps
  <2>6. OwnTemporaries(p)
    BY <2>3
  <2>. QED BY <2>4, <2>5, <2>6
<1>7. CASE RouteCommit(p)
  <2>1. /\ pc[p] = "commit" /\ pc' = [pc EXCEPT ![p] = "check"] /\ ctx'[p] = "commit"
        /\ WriteJournal(p, "committed")
        /\ UNCHANGED <<canonical, lock, stage, backup, bindings, held, edits>>
    BY <1>7 DEF RouteCommit, budget
  <2>2. /\ journal'[d] = mem'[p] /\ mem'[p].state = "committed"
        /\ mem'[p].by = mem[p].by /\ mem'[p].bindings = mem[p].bindings
        /\ mem'[p].before = mem[p].before /\ mem'[p].after = mem[p].after
        /\ Entries(mem[p])' = Entries(mem[p])
        /\ \A e \in Route : e # d => journal'[e] = journal[e]
    BY <2>1, Written DEF JournalState
  <2>3. /\ journal[d] = mem[p] /\ mem[p].by = p /\ mem[p].state = "selecting"
        /\ \A h \in T : canonical[h] = mem[p].after[h]
    BY <1>found, <2>1 DEF SelectDuty, Selects, Calm
  <2>4. /\ Entries(mem[p]) = T
        /\ \A h \in T : OriginalSound(d, h)
    BY <1>found, <2>3 DEF JournalSound, Unfinished
  <2>5. mem[p].bindings = 0
    <3>1. mem[p].bindings \in Nat /\ mem[p].bindings <= 0
      BY <1>found, <2>3, RouteFacts DEF JournalSound
    <3>. QED BY <3>1
  <2>6. Sure(d)
    BY <2>1 DEF Sure, Selects
  <2>7. ASSUME NEW h \in T PROVE OwnedAndKnown(d, h)'
    <3>1. lock[h] = d /\ backup[p][h] \in {Missing, mem[p].before[h]}
      BY <2>3, <2>4, <2>6 DEF OriginalSound, KnownTrees
    <3>. QED BY <2>1, <2>2, <2>3, <3>1 DEF OwnedAndKnown
  <2>8. Entries(journal[d])' = T
    <3>1. Entries(journal[d])' = Entries(mem[p])'
      BY <2>2 DEF Entries
    <3>. QED BY <3>1, <2>2, <2>4
  <2>9. Recoverable(d)'
    BY <2>1, <2>2, <2>5, <2>7, <2>8 DEF Recoverable
  <2>10. RouteTidy(p)'
    BY <1>tidy, <2>1, <2>2, <2>3, <2>9 DEF RouteTidy, NoStages, NoBackups, RecoverSteps, Planning
  <2>11. Mine(p)'
    BY <1>mine, <2>1, <2>2 DEF Mine, Live, Selects, RecoverSteps
  <2>. QED BY <2>1, <2>10, <2>11
<1>8. CASE RouteExcept(p)
  <2>1. pc[p] = "except" /\ journal[d].state = "none"
    BY <1>8, <1>tidy DEF RouteExcept, RouteTidy
  <2>2. pc' = [pc EXCEPT ![p] = "finally"] /\ UNCHANGED <<files, held>>
    BY <1>8, <2>1 DEF RouteExcept
  <2>3. RouteTidy(p)'
    BY <1>tidy, <2>1, <2>2 DEF RouteTidy, NoStages, NoBackups, RecoverSteps, Planning, files
  <2>4. Mine(p)'
    BY <1>mine, <2>1, <2>2 DEF Mine, Live, Selects, RecoverSteps, files
  <2>. QED BY <2>2, <2>3, <2>4 DEF files
<1>9. CASE RouteFinally(p)
  <2>1. pc[p] = "finally" /\ journal[d].state = "none"
    BY <1>9, <1>tidy DEF RouteFinally, RouteTidy
  <2>2. /\ pc' = [pc EXCEPT ![p] = "release"]
        /\ stage' = [stage EXCEPT ![p] = [g \in Garden |-> Missing]]
        /\ UNCHANGED <<lock, held, journal, backup>>
    BY <1>9, <2>1 DEF RouteFinally
  <2>3. RouteTidy(p)'
    BY <1>tidy, <2>1, <2>2 DEF RouteTidy, NoStages, NoBackups, RecoverSteps, Planning
  <2>4. Mine(p)'
    BY <1>mine, <2>1, <2>2 DEF Mine, Live, Selects, RecoverSteps
  <2>. QED BY <2>2, <2>3, <2>4
<1>10. CASE RouteRelease(p)
  <2>1. pc[p] = "release" /\ journal[d].state = "none" /\ UNCHANGED <<journal, stage, backup, ctx>>
    BY <1>10, <1>tidy DEF RouteRelease, RouteTidy
  <2>2. pc' = [pc EXCEPT ![p] = pc'[p]] /\ pc'[p] \in {"release", "done"}
    BY <1>10, <2>1 DEF RouteRelease
  <2>3. RouteTidy(p)'
    BY <1>tidy, <2>1, <2>2 DEF RouteTidy, NoStages, NoBackups, RecoverSteps, Planning
  <2>4. Mine(p)'
    <3>1. CASE held[p] = {}
      BY <1>10, <1>mine, <2>1, <3>1 DEF RouteRelease, Mine, Selects, RecoverSteps
    <3>2. CASE held[p] # {}
      <4>g. PICK g \in held[p] : g = First(held[p])
        BY <3>2, FirstMember
      <4>1. /\ lock' = [lock EXCEPT ![g] = Free] /\ held' = [held EXCEPT ![p] = @ \ {g}]
            /\ pc' = pc
        BY <1>10, <3>2, <4>g DEF RouteRelease
      <4>. QED BY <1>mine, <2>1, <4>1 DEF Mine, Live, Selects, RecoverSteps
    <3>. QED BY <3>1, <3>2
  <2>5. OwnTemporaries(p)
    BY <1>10, <2>1, <2>2 DEF RouteRelease
  <2>. QED BY <2>3, <2>4, <2>5
<1>. QED
  BY <1>1, <1>2, <1>3, <1>4, <1>5, <1>6, <1>7, <1>8, <1>9, <1>10 DEF RouteStep


\* The steps of recovery: a committed selection is cleaned up by its own apply.
LEMMA TidyRecover ==
    ASSUME SerialInv, SerialInv', NEW p \in Proc, Kind[p] # "change",
           Tidy(p), Mine(p), RecoverStep(p)
    PROVE  Tidy(p)' /\ Mine(p)' /\ OwnTemporaries(p)
<1>. DEFINE d == PlanOf[p]
            T == Targets[PlanOf[p]]
<1>types. /\ TypeOK /\ pc \in [Proc -> Step] /\ held \in [Proc -> SUBSET Garden]
          /\ lock \in [Garden -> Plan \cup {Free, Blank}]
          /\ todo \in [Proc -> SUBSET Garden] /\ ctx \in [Proc -> {"commit", "except", "cli"}]
          /\ stage \in [Proc -> [Garden -> Tree]] /\ backup \in [Proc -> [Garden -> Tree]]
          /\ journal \in [Route -> Journal]
  BY DEF SerialInv, TypeInv, TypeOK
<1>facts. /\ d \in Route /\ T \subseteq Garden /\ todo[p] \subseteq Garden /\ held[p] \subseteq Garden
  BY <1>types, RouteFacts
<1>mine. /\ \A g \in Garden : lock[g] # Free => Live(p) /\ g \in held[p]
         /\ \A e \in Route : journal[e].state # "none" => Kind[p] = "route" /\ e = d
  BY DEF Mine
<1>begin. ~RecoverBegin(p)
  BY <1>mine, <1>facts DEF RecoverBegin
<1>step. pc[p] \in RecoverSteps
  BY <1>begin DEF RecoverStep, RecoverCheck, RollbackSkip, RollbackDrop, RollbackPark,
       RollbackPutback, RecoverSettle, CleanStage, TearBackup, CleanBackup, CleanLock,
       RecoverEnd, RecoverSteps
<1>kind. Kind[p] = "route"
  <2>1. Kind[p] \in {"route", "change", "recover"}
    BY StoreAssumption
  <2>. QED BY <1>step, <2>1 DEF Tidy, RecoverSteps
<1>tidy. RouteTidy(p) /\ ctx[p] = "commit" /\ journal[d].by = p /\ journal[d].state = "committed"
  BY <1>kind, <1>step DEF Tidy, RouteTidy
<1>duty. RecoverDuty(p) /\ JournalSound(d)
  BY RecoverFounded DEF RecoverFoundation
<1>mem. pc[p] # "check" => /\ mem[p] = journal[d] /\ mem[p].by = p /\ mem[p].state = "committed"
                           /\ todo[p] \subseteq T /\ Entries(mem[p]) = T
  BY <1>step, <1>tidy, <1>duty DEF RecoverDuty, JournalSound
<1>. SUFFICES RouteTidy(p)' /\ Mine(p)' /\ OwnTemporaries(p)
  BY <1>kind DEF Tidy
<1>. USE <1>types, <1>facts DEF OwnTemporaries, Goto
<1>1. CASE RecoverCheck(p)
  <2>1. pc[p] = "check" /\ Recoverable(d)
    BY <1>1, <1>tidy DEF RecoverCheck, RouteTidy
  <2>2. pc' = [pc EXCEPT ![p] = "rollback"] /\ UNCHANGED <<files, held, ctx>>
    BY <1>1, <2>1 DEF RecoverCheck
  <2>3. RouteTidy(p)'
    BY <1>tidy, <2>1, <2>2 DEF RouteTidy, NoStages, NoBackups, RecoverSteps, Planning, files
  <2>4. Mine(p)'
    BY <1>mine, <1>kind, <2>1, <2>2 DEF Mine, Live, RecoverSteps, files
  <2>. QED BY <2>2, <2>3, <2>4 DEF files
<1>2. CASE RollbackSkip(p)
  <2>1. pc[p] = "rollback" /\ UNCHANGED <<files, pc, held, ctx>>
    BY <1>2 DEF RollbackSkip
  <2>2. RouteTidy(p)'
    BY <1>tidy, <2>1 DEF RouteTidy, NoStages, NoBackups, RecoverSteps, Planning, files
  <2>3. Mine(p)'
    BY <1>mine, <1>kind, <2>1 DEF Mine, Live, RecoverSteps, files
  <2>. QED BY <2>1, <2>2, <2>3 DEF files
<1>3. CASE RollbackDrop(p)
  BY <1>3, <1>mem DEF RollbackDrop
<1>4. CASE RollbackPark(p) \/ RollbackPutback(p)
  <2>1. pc[p] \in {"park", "putback"}
    BY <1>4 DEF RollbackPark, RollbackPutback
  <2>. QED BY <1>duty, <1>mem, <2>1 DEF RecoverDuty, RecoverSteps
<1>5. CASE RecoverSettle(p)
  <2>1. /\ pc[p] = "rollback" /\ pc' = [pc EXCEPT ![p] = "clean"]
        /\ WriteJournal(p, "committed") /\ todo'[p] = T
        /\ UNCHANGED <<lock, stage, backup, held, ctx>>
    BY <1>5, <1>mem DEF RecoverSettle
  <2>2. /\ journal'[d].state = "committed" /\ journal'[d].by = p
        /\ \A e \in Route : e # d => journal'[e] = journal[e]
    BY <1>mem, <2>1, Written DEF JournalState
  <2>3. RouteTidy(p)'
    BY <1>tidy, <2>1, <2>2 DEF RouteTidy, NoStages, NoBackups, RecoverSteps, Planning
  <2>4. Mine(p)'
    BY <1>mine, <1>kind, <2>1, <2>2 DEF Mine, Live, RecoverSteps
  <2>. QED BY <2>1, <2>3, <2>4
<1>6. CASE CleanStage(p)
  <2>1. /\ pc[p] = "clean" /\ pc' = [pc EXCEPT ![p] = "cleanBackup"] /\ mem[p].by = p
        /\ stage' = [stage EXCEPT ![mem[p].by][First(todo[p])] = Missing]
        /\ UNCHANGED <<lock, journal, backup, todo, held, ctx>>
    BY <1>6, <1>mem DEF CleanStage
  <2>2. RouteTidy(p)'
    BY <1>tidy, <2>1 DEF RouteTidy, NoStages, NoBackups, RecoverSteps, Planning
  <2>3. Mine(p)'
    BY <1>mine, <1>kind, <2>1 DEF Mine, Live, RecoverSteps
  <2>. QED BY <2>1, <2>2, <2>3
<1>7. CASE TearBackup(p) \/ CleanBackup(p)
  <2>1. /\ pc[p] = "cleanBackup" /\ mem[p].by = p
        /\ pc' = [pc EXCEPT ![p] = pc'[p]] /\ pc'[p] \in {"cleanBackup", "unlock"}
        /\ \E t \in {Missing, {Torn}} : backup' = [backup EXCEPT ![mem[p].by][First(todo[p])] = t]
        /\ UNCHANGED <<lock, journal, stage, todo, held, ctx>>
    BY <1>7, <1>mem DEF TearBackup, CleanBackup, invocation
  <2>2. todo[p] # {} /\ todo[p] \subseteq T
    BY <1>duty, <2>1 DEF RecoverDuty, RecoverSteps
  <2>g. PICK g \in todo[p] : g = First(todo[p])
    BY <2>2, FirstMember
  <2>3. \A h \in Garden : h # g => backup'[p][h] = backup[p][h]
    BY <2>1, <2>g
  <2>4. RouteTidy(p)'
    BY <1>tidy, <2>1, <2>2, <2>3 DEF RouteTidy, NoStages, NoBackups, RecoverSteps, Planning
  <2>5. Mine(p)'
    BY <1>mine, <1>kind, <2>1 DEF Mine, Live, RecoverSteps
  <2>6. OwnTemporaries(p)
    BY <2>1
  <2>. QED BY <2>4, <2>5, <2>6
<1>8. CASE CleanLock(p)
  <2>1. /\ pc[p] = "unlock" /\ pc' = [pc EXCEPT ![p] = "clean"]
        /\ lock' = [lock EXCEPT ![First(todo[p])] = Free]
        /\ todo' = [todo EXCEPT ![p] = @ \ {First(todo[p])}]
        /\ UNCHANGED <<journal, stage, backup, held, ctx>>
    BY <1>8 DEF CleanLock
  <2>2. backup[p][First(todo[p])] = Missing
    BY <1>duty, <1>mem, <2>1 DEF RecoverDuty, RecoverSteps
  <2>3. RouteTidy(p)'
    BY <1>tidy, <2>1, <2>2 DEF RouteTidy, NoStages, NoBackups, RecoverSteps, Planning
  <2>4. Mine(p)'
    BY <1>mine, <1>kind, <2>1 DEF Mine, Live, RecoverSteps
  <2>. QED BY <2>1, <2>3, <2>4
<1>9. CASE RecoverEnd(p)
  <2>1. /\ pc[p] = "clean" /\ todo[p] = {} /\ pc' = [pc EXCEPT ![p] = "finally"]
        /\ journal' = [journal EXCEPT ![d] = NoJournal]
        /\ UNCHANGED <<lock, stage, backup, held, ctx>>
    BY <1>9, <1>tidy DEF RecoverEnd
  <2>2. journal'[d].state = "none"
    BY <2>1 DEF NoJournal, NewJournal
  <2>3. NoBackups(p, Garden)
    BY <1>tidy, <2>1 DEF RouteTidy, NoBackups
  <2>4. RouteTidy(p)'
    BY <1>tidy, <2>1, <2>2, <2>3 DEF RouteTidy, NoStages, NoBackups, RecoverSteps, Planning
  <2>5. Mine(p)'
    BY <1>mine, <1>kind, <2>1, <2>2 DEF Mine, Live, RecoverSteps
  <2>. QED BY <2>1, <2>4, <2>5
<1>. QED
  BY <1>begin, <1>1, <1>2, <1>3, <1>4, <1>5, <1>6, <1>7, <1>8, <1>9 DEF RecoverStep

\* The steps of invocations neither change the bindings nor use the environment's budget.
LEMMA WorkBudget ==
    ASSUME NEW p \in Proc, Work(p)
    PROVE  UNCHANGED <<bindings, edits, crashes, faults>>
<1>1. CASE ChangeStep(p)
  BY <1>1 DEF ChangeStep, ChangeLock, ChangeVerify, ChangeBlob, ChangeStage, ChangeRecheck,
       ChangeJournal, ChangeRetire, ChangeSelect, ChangeUndo, ChangeFinally, ChangeRelease,
       files, budget
<1>2. CASE RouteStep(p)
  BY <1>2 DEF RouteStep, RouteBegin, RouteLock, RouteVerify, RouteCopy, RouteRecord,
       RouteValidate, RouteReverify, RoutePrepare, RouteSelecting, RouteRetire, RouteSelect,
       RouteCommit, RouteExcept, RouteFinally, RouteRelease, files, budget
<1>3. CASE RecoverStep(p)
  BY <1>3 DEF RecoverStep, RecoverBegin, RecoverCheck, RollbackSkip, RollbackDrop, RollbackPark,
       RollbackPutback, RecoverSettle, CleanStage, TearBackup, CleanBackup, CleanLock,
       RecoverEnd, files, budget
<1>. QED BY <1>1, <1>2, <1>3 DEF Work

\* Nobody has run yet.
LEMMA TidyInit ==
    ASSUME Init
    PROVE  TidyInv
<1>1. ASSUME NEW p \in Proc PROVE Tidy(p) /\ Mine(p)
  <2>1. Kind[p] = "change" => ChangeTidy(p)
    BY DEF Init, StoreInit, ChangeTidy, NoStages, NoBackups
  <2>2. RouteTidy(p)
    BY DEF Init, StoreInit, RouteTidy, NoStages, NoBackups, Planning, RecoverSteps
  <2>3. NoStages(p) /\ NoBackups(p, Garden) /\ pc[p] = "idle"
    BY DEF Init, StoreInit, NoStages, NoBackups
  <2>4. Mine(p)
    BY DEF Init, StoreInit, Mine, NoJournal, NewJournal
  <2>. QED BY <2>1, <2>2, <2>3, <2>4 DEF Tidy
<1>. QED BY <1>1, StoreAssumption DEF TidyInv

LEMMA TidyNext ==
    ASSUME MaxLive <= 1, ~LiveEdits, SerialInv, SerialInv', TidyInv, [Next]_vars
    PROVE  TidyInv'
<1>. SUFFICES ASSUME Undisturbed'
              PROVE  (\A q \in Proc : Tidy(q)') /\ (\E q \in Proc : Mine(q)')
  BY DEF TidyInv
<1>types. crashes \in Nat /\ faults \in Nat /\ bindings \in Nat
  BY DEF SerialInv, TypeInv, TypeOK
<1>1. ASSUME NEW p \in Proc, Work(p)
      PROVE  (\A q \in Proc : Tidy(q)') /\ (\E q \in Proc : Mine(q)')
  <2>1. Undisturbed
    <3>1. crashes' = crashes /\ faults' = faults /\ bindings' = bindings
      BY <1>1, WorkBudget
    <3>. QED BY <3>1 DEF Undisturbed
  <2>2. (\A q \in Proc : Tidy(q)) /\ Mine(p)
    BY <1>1, <2>1, MineAlone DEF TidyInv, SerialInv
  <2>3. bindings = 0
    BY <2>1 DEF Undisturbed
  <2>4. Tidy(p)' /\ Mine(p)' /\ OwnTemporaries(p)
    BY <1>1, <2>2, <2>3, StepKinds, TidyChange, TidyRoute, TidyRecover
       DEF Work, SerialInv, TypeInv
  <2>. QED BY <1>1, <2>2, <2>4, TidyStep
<1>2. ASSUME NEW p \in Proc, Crash(p) \/ Fault(p) \/ LockFault(p)
      PROVE  FALSE
  BY <1>types, <1>2 DEF Crash, Fault, LockFault, Undisturbed
<1>3. CASE Rebind
  BY <1>types, <1>3 DEF Rebind, Undisturbed
<1>4. CASE OwnerEdit
  <2>1. /\ UNCHANGED <<lock, journal, stage, backup, bindings, pc, todo, held, mem, ctx, ret>>
        /\ crashes' = crashes /\ faults' = faults /\ Running = {}
    BY <1>4 DEF OwnerEdit, invocation
  <2>2. Undisturbed
    BY <2>1 DEF Undisturbed
  <2>3. ASSUME NEW q \in Proc PROVE Tidy(q)'
    <3>1. Tidy(q) /\ ~Live(q)
      BY <2>1, <2>2 DEF TidyInv, Running
    <3>2. pc[q] # "check"
      BY <3>1 DEF Live
    <3>. QED BY <2>1, <3>1, <3>2 DEF Tidy, ChangeTidy, RouteTidy, NoStages, NoBackups
  <2>4. \E q \in Proc : Mine(q)'
    BY <2>1, <2>2 DEF TidyInv, Mine, Live, Selects
  <2>. QED BY <2>3, <2>4
<1>5. CASE UNCHANGED vars
  <2>1. Undisturbed
    BY <1>5 DEF Undisturbed, vars, budget, files
  <2>2. UNCHANGED <<canonical, lock, journal, stage, backup, bindings, pc, todo, held, mem, ctx, ret>>
    BY <1>5 DEF vars, files, invocation
  <2>3. ASSUME NEW q \in Proc PROVE Tidy(q)'
    <3>1. Tidy(q)
      BY <2>1 DEF TidyInv
    <3>. QED BY <2>2, <3>1 DEF Tidy, ChangeTidy, RouteTidy, NoStages, NoBackups, Recoverable,
                               Entries, OwnedAndKnown, Finished
  <2>4. \E q \in Proc : Mine(q)'
    BY <2>1, <2>2 DEF TidyInv, Mine, Live, Selects
  <2>. QED BY <2>3, <2>4
<1>. QED BY <1>1, <1>2, <1>3, <1>4, <1>5 DEF Next

\* For one invocation at a time, and an owner who does not edit while it runs:
\* with no kill, no failing operation and the bindings as they were, neither a
\* refusal nor an apply leaves a lock, stage, backup or journal behind.
THEOREM SerialNothingLeftBehind ==
    ASSUME MaxLive <= 1, ~LiveEdits
    PROVE  Spec => []NothingLeftBehind
<1>1. SerialInv /\ TidyInv => NothingLeftBehind
  <2>. SUFFICES ASSUME SerialInv, TidyInv, Running = {}, Undisturbed
                PROVE  /\ \A g \in Garden : lock[g] = Free /\ canonical[g] # Missing
                       /\ \A p \in Proc, g \in Garden :
                             stage[p][g] = Missing /\ backup[p][g] = Missing
                       /\ \A d \in Route : journal[d].state = "none"
    BY DEF NothingLeftBehind, Undisturbed
  <2>1. \A p \in Proc : Tidy(p) /\ ~Live(p)
    BY DEF TidyInv, Running
  <2>2. /\ \A g \in Garden : lock[g] = Free
        /\ \A d \in Route : journal[d].state = "none"
    BY <2>1 DEF TidyInv, Mine, Selects, Live, RecoverSteps
  <2>3. \A g \in Garden : canonical[g] # Missing
    BY <2>2 DEF SerialInv, FreeInPlace, InPlace
  <2>4. ASSUME NEW p \in Proc PROVE NoStages(p) /\ NoBackups(p, Garden)
    <3>1. pc[p] \in {"idle", "done", "crashed"} /\ Kind[p] \in {"route", "change", "recover"}
      BY <2>1, StoreAssumption DEF Live, SerialInv, TypeInv, TypeOK
    <3>. QED BY <2>1, <3>1 DEF Tidy, ChangeTidy, RouteTidy
  <2>. QED BY <2>2, <2>3, <2>4 DEF NoStages, NoBackups
<1>2. SerialInv /\ [Next]_vars => SerialInv'
  BY SerialNext
<1>3. SerialInv /\ SerialInv' /\ TidyInv /\ [Next]_vars => TidyInv'
  BY TidyNext
<1>4. Init => TidyInv
  BY TidyInit
<1>. QED BY SerialInit, <1>1, <1>2, <1>3, <1>4, PTL DEF Spec

-----------------------------------------------------------------------------
(***************************************************************************)
(* Publication in one step.                                                *)
(***************************************************************************)
\* What a single-garden apply knows of the revision it was planned for.
ChangeFresh(p) ==
    LET c == PlanOf[p]
        g == Home(p) IN
    /\ pc[p] \in {"cblob", "cstage", "crecheck", "cjournal", "cretire"} =>
          canonical[g] = Base[c][g] /\ c \notin Base[c][g]
    /\ pc[p] \in {"crecheck", "cjournal", "cretire", "cselect"} =>
          stage[p][g] = Base[c][g] \cup {c}
    /\ pc[p] = "cselect" => backup[p][g] = Base[c][g] /\ c \notin Base[c][g]

\* What a routing apply knows, until it writes its journal.
RouteFresh(p) ==
    LET d == PlanOf[p]
        T == Targets[PlanOf[p]] IN
    /\ pc[p] \in Planning \ {"lock", "verify"} =>
          /\ \A g \in T : d \in canonical[g] \/ canonical[g] = Base[d][g]
          /\ \E g \in T : d \notin canonical[g]
          /\ \A g \in Entries(mem[p]) : mem[p].after[g] = canonical[g] \cup {d}
    /\ pc[p] = "record" =>
          stage[p][First(todo[p])] = canonical[First(todo[p])] \cup {d}

\* What a journal that is not finished says of the trees it selects and replaces.
JournalFresh(d) ==
    LET j == journal[d] IN
    Unfinished(j) =>
       /\ \A g \in Targets[d] : /\ j.after[g] = j.before[g] \cup {d}
                                /\ d \in j.before[g] \/ j.before[g] = Base[d][g]
       /\ \E g \in Targets[d] : d \notin j.before[g]

FreshInv ==
    /\ edits = {}
    /\ \A p \in Proc : /\ Kind[p] = "change" => ChangeFresh(p)
                       /\ Kind[p] = "route" => RouteFresh(p)
    /\ \A d \in Route : JournalFresh(d)


-----------------------------------------------------------------------------
(***************************************************************************)
(* What is published, read off the journals and the trees.                 *)
(***************************************************************************)
\* No journal that is not finished is about g.
NoSelection(g) == \A d \in Route : Unfinished(journal[d]) => g \notin Targets[d]

\* The gardens of a journal that is not finished count as they were before it, the
\* others as they are.
PublishedSound ==
    \A g \in Garden :
       /\ \A d \in Route : Unfinished(journal[d]) /\ g \in Targets[d] =>
             Published[g] = journal[d].before[g]
       /\ NoSelection(g) => Published[g] = Surviving(g)

LEMMA SerialPublished == SerialInv => PublishedSound
<1>. SUFFICES ASSUME SerialInv, NEW g \in Garden
              PROVE  /\ \A d \in Route : Unfinished(journal[d]) /\ g \in Targets[d] =>
                           Published[g] = journal[d].before[g]
                     /\ NoSelection(g) => Published[g] = Surviving(g)
  BY DEF PublishedSound
<1>. DEFINE About(d) == Unfinished(journal[d]) /\ g \in Entries(journal[d])
<1>1. ASSUME NEW d \in Route, Unfinished(journal[d])
      PROVE  Entries(journal[d]) = Targets[d] /\ (g \in Targets[d] => lock[g] = d)
  <2>1. JournalSound(d) /\ journal[d].state # "none"
    BY <1>1 DEF SerialInv, Unfinished
  <2>. QED BY <1>1, <2>1 DEF JournalSound, OriginalSound
<1>2. \A d, e \in Route : About(d) /\ About(e) => d = e
  BY <1>1
<1>3. ASSUME NEW d \in Route, About(d) PROVE Published[g] = journal[d].before[g]
  <2>1. (CHOOSE e \in Route : About(e)) = d
    <3>1. /\ (CHOOSE e \in Route : About(e)) \in Route
          /\ About(CHOOSE e \in Route : About(e))
      BY <1>3
    <3>. QED BY <1>2, <1>3, <3>1
  <2>. QED BY <1>3, <2>1 DEF Published
<1>4. NoSelection(g) => Published[g] = Surviving(g)
  BY <1>1 DEF NoSelection, Published
<1>. QED BY <1>1, <1>3, <1>4

\* What is published is a tree for every garden.
LEMMA PublishedSame ==
    ASSUME \A g \in Garden : Published'[g] = Published[g]
    PROVE  Published' = Published
  BY DEF Published

\* Only journals, trees and backups matter.
LEMMA OthersSame ==
    ASSUME journal' = journal, NEW g \in Garden,
           canonical'[g] = canonical[g], \A r \in Proc : backup'[r][g] = backup[r][g]
    PROVE  Published'[g] = Published[g]
<1>1. Surviving(g)' = Surviving(g)
  <2>1. {backup[r][g] : r \in Proc}' = {backup[r][g] : r \in Proc}
    OBVIOUS
  <2>. QED BY <2>1 DEF Surviving
<1>. QED BY <1>1 DEF Published

LEMMA FilesSame ==
    ASSUME UNCHANGED <<journal, canonical, backup>>
    PROVE  Published' = Published
  BY OthersSame, PublishedSame

\* A step at one garden.
LEMMA OneGarden ==
    ASSUME journal' = journal, NEW g \in Garden, Published'[g] = Published[g],
           \A h \in Garden : h # g =>
              canonical'[h] = canonical[h] /\ \A r \in Proc : backup'[r][h] = backup[r][h]
    PROVE  Published' = Published
<1>1. ASSUME NEW h \in Garden PROVE Published'[h] = Published[h]
  BY OthersSame
<1>. QED BY <1>1, PublishedSame

\* The only backup survives a missing tree.
LEMMA SoleBackup ==
    ASSUME NEW g \in Garden, NEW q \in Proc, OnlyBackup(q, g), canonical[g] = Missing
    PROVE  Surviving(g) = backup[q][g]
<1>1. UNION {backup[r][g] : r \in Proc} = backup[q][g]
  BY DEF OnlyBackup, Missing
<1>. QED BY <1>1 DEF Surviving

LEMMA SoleBackupNext ==
    ASSUME NEW g \in Garden, NEW q \in Proc, OnlyBackup(q, g)', canonical'[g] = Missing
    PROVE  Surviving(g)' = backup'[q][g]
<1>1. UNION {backup'[r][g] : r \in Proc} = backup'[q][g]
  BY DEF OnlyBackup, Missing
<1>. QED BY <1>1 DEF Surviving

\* A tree that is in place is what survives.
LEMMA TreeInPlace ==
    ASSUME NEW g \in Garden
    PROVE  /\ canonical[g] # Missing => Surviving(g) = canonical[g]
           /\ canonical'[g] # Missing => Surviving(g)' = canonical'[g]
  BY DEF Surviving

\* Publishing a plan, garden by garden.
LEMMA PublishPointwise ==
    ASSUME NEW d \in Plan,
           \E g \in Targets[d] : d \notin Published[g],
           \A g \in Targets[d] : /\ d \in Published[g] \/ Published[g] = Base[d][g]
                                 /\ Published'[g] = Published[g] \cup {d},
           \A g \in Garden \ Targets[d] : Published'[g] = Published[g],
           Targets[d] \subseteq Garden
    PROVE  Abstract!Publish(d)
<1>. DEFINE new == [g \in 1..N |->
              IF g \in Targets[d] THEN Published[g] \cup {d} ELSE Published[g]]
<1>1. \A g \in Garden : Published'[g] = new[g]
  BY DEF Garden
<1>2. Published' = [g \in Garden |-> Published'[g]]
  BY DEF Published
<1>3. Published' = new
  BY <1>1, <1>2 DEF Garden
<1>. QED BY <1>3 DEF Abstract!Publish


-----------------------------------------------------------------------------
\* The steps of a single-garden apply publish its plan when they select the stage.
LEMMA PublishChange ==
    ASSUME SerialInv, SerialInv', PublishedSound, PublishedSound', NEW p \in Proc,
           Kind[p] = "change", ChangeFresh(p), ChangeStep(p)
    PROVE  Published' = Published \/ Abstract!Publish(PlanOf[p])
<1>. DEFINE g == Home(p)
            c == PlanOf[p]
<1>types. /\ TypeOK /\ pc \in [Proc -> Step] /\ canonical \in [Garden -> Tree]
          /\ ret \in [Proc -> {"none", "applied", "unchanged"}]
          /\ stage \in [Proc -> [Garden -> Tree]] /\ backup \in [Proc -> [Garden -> Tree]]
  BY DEF SerialInv, TypeInv, TypeOK
<1>home. g \in Garden /\ Targets[c] = {g}
  <2>1. g \in Garden
    BY HomeInGarden
  <2>2. c \in Change
    BY PlanKinds
  <2>3. PICK h \in Garden : Targets[c] = {h}
    BY <2>2, StoreAssumption
  <2>. QED BY <2>1, <2>3 DEF Home
<1>plan. c \in Plan /\ c \notin Route /\ c # Free /\ c # Blank /\ Free # Blank
  BY PlanKinds, StoreAssumption, LocksDiffer
<1>duty. ChangeDuty(p)
  BY DEF SerialInv, Duty
<1>. HIDE DEF g, c
<1>g. Home(p) = g /\ PlanOf[p] = c
  BY DEF g, c
<1>1. CASE UNCHANGED <<journal, canonical, backup>>
  BY <1>1, FilesSame
<1>steps. ASSUME pc[p] \in {"cretire", "cselect", "cundo", "cfinally"}, journal' = journal
          PROVE  NoSelection(g) /\ NoSelection(g)' /\ OnlyBackup(p, g)
  <2>1. lock[g] \in {Blank, c} /\ OnlyBackup(p, g)
    BY <1>duty, <1>g, <1>steps DEF ChangeDuty, ChangeSteps
  <2>2. ASSUME NEW d \in Route, Unfinished(journal[d]) PROVE g \notin Targets[d]
    <3>1. JournalSound(d) /\ journal[d].state # "none"
      BY <2>2 DEF SerialInv, Unfinished
    <3>2. g \in Targets[d] => lock[g] = d
      BY <2>2, <3>1 DEF JournalSound, OriginalSound
    <3>3. d # Blank /\ d # c
      BY <1>plan, LocksDiffer DEF Plan
    <3>. QED BY <2>1, <3>2, <3>3
  <2>3. NoSelection(g)
    BY <2>2 DEF NoSelection
  <2>4. NoSelection(g)'
    BY <1>steps, <2>3 DEF NoSelection, Unfinished
  <2>. QED BY <2>1, <2>3, <2>4
<1>2. CASE ChangeRetire(p) /\ ~UNCHANGED <<journal, canonical, backup>>
  <2>1. /\ pc[p] = "cretire" /\ journal' = journal /\ canonical[g] # Missing
        /\ backup' = [backup EXCEPT ![p][g] = canonical[g]]
        /\ canonical' = [canonical EXCEPT ![g] = Missing]
    BY <1>2, <1>g DEF ChangeRetire
  <2>2. NoSelection(g) /\ NoSelection(g)' /\ OnlyBackup(p, g)
    BY <1>steps, <2>1
  <2>3. OnlyBackup(p, g)' /\ canonical'[g] = Missing /\ backup'[p][g] = canonical[g]
    BY <1>types, <1>home, <2>1, <2>2 DEF OnlyBackup
  <2>4. Surviving(g)' = Surviving(g)
    BY <1>home, <2>1, <2>3, SoleBackupNext, TreeInPlace
  <2>5. Published'[g] = Published[g]
    BY <1>home, <2>2, <2>4 DEF PublishedSound
  <2>6. \A h \in Garden : h # g =>
           canonical'[h] = canonical[h] /\ \A r \in Proc : backup'[r][h] = backup[r][h]
    BY <1>types, <1>home, <2>1
  <2>. QED BY <1>home, <2>1, <2>5, <2>6, OneGarden
<1>3. CASE ChangeUndo(p) /\ ~UNCHANGED <<journal, canonical, backup>>
  <2>1. /\ pc[p] = "cundo" /\ journal' = journal /\ canonical[g] = Missing
        /\ backup' = [backup EXCEPT ![p][g] = Missing]
        /\ canonical' = [canonical EXCEPT ![g] = backup[p][g]]
    BY <1>3, <1>g DEF ChangeUndo
  <2>2. NoSelection(g) /\ NoSelection(g)' /\ OnlyBackup(p, g) /\ backup[p][g] # Missing
    BY <1>steps, <1>duty, <1>g, <2>1 DEF ChangeDuty
  <2>3. canonical'[g] = backup[p][g]
    BY <1>types, <1>home, <2>1
  <2>4. Surviving(g)' = Surviving(g)
    BY <1>home, <2>1, <2>2, <2>3, SoleBackup, TreeInPlace
  <2>5. Published'[g] = Published[g]
    BY <1>home, <2>2, <2>4 DEF PublishedSound
  <2>6. \A h \in Garden : h # g =>
           canonical'[h] = canonical[h] /\ \A r \in Proc : backup'[r][h] = backup[r][h]
    BY <1>types, <1>home, <2>1
  <2>. QED BY <1>home, <2>1, <2>5, <2>6, OneGarden
<1>4. CASE ChangeFinally(p) /\ ~UNCHANGED <<journal, canonical, backup>>
  <2>1. /\ pc[p] = "cfinally" /\ journal' = journal /\ canonical' = canonical
        /\ ret[p] = "applied" /\ backup' = [backup EXCEPT ![p][g] = Missing]
    BY <1>4, <1>g DEF ChangeFinally
  <2>2. NoSelection(g) /\ NoSelection(g)' /\ canonical[g] # Missing
    BY <1>steps, <1>duty, <1>g, <2>1 DEF ChangeDuty
  <2>3. Surviving(g)' = Surviving(g)
    BY <1>home, <2>1, <2>2, TreeInPlace
  <2>4. Published'[g] = Published[g]
    BY <1>home, <2>2, <2>3 DEF PublishedSound
  <2>5. \A h \in Garden : h # g =>
           canonical'[h] = canonical[h] /\ \A r \in Proc : backup'[r][h] = backup[r][h]
    BY <1>types, <1>home, <2>1
  <2>. QED BY <1>home, <2>1, <2>4, <2>5, OneGarden
<1>5. CASE ChangeSelect(p) /\ ~UNCHANGED <<journal, canonical, backup>>
  <2>1. /\ pc[p] = "cselect" /\ journal' = journal /\ backup' = backup
        /\ canonical' = [canonical EXCEPT ![g] = stage[p][g]]
    BY <1>5, <1>g DEF ChangeSelect
  <2>2. /\ NoSelection(g) /\ NoSelection(g)' /\ OnlyBackup(p, g)
        /\ canonical[g] = Missing /\ stage[p][g] # Missing
        /\ stage[p][g] = Base[c][g] \cup {c} /\ backup[p][g] = Base[c][g] /\ c \notin Base[c][g]
    BY <1>steps, <1>duty, <1>g, <2>1 DEF ChangeDuty, ChangeFresh
  <2>3. Published[g] = Base[c][g]
    BY <1>home, <2>2, SoleBackup DEF PublishedSound
  <2>4. canonical'[g] = Base[c][g] \cup {c}
    BY <1>types, <1>home, <2>1, <2>2
  <2>5. Published'[g] = Base[c][g] \cup {c}
    BY <1>home, <2>2, <2>4, TreeInPlace DEF PublishedSound
  <2>6. ASSUME NEW h \in Garden, h # g PROVE Published'[h] = Published[h]
    <3>1. canonical'[h] = canonical[h] /\ \A r \in Proc : backup'[r][h] = backup[r][h]
      BY <1>types, <1>home, <2>1, <2>6
    <3>. QED BY <2>1, <3>1, OthersSame
  <2>7. Abstract!Publish(c)
    BY <1>home, <1>plan, <2>2, <2>3, <2>5, <2>6, PublishPointwise
  <2>. QED BY <1>g, <2>7
<1>6. CASE \/ ChangeLock(p) \/ ChangeVerify(p) \/ ChangeBlob(p) \/ ChangeStage(p)
           \/ ChangeRecheck(p) \/ ChangeJournal(p) \/ ChangeRelease(p)
  <2>1. UNCHANGED <<journal, canonical, backup>>
    BY <1>6 DEF ChangeLock, ChangeVerify, ChangeBlob, ChangeStage, ChangeRecheck,
                ChangeJournal, ChangeRelease, files
  <2>. QED BY <1>1, <2>1
<1>. QED BY <1>1, <1>2, <1>3, <1>4, <1>5, <1>6 DEF ChangeStep

-----------------------------------------------------------------------------
(***************************************************************************)
(* A step of a routing apply or of recovery concerns the gardens of its     *)
(* plan.                                                                    *)
(***************************************************************************)
\* A tree and its backups as they are.
LEMMA SurvivingSame ==
    ASSUME NEW g \in Garden, canonical'[g] = canonical[g],
           \A r \in Proc : backup'[r][g] = backup[r][g]
    PROVE  Surviving(g)' = Surviving(g)
<1>1. {backup[r][g] : r \in Proc}' = {backup[r][g] : r \in Proc}
  OBVIOUS
<1>. QED BY <1>1 DEF Surviving

\* A garden that no plan but d has locked, where d has no selection open.
LEMMA Unselected ==
    ASSUME SerialInv, NEW d \in Plan, NEW g \in Garden, lock[g] \in {Free, Blank, d},
           d \in Route => ~Unfinished(journal[d])
    PROVE  NoSelection(g)
<1>. SUFFICES ASSUME NEW e \in Route, Unfinished(journal[e]), g \in Targets[e] PROVE FALSE
  BY DEF NoSelection
<1>1. JournalSound(e) /\ journal[e].state # "none"
  BY DEF SerialInv, Unfinished
<1>2. lock[g] = e
  BY <1>1 DEF JournalSound, OriginalSound
<1>3. e \in Plan /\ e # Free /\ e # Blank
  BY LocksDiffer DEF Plan
<1>. QED BY <1>2, <1>3

\* The same in the next state.
LEMMA UnselectedNext ==
    ASSUME SerialInv', NEW d \in Plan, NEW g \in Garden, lock'[g] \in {Free, Blank, d},
           d \in Route => ~Unfinished(journal'[d])
    PROVE  NoSelection(g)'
<1>. SUFFICES ASSUME NEW e \in Route, Unfinished(journal'[e]), g \in Targets[e] PROVE FALSE
  BY DEF NoSelection, Unfinished
<1>1. JournalSound(e)' /\ journal'[e].state # "none"
  BY DEF SerialInv, Unfinished
<1>2. lock'[g] = e
  BY <1>1 DEF JournalSound, OriginalSound, Unfinished
<1>3. e \in Plan /\ e # Free /\ e # Blank
  BY LocksDiffer DEF Plan
<1>. QED BY <1>2, <1>3

\* A garden that the plan does not write stays published as it is.
LEMMA OtherGarden ==
    ASSUME PublishedSound, PublishedSound', NEW d \in Route,
           \A e \in Route : e # d => journal'[e] = journal[e],
           NEW g \in Garden, g \notin Targets[d], canonical'[g] = canonical[g],
           \A r \in Proc : backup'[r][g] = backup[r][g]
    PROVE  Published'[g] = Published[g]
<1>1. ASSUME NEW e \in Route, Unfinished(journal[e]), g \in Targets[e]
      PROVE  Published'[g] = Published[g]
  <2>1. journal'[e] = journal[e]
    BY <1>1
  <2>2. Published[g] = journal[e].before[g]
    BY <1>1 DEF PublishedSound
  <2>3. Published'[g] = journal'[e].before[g]
    BY <1>1, <2>1 DEF PublishedSound, Unfinished
  <2>. QED BY <2>1, <2>2, <2>3
<1>2. ASSUME NoSelection(g) PROVE Published'[g] = Published[g]
  <2>1. NoSelection(g)'
    BY <1>2 DEF NoSelection, Unfinished
  <2>. QED BY <1>2, <2>1, SurvivingSame DEF PublishedSound
<1>. QED BY <1>1, <1>2 DEF NoSelection

\* While the journal of d is not finished, its gardens stay published as they were.
LEMMA SelectionHides ==
    ASSUME PublishedSound, PublishedSound', NEW d \in Route,
           Unfinished(journal[d]), Unfinished(journal'[d]),
           journal'[d].before = journal[d].before,
           \A e \in Route : e # d => journal'[e] = journal[e],
           \A g \in Garden : g \notin Targets[d] =>
              canonical'[g] = canonical[g] /\ \A r \in Proc : backup'[r][g] = backup[r][g]
    PROVE  Published' = Published
<1>1. ASSUME NEW g \in Garden PROVE Published'[g] = Published[g]
  <2>1. CASE g \in Targets[d]
    <3>1. Published[g] = journal[d].before[g]
      BY <2>1 DEF PublishedSound
    <3>2. Published'[g] = journal'[d].before[g]
      BY <2>1 DEF PublishedSound, Unfinished
    <3>. QED BY <3>1, <3>2
  <2>2. CASE g \notin Targets[d]
    BY <2>2, OtherGarden
  <2>. QED BY <2>1, <2>2
<1>. QED BY <1>1, PublishedSame

\* A journal that has no selection open before or after a step does not count.
LEMMA NoChange ==
    ASSUME PublishedSound, PublishedSound', NEW d \in Route,
           ~Unfinished(journal[d]), ~Unfinished(journal'[d]),
           \A e \in Route : e # d => journal'[e] = journal[e],
           canonical' = canonical, backup' = backup
    PROVE  Published' = Published
<1>1. ASSUME NEW g \in Garden PROVE Published'[g] = Published[g]
  <2>1. ASSUME NEW e \in Route, Unfinished(journal[e]), g \in Targets[e]
        PROVE  Published'[g] = Published[g]
    <3>1. journal'[e] = journal[e]
      BY <2>1
    <3>2. Published[g] = journal[e].before[g]
      BY <2>1 DEF PublishedSound
    <3>3. Published'[g] = journal'[e].before[g]
      BY <2>1, <3>1 DEF PublishedSound, Unfinished
    <3>. QED BY <3>1, <3>2, <3>3
  <2>2. ASSUME NoSelection(g) PROVE Published'[g] = Published[g]
    <3>1. NoSelection(g)'
      BY <2>2 DEF NoSelection, Unfinished
    <3>. QED BY <2>2, <3>1, SurvivingSame DEF PublishedSound
  <2>. QED BY <2>1, <2>2 DEF NoSelection
<1>. QED BY <1>1, PublishedSame

\* A tree of the plan that is in place, with no selection open, is what is published.
LEMMA TreePublished ==
    ASSUME PublishedSound, NEW g \in Garden, NoSelection(g), canonical[g] # Missing
    PROVE  Published[g] = canonical[g]
  BY TreeInPlace DEF PublishedSound

LEMMA TreePublishedNext ==
    ASSUME PublishedSound', NEW g \in Garden, NoSelection(g)', canonical'[g] # Missing
    PROVE  Published'[g] = canonical'[g]
<1>1. Published'[g] = Surviving(g)'
  BY DEF PublishedSound
<1>. QED BY <1>1, TreeInPlace

\* A routing apply publishes its plan when it commits the journal.
LEMMA PublishRoute ==
    ASSUME SerialInv, SerialInv', PublishedSound, PublishedSound', NEW p \in Proc,
           Kind[p] = "route", JournalFresh(PlanOf[p]), edits = {}, RouteStep(p)
    PROVE  Published' = Published \/ Abstract!Publish(PlanOf[p])
<1>. DEFINE d == PlanOf[p]
            T == Targets[PlanOf[p]]
<1>types. /\ TypeOK /\ canonical \in [Garden -> Tree] /\ todo \in [Proc -> SUBSET Garden]
          /\ stage \in [Proc -> [Garden -> Tree]] /\ backup \in [Proc -> [Garden -> Tree]]
  BY DEF SerialInv, TypeInv, TypeOK
<1>facts. /\ d \in Route /\ d \in Plan /\ T \subseteq Garden /\ T # {}
          /\ mem[p].before \in [Garden -> Tree]
  BY <1>types, RouteFacts
<1>duty. PlanDuty(p) /\ SelectDuty(p) /\ JournalSound(d)
  BY RouteFounded DEF RouteFoundation
<1>1. CASE UNCHANGED <<journal, canonical, backup>>
  BY <1>1, FilesSame
<1>2. CASE RoutePrepare(p)
  <2>1. /\ pc[p] = "prepare" /\ WriteJournal(p, "prepared")
        /\ canonical' = canonical /\ backup' = backup /\ lock' = lock
    BY <1>2 DEF RoutePrepare
  <2>2. /\ journal[d].state = "none" /\ held[p] = T /\ Entries(mem[p]) = T /\ Recorded(p)
        /\ \A g \in T : lock[g] = d /\ InPlace(g)
    BY <1>duty, <2>1 DEF PlanDuty, Planning
  <2>3. /\ journal'[d] = mem'[p] /\ mem'[p].state = "prepared"
        /\ mem'[p].before = mem[p].before
        /\ \A e \in Route : e # d => journal'[e] = journal[e]
    BY <2>1, <1>types, <1>facts, Written DEF JournalState
  <2>4. ASSUME NEW g \in Garden PROVE Published'[g] = Published[g]
    <3>1. CASE g \in T
      <4>1. canonical[g] = mem[p].before[g] /\ canonical[g] # Missing
        BY <2>2, <3>1 DEF Recorded, Calm, InPlace
      <4>2. NoSelection(g)
        BY <1>facts, <2>2, <3>1, Unselected DEF Unfinished
      <4>3. Published[g] = canonical[g]
        BY <4>1, <4>2, TreePublished
      <4>4. Published'[g] = journal'[d].before[g]
        BY <1>facts, <2>3, <3>1 DEF PublishedSound, Unfinished
      <4>. QED BY <2>3, <4>1, <4>3, <4>4
    <3>2. CASE g \notin T
      BY <1>facts, <2>1, <2>3, <3>2, OtherGarden
    <3>. QED BY <3>1, <3>2
  <2>. QED BY <2>4, PublishedSame
<1>3. ASSUME RouteSelecting(p) \/ RouteRetire(p) \/ RouteSelect(p)
      PROVE  Published' = Published
  <2>1. Selects(p) /\ pc[p] # "commit"
    BY <1>3 DEF RouteSelecting, RouteRetire, RouteSelect, Selects
  <2>2. journal[d] = mem[p] /\ mem[p].state \in {"prepared", "selecting"}
    BY <1>duty, <2>1 DEF SelectDuty
  <2>3. CASE RouteSelecting(p)
    <3>1. WriteJournal(p, "selecting") /\ canonical' = canonical /\ backup' = backup
      BY <2>3 DEF RouteSelecting
    <3>2. /\ journal'[d] = mem'[p] /\ mem'[p].state = "selecting"
          /\ mem'[p].before = mem[p].before
          /\ \A e \in Route : e # d => journal'[e] = journal[e]
      BY <3>1, <1>types, <1>facts, Written DEF JournalState
    <3>. QED BY <1>facts, <2>2, <3>1, <3>2, SelectionHides DEF Unfinished
  <2>4. CASE RouteRetire(p) \/ RouteSelect(p)
    <3>0. pc[p] \in {"retire", "select"}
      BY <2>4 DEF RouteRetire, RouteSelect
    <3>1. todo[p] # {} /\ todo[p] \subseteq T
      BY <1>duty, <2>1, <3>0 DEF SelectDuty
    <3>2. PICK g \in todo[p] : g = First(todo[p])
      BY <1>types, <3>1, FirstMember
    <3>3. /\ journal' = journal
          /\ \A h \in Garden : h # g =>
                canonical'[h] = canonical[h] /\ \A r \in Proc : backup'[r][h] = backup[r][h]
      <4>1. CASE RouteRetire(p)
        BY <1>types, <1>facts, <3>1, <3>2, <4>1 DEF RouteRetire
      <4>2. CASE RouteSelect(p)
        BY <1>types, <1>facts, <3>1, <3>2, <4>2 DEF RouteSelect
      <4>. QED BY <2>4, <4>1, <4>2
    <3>. QED BY <1>facts, <2>2, <3>1, <3>2, <3>3, SelectionHides DEF Unfinished
  <2>. QED BY <1>3, <2>3, <2>4
<1>4. CASE RouteCommit(p)
  <2>1. /\ pc[p] = "commit" /\ WriteJournal(p, "committed")
        /\ canonical' = canonical /\ backup' = backup /\ lock' = lock
    BY <1>4 DEF RouteCommit
  <2>2. /\ journal[d] = mem[p] /\ mem[p].state = "selecting"
        /\ \A g \in T : canonical[g] # Missing /\ canonical[g] = mem[p].after[g]
    BY <1>duty, <2>1 DEF SelectDuty, Selects, Calm
  <2>3. /\ journal'[d] = mem'[p] /\ mem'[p].state = "committed"
        /\ \A e \in Route : e # d => journal'[e] = journal[e]
    BY <2>1, <1>types, <1>facts, Written DEF JournalState
  <2>4. \A g \in T : lock[g] = d
    BY <1>duty, <2>2 DEF JournalSound, OriginalSound, Unfinished
  <2>5. /\ \A g \in T : /\ mem[p].after[g] = mem[p].before[g] \cup {d}
                        /\ d \in mem[p].before[g] \/ mem[p].before[g] = Base[d][g]
        /\ \E g \in T : d \notin mem[p].before[g]
    BY <2>2 DEF JournalFresh, Unfinished
  <2>6. ASSUME NEW g \in T
        PROVE  /\ Published[g] = mem[p].before[g]
               /\ Published'[g] = Published[g] \cup {d}
    <3>1. Published[g] = mem[p].before[g]
      BY <1>facts, <2>2 DEF PublishedSound, Unfinished
    <3>2. NoSelection(g)'
      BY <1>facts, <2>1, <2>3, <2>4, UnselectedNext DEF Unfinished
    <3>3. Published'[g] = mem[p].after[g]
      BY <1>facts, <2>1, <2>2, <3>2, TreePublishedNext
    <3>. QED BY <2>5, <3>1, <3>3
  <2>7. ASSUME NEW g \in Garden \ T PROVE Published'[g] = Published[g]
    BY <1>facts, <2>1, <2>3, OtherGarden
  <2>8. Abstract!Publish(d)
    BY <1>facts, <2>5, <2>6, <2>7, PublishPointwise
  <2>. QED BY <2>8
<1>5. CASE \/ RouteBegin(p) \/ RouteLock(p) \/ RouteVerify(p) \/ RouteCopy(p) \/ RouteRecord(p)
           \/ RouteValidate(p) \/ RouteReverify(p)
           \/ RouteExcept(p) \/ RouteFinally(p) \/ RouteRelease(p)
  <2>1. UNCHANGED <<journal, canonical, backup>>
    BY <1>5 DEF RouteBegin, RouteLock, RouteVerify, RouteCopy, RouteRecord, RouteValidate,
                RouteReverify, RouteExcept, RouteFinally, RouteRelease, files
  <2>. QED BY <1>1, <2>1
<1>. QED BY <1>1, <1>2, <1>3, <1>4, <1>5 DEF RouteStep

\* Recovery changes nothing that is published.
LEMMA PublishRecover ==
    ASSUME SerialInv, SerialInv', PublishedSound, PublishedSound', NEW p \in Proc,
           Kind[p] # "change", edits = {}, RecoverStep(p)
    PROVE  Published' = Published
<1>. DEFINE d == PlanOf[p]
            T == Targets[PlanOf[p]]
            b == mem[p].by
<1>types. /\ TypeOK /\ canonical \in [Garden -> Tree] /\ todo \in [Proc -> SUBSET Garden]
          /\ stage \in [Proc -> [Garden -> Tree]] /\ backup \in [Proc -> [Garden -> Tree]]
          /\ journal \in [Route -> Journal]
  BY DEF SerialInv, TypeInv, TypeOK
<1>facts. /\ d \in Route /\ d \in Plan /\ T \subseteq Garden /\ b \in Proc
          /\ d # Free /\ d # Blank /\ Free # Blank
  BY <1>types, RouteFacts
<1>found. RecoverFoundation(p)
  BY RecoverFounded
<1>duty. RecoverDuty(p) /\ JournalSound(d) /\ FreeInPlace
  BY <1>found DEF RecoverFoundation
<1>1. CASE UNCHANGED <<journal, canonical, backup>>
  BY <1>1, FilesSame
<1>2. ASSUME RollbackPark(p) \/ RollbackPutback(p), ~UNCHANGED <<journal, canonical, backup>>
      PROVE  Published' = Published
  <2>1. /\ pc[p] \in RecoverSteps \ {"check"} /\ pc[p] \in {"park", "putback"}
        /\ mem[p] = journal[d] /\ mem[p].state # "none" /\ mem[p].state # "committed"
        /\ todo[p] # {} /\ todo[p] \subseteq T /\ journal' = journal
        /\ pc[p] = "park" => backup[b][Final(todo[p])] # Missing
    BY <1>2, <1>duty DEF RollbackPark, RollbackPutback, RecoverDuty, RecoverSteps
  <2>2. PICK g \in todo[p] : g = Final(todo[p])
    BY <1>types, <2>1, FinalMember
  <2>3. backup[b][g] # Missing
    <3>1. CASE RollbackPark(p)
      BY <2>1, <2>2, <3>1 DEF RollbackPark
    <3>2. CASE RollbackPutback(p)
      BY <1>2, <2>1, <2>2, <3>2 DEF RollbackPutback
    <3>. QED BY <1>2, <3>1, <3>2
  <2>4. Unfinished(journal[d])
    BY <1>found, <2>1, <2>2, <2>3, BackupLocked
  <2>5. \A h \in Garden : h # g =>
           canonical'[h] = canonical[h] /\ \A r \in Proc : backup'[r][h] = backup[r][h]
    <3>1. CASE RollbackPark(p)
      BY <1>types, <1>facts, <2>1, <2>2, <3>1 DEF RollbackPark
    <3>2. CASE RollbackPutback(p)
      BY <1>types, <1>facts, <2>1, <2>2, <3>2 DEF RollbackPutback
    <3>. QED BY <1>2, <3>1, <3>2
  <2>. QED BY <1>facts, <2>1, <2>2, <2>4, <2>5, SelectionHides DEF Unfinished
<1>3. CASE RecoverSettle(p)
  <2>1. /\ pc[p] = "rollback" /\ todo[p] = {} /\ mem[p] = journal[d] /\ mem[p].state # "none"
        /\ \A h \in T : mem[p].state = "committed" \/ backup[b][h] = Missing
        /\ canonical' = canonical /\ backup' = backup /\ lock' = lock
    BY <1>3, <1>duty DEF RecoverSettle, RecoverDuty, RecoverSteps
  <2>2. PICK s \in {"committed", "rolled-back"} : WriteJournal(p, s)
    BY <1>3 DEF RecoverSettle
  <2>3. /\ journal'[d] = mem'[p] /\ mem'[p].state = s
        /\ \A e \in Route : e # d => journal'[e] = journal[e]
    <3>1. s \in JournalState
      BY DEF JournalState
    <3>. QED BY <2>2, <1>types, <1>facts, <3>1, Written
  <2>4. ~Unfinished(journal'[d])
    BY <2>3 DEF Unfinished
  <2>5. CASE ~Unfinished(journal[d])
    BY <1>facts, <2>1, <2>3, <2>4, <2>5, NoChange
  <2>6. CASE Unfinished(journal[d])
    <3>1. mem[p].state # "committed" /\ Entries(journal[d]) = T
      BY <1>duty, <2>1, <2>6 DEF Unfinished, JournalSound
    <3>2. ASSUME NEW g \in T
          PROVE  canonical[g] = journal[d].before[g] /\ canonical[g] # Missing /\ lock[g] = d
      <4>1. OriginalSound(d, g) /\ backup[b][g] = Missing
        BY <1>duty, <2>1, <2>6, <3>1 DEF JournalSound, Unfinished
      <4>2. KnownTrees(d, g)
        BY <4>1 DEF OriginalSound, Sure
      <4>3. journal[d].before[g] # Missing
        BY <3>1 DEF Entries
      <4>. QED BY <2>1, <4>1, <4>2, <4>3 DEF KnownTrees, OriginalSound
    <3>3. ASSUME NEW g \in Garden PROVE Published'[g] = Published[g]
      <4>1. CASE g \in T
        <5>1. Published[g] = journal[d].before[g]
          BY <1>facts, <2>6, <4>1 DEF PublishedSound
        <5>2. NoSelection(g)'
          BY <1>facts, <2>1, <2>4, <3>2, <4>1, UnselectedNext
        <5>3. Published'[g] = canonical[g]
          BY <2>1, <3>2, <4>1, <5>2, TreePublishedNext
        <5>. QED BY <3>2, <4>1, <5>1, <5>3
      <4>2. CASE g \notin T
        BY <1>facts, <2>1, <2>3, <4>2, OtherGarden
      <4>. QED BY <4>1, <4>2
    <3>. QED BY <3>3, PublishedSame
  <2>. QED BY <2>5, <2>6
<1>4. CASE TearBackup(p) \/ CleanBackup(p)
  <2>1. /\ pc[p] = "cleanBackup" /\ mem[p] = journal[d] /\ todo[p] # {} /\ todo[p] \subseteq T
        /\ Finished(mem[p]) /\ \A h \in T : lock[h] \in {d, Free}
        /\ canonical' = canonical /\ journal' = journal /\ lock' = lock
    BY <1>4, <1>duty DEF TearBackup, CleanBackup, RecoverDuty, RecoverSteps
  <2>2. PICK g \in todo[p] : g = First(todo[p])
    BY <1>types, <2>1, FirstMember
  <2>3. \A h \in Garden : h # g => \A r \in Proc : backup'[r][h] = backup[r][h]
    <3>1. CASE TearBackup(p)
      BY <1>types, <1>facts, <2>1, <2>2, <3>1 DEF TearBackup
    <3>2. CASE CleanBackup(p)
      BY <1>types, <1>facts, <2>1, <2>2, <3>2 DEF CleanBackup
    <3>. QED BY <1>4, <3>1, <3>2
  <2>4. ~Unfinished(journal[d]) /\ journal[d].state # "none"
    BY <2>1 DEF Finished, Unfinished
  <2>5. g \in T /\ g \in Garden /\ lock[g] \in {d, Free} /\ canonical[g] # Missing
    <3>1. LockedSound(d, g)
      BY <1>duty, <2>1, <2>2, <2>4 DEF JournalSound
    <3>2. lock[g] = d => canonical[g] # Missing
      BY <2>1, <3>1 DEF LockedSound
    <3>3. lock[g] = Free => canonical[g] # Missing
      BY <1>duty, <1>facts, <2>1, <2>2 DEF FreeInPlace, InPlace
    <3>. QED BY <1>facts, <2>1, <2>2, <3>2, <3>3
  <2>6. NoSelection(g) /\ NoSelection(g)'
    BY <1>facts, <2>1, <2>4, <2>5, Unselected, UnselectedNext
  <2>7. Published'[g] = Published[g]
    BY <2>1, <2>5, <2>6, TreePublished, TreePublishedNext
  <2>. QED BY <2>1, <2>3, <2>5, <2>7, OneGarden
<1>5. CASE RecoverEnd(p)
  <2>1. /\ pc[p] = "clean" /\ mem[p] = journal[d] /\ mem[p].state # "none" /\ Finished(mem[p])
        /\ canonical' = canonical /\ backup' = backup
    BY <1>5, <1>duty DEF RecoverEnd, RecoverDuty, RecoverSteps
  <2>2. journal' = [journal EXCEPT ![d] = NoJournal]
    BY <1>5, <2>1 DEF RecoverEnd
  <2>3. journal'[d].state = "none" /\ \A e \in Route : e # d => journal'[e] = journal[e]
    BY <1>types, <1>facts, <2>2 DEF NoJournal, NewJournal
  <2>. QED BY <1>facts, <2>1, <2>3, NoChange DEF Finished, Unfinished
<1>6. CASE \/ RecoverBegin(p) \/ RecoverCheck(p) \/ RollbackSkip(p) \/ RollbackDrop(p)
           \/ CleanStage(p) \/ CleanLock(p)
  <2>1. UNCHANGED <<journal, canonical, backup>>
    BY <1>6 DEF RecoverBegin, RecoverCheck, RollbackSkip, RollbackDrop, CleanStage, CleanLock,
                files
  <2>. QED BY <1>1, <2>1
<1>. QED BY <1>1, <1>2, <1>3, <1>4, <1>5, <1>6 DEF RecoverStep

-----------------------------------------------------------------------------
(***************************************************************************)
(* What a plan was made for stays true until it is selected.                *)
(***************************************************************************)
\* What is left to show for a step of p: what p itself knows.
LEMMA FreshKept ==
    ASSUME MaxLive <= 1, SerialInv, FreshInv, NEW p \in Proc, Live(p) \/ Work(p),
           edits' = edits, \A q \in Proc : q # p => pc'[q] = pc[q],
           \A e \in Route : e # PlanOf[p] => journal'[e] = journal[e],
           Kind[p] = "change" => ChangeFresh(p)',
           Kind[p] = "route" => RouteFresh(p)',
           PlanOf[p] \in Route => JournalFresh(PlanOf[p])'
    PROVE  FreshInv'
<1>1. ASSUME NEW q \in Proc, q # p PROVE ChangeFresh(q)' /\ RouteFresh(q)'
  <2>1. ~Live(q) /\ pc'[q] = pc[q]
    BY <1>1, OnlyActor DEF SerialInv
  <2>. QED BY <2>1 DEF Live, ChangeFresh, RouteFresh, Planning
<1>2. ASSUME NEW e \in Route, e # PlanOf[p] PROVE JournalFresh(e)'
  <2>1. JournalFresh(e) /\ journal'[e] = journal[e]
    BY <1>2 DEF FreshInv
  <2>. QED BY <2>1 DEF JournalFresh, Unfinished
<1>. QED BY <1>1, <1>2 DEF FreshInv

\* A journal that stays as it is.
LEMMA JournalStaysFresh ==
    ASSUME FreshInv, NEW d \in Route, journal'[d] = journal[d]
    PROVE  JournalFresh(d)'
<1>1. JournalFresh(d)
  BY DEF FreshInv
<1>. QED BY <1>1 DEF JournalFresh, Unfinished

\* Single-garden applies.
LEMMA FreshChange ==
    ASSUME MaxLive <= 1, SerialInv, FreshInv, NEW p \in Proc, Work(p), ChangeStep(p)
    PROVE  FreshInv'
<1>. DEFINE g == Home(p)
<1>kind. Kind[p] = "change"
  BY StepKinds DEF SerialInv, TypeInv
<1>types. /\ canonical \in [Garden -> Tree] /\ pc \in [Proc -> Step]
          /\ stage \in [Proc -> [Garden -> Tree]] /\ backup \in [Proc -> [Garden -> Tree]]
  BY DEF SerialInv, TypeInv, TypeOK
<1>plan. g \in Garden /\ PlanOf[p] \notin Route
  BY <1>kind, HomeInGarden, PlanKinds, StoreAssumption
<1>fresh. ChangeFresh(p)
  BY <1>kind DEF FreshInv
<1>1. edits' = edits /\ journal' = journal /\ \A q \in Proc : q # p => pc'[q] = pc[q]
  BY <1>types DEF ChangeStep, ChangeLock, ChangeVerify, ChangeBlob, ChangeStage, ChangeRecheck,
         ChangeJournal, ChangeRetire, ChangeSelect, ChangeUndo, ChangeFinally, ChangeRelease,
         files, budget, Goto
<1>. SUFFICES ChangeFresh(p)'
  BY <1>kind, <1>plan, <1>1, FreshKept
<1>. HIDE DEF g
<1>g. Home(p) = g
  BY DEF g
<1>. USE <1>g, <1>types, <1>plan, <1>fresh DEF ChangeFresh, Goto
<1>2. CASE ChangeLock(p)
  BY <1>2 DEF ChangeLock
<1>3. CASE ChangeVerify(p)
  BY <1>3 DEF ChangeVerify, files
<1>4. CASE ChangeBlob(p)
  BY <1>4 DEF ChangeBlob
<1>5. CASE ChangeStage(p)
  BY <1>5 DEF ChangeStage
<1>6. CASE ChangeRecheck(p)
  BY <1>6 DEF ChangeRecheck, files
<1>7. CASE ChangeJournal(p)
  BY <1>7 DEF ChangeJournal
<1>8. CASE ChangeRetire(p)
  <2>1. CASE canonical[g] = Missing
    BY <1>8, <2>1 DEF ChangeRetire
  <2>2. CASE canonical[g] # Missing
    <3>1. /\ pc[p] = "cretire" /\ backup' = [backup EXCEPT ![p][g] = canonical[g]]
          /\ stage' = stage /\ pc'[p] = "cselect"
      BY <1>8, <2>2 DEF ChangeRetire
    <3>2. backup'[p][g] = canonical[g]
      BY <3>1
    <3>. QED BY <3>1, <3>2
  <2>. QED BY <2>1, <2>2
<1>9. CASE ChangeSelect(p) \/ ChangeUndo(p) \/ ChangeFinally(p) \/ ChangeRelease(p)
  <2>1. pc'[p] \in {"cundo", "cfinally", "crelease", "done"}
    BY <1>9 DEF ChangeSelect, ChangeUndo, ChangeFinally, ChangeRelease
  <2>. QED BY <2>1
<1>. QED BY <1>2, <1>3, <1>4, <1>5, <1>6, <1>7, <1>8, <1>9 DEF ChangeStep

\* The steps of a routing apply up to its journal.
LEMMA FreshPlan ==
    ASSUME MaxLive <= 1, SerialInv, FreshInv, NEW p \in Proc, Work(p), Kind[p] = "route",
           \/ RouteBegin(p) \/ RouteLock(p) \/ RouteVerify(p) \/ RouteCopy(p) \/ RouteRecord(p)
           \/ RouteValidate(p) \/ RouteReverify(p)
           \/ RouteExcept(p) \/ RouteFinally(p) \/ RouteRelease(p)
    PROVE  FreshInv'
<1>. DEFINE d == PlanOf[p]
            T == Targets[PlanOf[p]]
<1>types. /\ canonical \in [Garden -> Tree] /\ pc \in [Proc -> Step]
          /\ todo \in [Proc -> SUBSET Garden] /\ mem \in [Proc -> Journal]
          /\ stage \in [Proc -> [Garden -> Tree]] /\ TypeOK
  BY DEF SerialInv, TypeInv, TypeOK
<1>facts. /\ d \in Route /\ T \subseteq Garden /\ mem[p] \in Journal
          /\ mem[p].before \in [Garden -> Tree] /\ mem[p].after \in [Garden -> Tree]
  BY <1>types, RouteFacts
<1>duty. PlanDuty(p)
  BY RouteFounded DEF RouteFoundation
<1>fresh. RouteFresh(p)
  BY DEF FreshInv
<1>1. /\ edits' = edits /\ journal' = journal /\ canonical' = canonical
      /\ \A q \in Proc : q # p => pc'[q] = pc[q]
  BY <1>types DEF RouteBegin, RouteLock, RouteVerify, RouteCopy, RouteRecord, RouteValidate,
         RouteReverify, RouteExcept, RouteFinally, RouteRelease, files, budget, Goto
<1>. SUFFICES RouteFresh(p)'
  BY <1>facts, <1>1, JournalStaysFresh, FreshKept
<1>2. CASE \/ RouteBegin(p) \/ RouteLock(p) \/ RouteExcept(p) \/ RouteFinally(p)
           \/ RouteRelease(p)
  <2>1. pc'[p] \in {"lock", "verify", "except", "check", "finally", "release", "done"}
    BY <1>types, <1>2 DEF RouteBegin, RouteLock, RouteExcept, RouteFinally, RouteRelease, Goto
  <2>. QED BY <2>1 DEF RouteFresh, Planning
<1>3. CASE RouteVerify(p)
  <2>1. pc[p] = "verify" /\ mem' = mem /\ pc'[p] \in {"finally", "copy", "except"}
    BY <1>types, <1>3 DEF RouteVerify, Goto
  <2>2. Entries(mem[p]) = {}
    BY <1>duty, <2>1 DEF PlanDuty, Planning
  <2>3. pc'[p] = "copy" => Verified(p) /\ ~AllApplied(p)
    BY <1>types, <1>3 DEF RouteVerify, Goto
  <2>. QED BY <1>1, <2>1, <2>2, <2>3 DEF RouteFresh, Planning, Verified, AllApplied, Entries
<1>4. CASE RouteCopy(p)
  <2>1. pc[p] = "copy" /\ mem' = mem /\ todo' = todo /\ pc'[p] \in {"record", "except"}
    BY <1>types, <1>4 DEF RouteCopy, Goto
  <2>2. todo[p] # {} /\ todo[p] \subseteq T
    BY <1>duty, <2>1 DEF PlanDuty, Planning
  <2>3. PICK g \in todo[p] : g = First(todo[p])
    BY <1>types, <2>2, FirstMember
  <2>4. pc'[p] = "record" => stage' = [stage EXCEPT ![p][g] = canonical[g] \cup {d}]
    BY <1>types, <1>4, <2>3 DEF RouteCopy, Goto
  <2>5. pc'[p] = "record" => stage'[p][g] = canonical[g] \cup {d}
    BY <1>types, <1>facts, <2>2, <2>4
  <2>6. First(todo[p])' = g
    BY <2>1, <2>3
  <2>. QED BY <1>fresh, <1>1, <2>1, <2>5, <2>6 DEF RouteFresh, Planning, Entries
<1>5. CASE RouteRecord(p)
  <2>1. pc[p] = "record" /\ pc'[p] \in {"validate", "copy", "except"}
    BY <1>types, <1>5 DEF RouteRecord, Goto
  <2>2. todo[p] # {} /\ todo[p] \subseteq T
    BY <1>duty, <2>1 DEF PlanDuty, Planning
  <2>3. PICK g \in todo[p] : g = First(todo[p])
    BY <1>types, <2>2, FirstMember
  <2>4. pc'[p] # "except" =>
           mem'[p] = [mem[p] EXCEPT !.before[g] = canonical[g], !.after[g] = stage[p][g]]
    <3>. DEFINE f == First(todo[p])
    <3>1. ASSUME pc'[p] # "except"
          PROVE  mem'[p] = [mem[p] EXCEPT !.before[f] = canonical[f], !.after[f] = stage[p][f]]
      BY <1>types, <1>5, <3>1 DEF RouteRecord, Goto
    <3>. QED BY <2>3, <3>1
  <2>5. stage[p][g] = canonical[g] \cup {d}
    BY <1>fresh, <2>1, <2>3 DEF RouteFresh
  <2>6. CASE pc'[p] # "except"
    <3>1. /\ mem'[p].before = [mem[p].before EXCEPT ![g] = canonical[g]]
          /\ mem'[p].after = [mem[p].after EXCEPT ![g] = stage[p][g]]
      BY <1>facts, <2>4, <2>6 DEF Journal
    <3>2. ASSUME NEW h \in Entries(mem[p])' PROVE mem'[p].after[h] = canonical'[h] \cup {d}
      <4>1. h \in Garden
        BY DEF Entries
      <4>2. CASE h = g
        BY <1>1, <1>facts, <2>5, <3>1, <4>1, <4>2
      <4>3. CASE h # g
        <5>1. mem'[p].before[h] = mem[p].before[h] /\ mem'[p].after[h] = mem[p].after[h]
          BY <1>facts, <3>1, <4>1, <4>3
        <5>2. h \in Entries(mem[p])
          BY <3>2, <4>1, <5>1 DEF Entries
        <5>. QED BY <1>fresh, <1>1, <2>1, <5>1, <5>2 DEF RouteFresh, Planning
      <4>. QED BY <4>2, <4>3
    <3>. QED BY <1>fresh, <1>1, <2>1, <2>6, <3>2 DEF RouteFresh, Planning
  <2>7. CASE pc'[p] = "except"
    BY <2>7 DEF RouteFresh, Planning
  <2>. QED BY <2>6, <2>7
<1>6. CASE RouteValidate(p) \/ RouteReverify(p)
  <2>1. /\ pc[p] \in {"validate", "reverify"} /\ mem' = mem
        /\ pc'[p] \in {"reverify", "prepare", "except"}
    BY <1>types, <1>6 DEF RouteValidate, RouteReverify, Goto
  <2>. QED BY <1>fresh, <1>1, <2>1 DEF RouteFresh, Planning, Entries
<1>. QED BY <1>2, <1>3, <1>4, <1>5, <1>6

\* Writing the journal, and the steps after it.
LEMMA FreshSelect ==
    ASSUME MaxLive <= 1, SerialInv, FreshInv, NEW p \in Proc, Work(p), Kind[p] = "route",
           \/ RoutePrepare(p) \/ RouteSelecting(p) \/ RouteRetire(p) \/ RouteSelect(p)
           \/ RouteCommit(p)
    PROVE  FreshInv'
<1>. DEFINE d == PlanOf[p]
            T == Targets[PlanOf[p]]
<1>types. pc \in [Proc -> Step] /\ TypeOK /\ journal \in [Route -> Journal]
  BY DEF SerialInv, TypeInv, TypeOK
<1>facts. d \in Route /\ T \subseteq Garden
  BY <1>types, RouteFacts
<1>duty. PlanDuty(p) /\ SelectDuty(p)
  BY RouteFounded DEF RouteFoundation
<1>fresh. RouteFresh(p) /\ JournalFresh(d) /\ edits = {}
  BY <1>facts DEF FreshInv
<1>1. /\ edits' = edits /\ \A q \in Proc : q # p => pc'[q] = pc[q]
      /\ pc'[p] \in {"selecting", "retire", "select", "commit", "check", "except"}
  BY <1>types DEF RoutePrepare, RouteSelecting, RouteRetire, RouteSelect, RouteCommit, budget, Goto
<1>2. RouteFresh(p)'
  BY <1>1 DEF RouteFresh, Planning
<1>. SUFFICES /\ JournalFresh(d)'
              /\ \A e \in Route : e # d => journal'[e] = journal[e]
  BY <1>1, <1>2, FreshKept
<1>3. CASE RoutePrepare(p)
  <2>1. pc[p] = "prepare" /\ WriteJournal(p, "prepared")
    BY <1>3 DEF RoutePrepare
  <2>2. /\ journal'[d] = mem'[p]
        /\ mem'[p].before = mem[p].before /\ mem'[p].after = mem[p].after
        /\ \A e \in Route : e # d => journal'[e] = journal[e]
    BY <2>1, <1>types, <1>facts, Written DEF JournalState
  <2>3. Recorded(p) /\ Entries(mem[p]) = T
    BY <1>duty, <2>1 DEF PlanDuty, Planning
  <2>4. \A g \in T : mem[p].before[g] = canonical[g]
    BY <1>fresh, <2>3 DEF Recorded, Calm
  <2>5. /\ \A g \in T : d \in canonical[g] \/ canonical[g] = Base[d][g]
        /\ \E g \in T : d \notin canonical[g]
        /\ \A g \in T : mem[p].after[g] = canonical[g] \cup {d}
    BY <1>fresh, <2>1, <2>3 DEF RouteFresh, Planning
  <2>. QED BY <2>2, <2>4, <2>5 DEF JournalFresh
<1>4. CASE RouteSelecting(p) \/ RouteCommit(p)
  <2>1. PICK s \in {"selecting", "committed"} : WriteJournal(p, s)
    BY <1>4 DEF RouteSelecting, RouteCommit
  <2>2. journal[d] = mem[p] /\ mem[p].state \in {"prepared", "selecting"}
    BY <1>4, <1>duty DEF SelectDuty, Selects, RouteSelecting, RouteCommit
  <2>3. /\ journal'[d] = mem'[p]
        /\ mem'[p].before = mem[p].before /\ mem'[p].after = mem[p].after
        /\ \A e \in Route : e # d => journal'[e] = journal[e]
    <3>1. s \in JournalState
      BY DEF JournalState
    <3>. QED BY <2>1, <1>types, <1>facts, <3>1, Written
  <2>. QED BY <1>fresh, <2>2, <2>3 DEF JournalFresh, Unfinished
<1>5. CASE RouteRetire(p) \/ RouteSelect(p)
  <2>1. journal' = journal
    BY <1>5 DEF RouteRetire, RouteSelect
  <2>. QED BY <1>facts, <2>1, JournalStaysFresh
<1>. QED BY <1>3, <1>4, <1>5

\* Recovery opens no selection.
LEMMA FreshRecover ==
    ASSUME MaxLive <= 1, SerialInv, FreshInv, NEW p \in Proc, Work(p), RecoverStep(p)
    PROVE  FreshInv'
<1>. DEFINE d == PlanOf[p]
<1>kind. Kind[p] # "change"
  BY StepKinds DEF SerialInv, TypeInv
<1>types. /\ pc \in [Proc -> Step] /\ TypeOK /\ journal \in [Route -> Journal]
          /\ ctx \in [Proc -> {"commit", "except", "cli"}]
  BY DEF SerialInv, TypeInv, TypeOK
<1>facts. d \in Route
  BY <1>kind, <1>types, RouteFacts
<1>0. /\ edits' = edits /\ \A q \in Proc : q # p => pc'[q] = pc[q]
      /\ pc'[p] \in RecoverSteps \cup {"except", "finally", "idle"}
  BY <1>types DEF RecoverStep, RecoverBegin, RecoverCheck, RollbackSkip, RollbackDrop,
         RollbackPark, RollbackPutback, RecoverSettle, CleanStage, TearBackup, CleanBackup,
         CleanLock, RecoverEnd, invocation, budget, Goto, RecoverHandler, RecoverSteps
<1>1. RouteFresh(p)'
  BY <1>0 DEF RouteFresh, Planning, RecoverSteps
<1>. SUFFICES /\ JournalFresh(d)'
              /\ \A e \in Route : e # d => journal'[e] = journal[e]
  BY <1>kind, <1>0, <1>1, FreshKept
<1>2. CASE journal' = journal
  BY <1>facts, <1>2, JournalStaysFresh
<1>3. CASE RecoverSettle(p)
  <2>1. PICK s \in {"committed", "rolled-back"} : WriteJournal(p, s)
    BY <1>3 DEF RecoverSettle
  <2>2. /\ journal'[d] = mem'[p] /\ mem'[p].state = s
        /\ \A e \in Route : e # d => journal'[e] = journal[e]
    <3>1. s \in JournalState
      BY DEF JournalState
    <3>. QED BY <2>1, <1>types, <1>facts, <3>1, Written
  <2>. QED BY <2>2 DEF JournalFresh, Unfinished
<1>4. CASE RecoverEnd(p) /\ journal' # journal
  <2>1. journal' = [journal EXCEPT ![d] = NoJournal]
    BY <1>4 DEF RecoverEnd
  <2>2. journal'[d].state = "none" /\ \A e \in Route : e # d => journal'[e] = journal[e]
    BY <1>types, <1>facts, <2>1 DEF NoJournal, NewJournal
  <2>. QED BY <2>2 DEF JournalFresh, Unfinished
<1>5. CASE \/ RecoverBegin(p) \/ RecoverCheck(p) \/ RollbackSkip(p) \/ RollbackDrop(p)
           \/ RollbackPark(p) \/ RollbackPutback(p) \/ CleanStage(p)
           \/ TearBackup(p) \/ CleanBackup(p) \/ CleanLock(p)
  <2>1. journal' = journal
    BY <1>5 DEF RecoverBegin, RecoverCheck, RollbackSkip, RollbackDrop, RollbackPark,
                RollbackPutback, CleanStage, TearBackup, CleanBackup, CleanLock, files
  <2>. QED BY <1>2, <2>1
<1>. QED BY <1>2, <1>3, <1>4, <1>5 DEF RecoverStep

-----------------------------------------------------------------------------
\* A killed invocation and a failing operation know nothing any more.
LEMMA FreshStop ==
    ASSUME MaxLive <= 1, SerialInv, FreshInv, NEW p \in Proc,
           Crash(p) \/ Fault(p) \/ LockFault(p)
    PROVE  FreshInv'
<1>types. pc \in [Proc -> Step] /\ ctx \in [Proc -> {"commit", "except", "cli"}]
  BY DEF SerialInv, TypeInv, TypeOK
<1>1. Live(p) /\ edits' = edits /\ journal' = journal
  BY DEF Crash, Fault, LockFault, files, Live
<1>2. /\ \A q \in Proc : q # p => pc'[q] = pc[q]
      /\ pc'[p] \in {"idle", "crashed", "cundo", "done", "cfinally", "except", "finally"}
  <2>1. CASE Crash(p)
    BY <1>types, <2>1 DEF Crash, Goto
  <2>2. CASE Fault(p)
    <3>1. Handler(p) \in {"cundo", "done", "cfinally", "except", "finally", "idle"}
      BY <1>1, <1>types
         DEF Live, Step, Handler, ChangeHandler, GroupHandler, RecoverHandler, ChangeSteps,
             ApplySteps, RecoverSteps
    <3>. QED BY <1>types, <2>2, <3>1 DEF Fault, Goto
  <2>3. CASE LockFault(p)
    BY <1>types, <2>3 DEF LockFault, Goto
  <2>. QED BY <2>1, <2>2, <2>3
<1>3. ChangeFresh(p)' /\ RouteFresh(p)'
  BY <1>2 DEF ChangeFresh, RouteFresh, Planning
<1>4. PlanOf[p] \in Route => JournalFresh(PlanOf[p])'
  BY <1>1, JournalStaysFresh
<1>. QED BY <1>1, <1>2, <1>3, <1>4, FreshKept

LEMMA FreshNext ==
    ASSUME MaxLive <= 1, Edit = {}, SerialInv, FreshInv, [Next]_vars
    PROVE  FreshInv'
<1>1. ASSUME NEW p \in Proc, Work(p) PROVE FreshInv'
  <2>1. ChangeStep(p) \/ RouteStep(p) \/ RecoverStep(p)
    BY <1>1 DEF Work
  <2>2. RouteStep(p) => Kind[p] = "route"
    BY StepKinds DEF SerialInv, TypeInv
  <2>. QED BY <1>1, <2>1, <2>2, FreshChange, FreshPlan, FreshSelect, FreshRecover DEF RouteStep
<1>2. ASSUME NEW p \in Proc, Crash(p) \/ Fault(p) \/ LockFault(p) PROVE FreshInv'
  BY <1>2, FreshStop
<1>3. ~OwnerEdit
  BY DEF OwnerEdit
<1>4. CASE Rebind \/ UNCHANGED vars
  <2>1. UNCHANGED <<canonical, journal, stage, backup, pc, todo, mem, edits>>
    BY <1>4 DEF Rebind, vars, files, invocation, budget
  <2>2. \A p \in Proc : /\ Kind[p] = "change" => ChangeFresh(p)'
                        /\ Kind[p] = "route" => RouteFresh(p)'
    BY <2>1 DEF FreshInv, ChangeFresh, RouteFresh, Entries
  <2>3. \A d \in Route : JournalFresh(d)'
    BY <2>1 DEF FreshInv, JournalFresh, Unfinished
  <2>. QED BY <2>1, <2>2, <2>3 DEF FreshInv
<1>. QED BY <1>1, <1>2, <1>3, <1>4 DEF Next

LEMMA FreshInit == ASSUME Edit = {}, Init PROVE FreshInv
  BY DEF Init, StoreInit, FreshInv, ChangeFresh, RouteFresh, Planning, JournalFresh, Unfinished,
         NoJournal, NewJournal

\* Every step publishes one plan, or nothing.
LEMMA PublishNext ==
    ASSUME MaxLive <= 1, SerialInv, SerialInv', FreshInv, PublishedSound, PublishedSound',
           [Next]_vars, Edit = {}
    PROVE  Published' = Published \/ Abstract!Next
<1>. SUFFICES Published' = Published \/ \E d \in Plan : Abstract!Publish(d)
  BY DEF Abstract!Next, Plan
<1>1. ASSUME NEW p \in Proc, Work(p)
      PROVE  Published' = Published \/ Abstract!Publish(PlanOf[p])
  <2>1. ChangeStep(p) \/ RouteStep(p) \/ RecoverStep(p)
    BY <1>1 DEF Work
  <2>2. /\ ChangeStep(p) => Kind[p] = "change"
        /\ RouteStep(p) => Kind[p] = "route"
        /\ RecoverStep(p) => Kind[p] # "change"
    BY StepKinds DEF SerialInv, TypeInv
  <2>3. CASE ChangeStep(p)
    BY <2>2, <2>3, PublishChange DEF FreshInv
  <2>4. CASE RouteStep(p)
    <3>1. PlanOf[p] \in Route
      BY <2>2, <2>4, PlanKinds
    <3>. QED BY <2>2, <2>4, <3>1, PublishRoute DEF FreshInv
  <2>5. CASE RecoverStep(p)
    BY <2>2, <2>5, PublishRecover DEF FreshInv
  <2>. QED BY <2>1, <2>3, <2>4, <2>5
<1>2. ASSUME NEW p \in Proc, Crash(p) \/ Fault(p) \/ LockFault(p)
      PROVE  Published' = Published
  <2>1. UNCHANGED <<journal, canonical, backup>>
    BY <1>2 DEF Crash, Fault, LockFault, files
  <2>. QED BY <2>1, FilesSame
<1>3. ~OwnerEdit
  BY DEF OwnerEdit
<1>4. CASE Rebind \/ UNCHANGED vars
  <2>1. UNCHANGED <<journal, canonical, backup>>
    BY <1>4 DEF Rebind, vars, files
  <2>. QED BY <2>1, FilesSame
<1>5. \A p \in Proc : PlanOf[p] \in Plan
  BY StoreAssumption
<1>. QED BY <1>1, <1>2, <1>3, <1>4, <1>5 DEF Next

\* Nothing is published at first.
LEMMA PublishInit == ASSUME Init, SerialInv PROVE Abstract!Init
<1>1. PublishedSound
  BY SerialPublished
<1>2. ASSUME NEW g \in Garden PROVE Published[g] = {"seed"}
  <2>1. NoSelection(g)
    BY DEF NoSelection, Unfinished, Init, StoreInit, NoJournal, NewJournal
  <2>2. canonical[g] = {"seed"}
    BY DEF Init, StoreInit, Seed
  <2>. QED BY <1>1, <2>1, <2>2, TreePublished DEF Missing
<1>3. Published = [g \in Garden |-> Published[g]]
  BY DEF Published
<1>. QED BY <1>2, <1>3 DEF Abstract!Init, Garden

\* Where invocations do not overlap and nobody edits a tree by hand, the writers
\* implement AtomicPublication: whatever is killed or fails, a plan appears in all of its
\* gardens in one step, and only on the revisions it was reviewed for (apply_group,
\* recover_routing and ChangePlan.apply).
THEOREM SerialPublishes ==
    ASSUME MaxLive <= 1, Edit = {}
    PROVE  Spec => AbstractSpec
<1>1. Init => SerialInv /\ FreshInv
  BY SerialInit, FreshInit
<1>2. SerialInv /\ [Next]_vars => SerialInv'
  BY SerialNext
<1>3. SerialInv /\ FreshInv /\ [Next]_vars => FreshInv'
  BY FreshNext
<1>4. Init => Abstract!Init
  BY SerialInit, PublishInit
<1>5. SerialInv' => PublishedSound'
  BY SerialPublished, PTL
<1>6. SerialInv /\ FreshInv /\ SerialInv' /\ [Next]_vars
         => [Abstract!Next]_Published
  BY <1>5, SerialPublished, PublishNext
<1>. QED BY <1>1, <1>2, <1>3, <1>4, <1>6, PTL DEF Spec, AbstractSpec, Abstract!Spec

=============================================================================

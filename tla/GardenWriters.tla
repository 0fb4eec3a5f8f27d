---------------------------- MODULE GardenWriters ----------------------------
(***************************************************************************)
(* All writers of the gardens together: single-garden change plans, multi- *)
(* garden routing plans and explicit recovery, run as separate invocations *)
(* whose file operations interleave; invocations that are killed, file     *)
(* operations that fail, an owner who edits trees by hand, and a bindings  *)
(* file that changes.                                                      *)
(***************************************************************************)
EXTENDS ChangeApply, GroupApply

CONSTANTS
    MaxLive,     \* how many invocations may run at the same time
    MaxCrashes,  \* how many are killed
    MaxFaults,   \* how many file operations raise
    MaxRebinds,  \* how often the bindings file changes
    LiveEdits    \* may the owner edit while an invocation runs?

ASSUME WritersAssumption ==
    /\ MaxLive \in Nat /\ MaxCrashes \in Nat /\ MaxFaults \in Nat /\ MaxRebinds \in Nat
    /\ LiveEdits \in BOOLEAN

Running == {p \in Proc : Live(p)}

\* The next file operation of p; a new invocation starts when the limit allows it.
Work(p) ==
    /\ Live(p) \/ Cardinality(Running) < MaxLive
    /\ ChangeStep(p) \/ RouteStep(p) \/ RecoverStep(p)

\* p is killed.  Its files stay; recovery can be started again.
Crash(p) ==
    /\ Live(p) /\ crashes < MaxCrashes
    /\ crashes' = crashes + 1
    /\ Goto(p, IF Kind[p] = "recover" THEN "idle" ELSE "crashed")
    /\ held' = [held EXCEPT ![p] = {}]
    /\ UNCHANGED <<files, todo, mem, ctx, ret, edits, faults>>

Handler(p) == IF pc[p] \in ChangeSteps THEN ChangeHandler(pc[p]) ELSE GroupHandler(p)

\* The file operation that p is about to perform raises without any effect.
Fault(p) ==
    /\ Live(p) /\ faults < MaxFaults
    /\ faults' = faults + 1
    /\ Goto(p, Handler(p))
    /\ UNCHANGED <<files, todo, held, mem, ctx, ret, edits, crashes>>

\* The lock file is created, but writing its content raises: it is not in the
\* list of locks that finally releases.
LockFault(p) ==
    LET g == First(todo[p]) IN
    /\ pc[p] = "lock" /\ lock[g] = Free /\ faults < MaxFaults
    /\ faults' = faults + 1
    /\ lock' = [lock EXCEPT ![g] = Blank]
    /\ Goto(p, "except")
    /\ UNCHANGED <<canonical, journal, stage, backup, vault, bindings,
                   todo, held, mem, ctx, ret, edits, crashes>>

\* The owner changes a tree that is in place.
OwnerEdit ==
    /\ LiveEdits \/ Running = {}
    /\ \E e \in Edit \ edits, g \in Garden :
          /\ canonical[g] # Missing
          /\ canonical' = [canonical EXCEPT ![g] = @ \cup {e}]
          /\ edits' = edits \cup {e}
    /\ UNCHANGED <<lock, journal, stage, backup, vault, bindings, invocation, crashes, faults>>

\* A registry operation or a vault relocation rewrites the bindings file.
Rebind ==
    /\ bindings < MaxRebinds
    /\ bindings' = bindings + 1
    /\ UNCHANGED <<canonical, lock, journal, stage, backup, vault, invocation, budget>>

Init == StoreInit

Next ==
    \/ \E p \in Proc : Work(p) \/ Crash(p) \/ Fault(p) \/ LockFault(p)
    \/ OwnerEdit
    \/ Rebind

Spec == Init /\ [][Next]_vars

\* The machine runs every invocation that was started.  The owner runs recovery
\* again while a journal is there: recoveries of two plans refuse each other's
\* locks in turn, so each must get on although it is not enabled all the time.
FairSpec ==
    /\ Spec
    /\ \A p \in Proc : IF Kind[p] = "recover" THEN SF_vars(Work(p)) ELSE WF_vars(Work(p))

-----------------------------------------------------------------------------
(***************************************************************************)
(* Safety                                                                  *)
(***************************************************************************)

\* No invocation of plan d is between its first and its last step.
Quiet(d) == \A p \in Proc : PlanOf[p] = d => ~Live(p)

\* The locks p relies on: from taking them until no step of p touches a tree
\* in place any more (a finished journal only has temporaries to remove).
Writing(p) == {g \in held[p] :
    \/ pc[p] \in ApplySteps \cup (ChangeSteps \ {"crelease"})
    \/ /\ pc[p] \in {"except", "check", "rollback", "park", "putback"}
       /\ Unfinished(journal[PlanOf[p]])}

\* Two invocations never both believe they hold the write lock of one garden
\* (the WRITE_LOCKED error of changes.py and transactions.py).
SingleWriter ==
    \A p, q \in Proc : p # q => Writing(p) \cap Writing(q) = {}

\* While a journal is not finished, every tree it would restore still exists
\* complete, in place or as the backup (never delete a last original).
OriginalsSurvive ==
    \A d \in Route : Unfinished(journal[d]) =>
       \A g \in Entries(journal[d]) :
          \/ journal[d].before[g] \subseteq canonical[g]
          \/ journal[d].before[g] \subseteq backup[journal[d].by][g]

\* Whatever an interrupted apply or rollback left behind, recovery accepts it:
\* as long as nobody edited a tree or changed the bindings, an unfinished
\* journal that no invocation works on passes recover_routing's verification.
UnfinishedIsRecoverable ==
    edits = {} /\ bindings = 0 =>
       \A d \in Route : Unfinished(journal[d]) /\ Quiet(d) => Recoverable(d)

\* A change that was reported as applied stays in its gardens, whatever other
\* invocations and recoveries do afterwards (no lost update).
AppliedIsDurable ==
    \A p \in Proc : ret[p] = "applied" =>
       \A g \in Targets[PlanOf[p]] : PlanOf[p] \in Surviving(g)

\* Records never refer to blobs that the vault does not hold: a change plan's
\* blobs are stored before any tree with its records is selected.
BlobsBeforeRecords ==
    \A g \in Garden : canonical[g] \cap Change \subseteq vault

\* With no crash, no failing file operation and the bindings as they were,
\* invocations that refuse, give up or succeed leave no lock, stage, backup or
\* journal behind.
NothingLeftBehind ==
    Running = {} /\ crashes = 0 /\ faults = 0 /\ bindings = 0 =>
       /\ \A g \in Garden : lock[g] = Free /\ canonical[g] # Missing
       /\ \A p \in Proc, g \in Garden : stage[p][g] = Missing /\ backup[p][g] = Missing
       /\ \A d \in Route : journal[d].state = "none"

-----------------------------------------------------------------------------
(***************************************************************************)
(* Refinement: AtomicPublication with the trees that are published.  The   *)
(* gardens of an unfinished journal still count as what they were before.  *)
(***************************************************************************)
Published == [g \in Garden |->
    IF \E d \in Route : Unfinished(journal[d]) /\ g \in Entries(journal[d])
    THEN journal[CHOOSE d \in Route : Unfinished(journal[d])
                                      /\ g \in Entries(journal[d])].before[g]
    ELSE Surviving(g)]

Abstract == INSTANCE AtomicPublication WITH published <- Published
AbstractSpec == Abstract!Spec

-----------------------------------------------------------------------------
(***************************************************************************)
(* Liveness, under FairSpec                                                *)
(***************************************************************************)

\* An interrupted selection is eventually rolled back or committed, although
\* apply, rollback and recovery themselves may be killed or fail (the except
\* clause of apply_group and route --recover), unless somebody edits a tree or
\* changes the bindings: recovery then stops.
Settles ==
    \A d \in Route :
       Unfinished(journal[d]) ~> (~Unfinished(journal[d]) \/ edits # {} \/ bindings # 0)

=============================================================================

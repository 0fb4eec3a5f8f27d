----------------------------- MODULE GroupApply ------------------------------
(***************************************************************************)
(* apply_group and recover_routing (application/transactions.py): one      *)
(* invocation locks every target garden of a routing plan, stages them     *)
(* all, writes a journal, selects the gardens one after the other and      *)
(* commits by rewriting the journal; recovery rolls back or finishes what  *)
(* the journal records.  Every file operation is a step of its own.        *)
(***************************************************************************)
EXTENDS GardenStore

\* Where an exception in recover_routing goes: it is called after the commit,
\* by apply's except clause, or by the command line.
RecoverHandler(p) ==
    CASE ctx[p] = "commit" -> "except"
      [] ctx[p] = "except" -> "finally"
      [] ctx[p] = "cli"    -> "idle"

-----------------------------------------------------------------------------
(***************************************************************************)
(* apply_group                                                             *)
(***************************************************************************)

\* A journal from an earlier, interrupted run of this plan: RECOVERY_REQUIRED.
RouteBegin(p) ==
    /\ pc[p] = "idle" /\ Kind[p] = "route"
    /\ IF journal[PlanOf[p]].state # "none"
       THEN Goto(p, "done") /\ UNCHANGED <<todo, mem>>
       ELSE /\ mem' = [mem EXCEPT ![p] = NewJournal(p, bindings)]
            /\ todo' = [todo EXCEPT ![p] = Targets[PlanOf[p]]]
            /\ Goto(p, "lock")
    /\ UNCHANGED <<files, held, ctx, ret, budget>>

\* The next lock in identity order; a lock that exists stops the run.
RouteLock(p) ==
    LET g == First(todo[p]) IN
    /\ pc[p] = "lock"
    /\ \/ /\ lock[g] = Free
          /\ lock' = [lock EXCEPT ![g] = PlanOf[p]]
          /\ held' = [held EXCEPT ![p] = @ \cup {g}]
          /\ todo' = [todo EXCEPT ![p] = @ \ {g}]
          /\ Goto(p, IF todo[p] = {g} THEN "verify" ELSE "lock")
       \/ /\ lock[g] # Free
          /\ Goto(p, "except")
          /\ UNCHANGED <<lock, held, todo>>
    /\ UNCHANGED <<canonical, journal, stage, backup, vault, bindings, mem, ctx, ret, budget>>

\* ChangePlan.verify of every target, with the bindings among its source checks.
Verified(p) ==
    /\ bindings = mem[p].bindings
    /\ \A g \in Targets[PlanOf[p]] :
          PlanOf[p] \in canonical[g] \/ canonical[g] = Base[PlanOf[p]][g]

\* RoutingPlan.apply's validate: the gardens that are only read have not changed.
Validated(p) ==
    \A g \in Garden \ Targets[PlanOf[p]] : canonical[g] = Base[PlanOf[p]][g]

AllApplied(p) == \A g \in Targets[PlanOf[p]] : PlanOf[p] \in canonical[g]

RouteVerify(p) ==
    /\ pc[p] = "verify"
    /\ \/ /\ Verified(p) /\ AllApplied(p) /\ Validated(p)
          /\ ret' = [ret EXCEPT ![p] = "unchanged"]
          /\ Goto(p, "finally")
          /\ UNCHANGED todo
       \/ /\ Verified(p) /\ ~AllApplied(p)
          /\ todo' = [todo EXCEPT ![p] = Targets[PlanOf[p]]]
          /\ Goto(p, "copy")
          /\ UNCHANGED ret
       \/ /\ ~Verified(p) \/ (AllApplied(p) /\ ~Validated(p))
          /\ Goto(p, "except")
          /\ UNCHANGED <<todo, ret>>
    /\ UNCHANGED <<files, held, mem, ctx, budget>>

\* mkdtemp, copytree of .garden and the plan's files.
RouteCopy(p) ==
    LET g == First(todo[p]) IN
    /\ pc[p] = "copy"
    /\ IF canonical[g] = Missing
       THEN Goto(p, "except") /\ UNCHANGED stage
       ELSE /\ stage' = [stage EXCEPT ![p][g] = canonical[g] \cup {PlanOf[p]}]
            /\ Goto(p, "record")
    /\ UNCHANGED <<canonical, lock, journal, backup, vault, bindings,
                   todo, held, mem, ctx, ret, budget>>

\* Mutation of RouteRecord: the stage's fingerprint is taken before the plan's files are added.
RecordCopyOnly(p) ==
    LET g == First(todo[p]) IN
    /\ pc[p] = "record"
    /\ mem' = [mem EXCEPT ![p].before[g] = canonical[g], ![p].after[g] = canonical[g]]
    /\ todo' = [todo EXCEPT ![p] = @ \ {g}]
    /\ Goto(p, IF todo[p] = {g} THEN "validate" ELSE "copy")
    /\ UNCHANGED <<files, held, ctx, ret, budget>>

\* The journal entry: fingerprints of the tree in place and of the stage.
RouteRecord(p) ==
    LET g == First(todo[p]) IN
    /\ pc[p] = "record"
    /\ IF canonical[g] = Missing
       THEN Goto(p, "except") /\ UNCHANGED <<mem, todo>>
       ELSE /\ mem' = [mem EXCEPT ![p].before[g] = canonical[g],
                                  ![p].after[g] = stage[p][g]]
            /\ todo' = [todo EXCEPT ![p] = @ \ {g}]
            /\ Goto(p, IF todo[p] = {g} THEN "validate" ELSE "copy")
    /\ UNCHANGED <<files, held, ctx, ret, budget>>

RouteValidate(p) ==
    /\ pc[p] = "validate"
    /\ Goto(p, IF Validated(p) THEN "reverify" ELSE "except")
    /\ UNCHANGED <<files, todo, held, mem, ctx, ret, budget>>

RouteReverify(p) ==
    /\ pc[p] = "reverify"
    /\ Goto(p, IF Verified(p) THEN "prepare" ELSE "except")
    /\ UNCHANGED <<files, todo, held, mem, ctx, ret, budget>>

\* atomic_journal: the document with this state replaces the journal file.
WriteJournal(p, state) ==
    /\ mem' = [mem EXCEPT ![p].state = state]
    /\ journal' = [journal EXCEPT ![PlanOf[p]] = [mem[p] EXCEPT !.state = state]]

RoutePrepare(p) ==
    /\ pc[p] = "prepare"
    /\ WriteJournal(p, "prepared")
    /\ Goto(p, "selecting")
    /\ UNCHANGED <<canonical, lock, stage, backup, vault, bindings,
                   todo, held, ctx, ret, budget>>

RouteSelecting(p) ==
    /\ pc[p] = "selecting"
    /\ WriteJournal(p, "selecting")
    /\ todo' = [todo EXCEPT ![p] = Entries(mem[p])]
    /\ Goto(p, "retire")
    /\ UNCHANGED <<canonical, lock, stage, backup, vault, bindings, held, ctx, ret, budget>>

\* os.replace(.garden, backup).
RouteRetire(p) ==
    LET g == First(todo[p]) IN
    /\ pc[p] = "retire"
    /\ IF canonical[g] = Missing
       THEN Goto(p, "except") /\ UNCHANGED <<canonical, backup>>
       ELSE /\ backup' = [backup EXCEPT ![p][g] = canonical[g]]
            /\ canonical' = [canonical EXCEPT ![g] = Missing]
            /\ Goto(p, "select")
    /\ UNCHANGED <<lock, journal, stage, vault, bindings, todo, held, mem, ctx, ret, budget>>

\* os.replace(stage, .garden): needs the stage, and no tree in the way.
RouteSelect(p) ==
    LET g == First(todo[p]) IN
    /\ pc[p] = "select"
    /\ IF stage[p][g] = Missing \/ canonical[g] # Missing
       THEN Goto(p, "except") /\ UNCHANGED <<canonical, stage, todo>>
       ELSE /\ canonical' = [canonical EXCEPT ![g] = stage[p][g]]
            /\ stage' = [stage EXCEPT ![p][g] = Missing]
            /\ todo' = [todo EXCEPT ![p] = @ \ {g}]
            /\ Goto(p, IF todo[p] = {g} THEN "commit" ELSE "retire")
    /\ UNCHANGED <<lock, journal, backup, vault, bindings, held, mem, ctx, ret, budget>>

\* The journal says committed; recover_routing then cleans up.
RouteCommit(p) ==
    /\ pc[p] = "commit"
    /\ WriteJournal(p, "committed")
    /\ ctx' = [ctx EXCEPT ![p] = "commit"]
    /\ Goto(p, "check")
    /\ UNCHANGED <<canonical, lock, stage, backup, vault, bindings, todo, held, ret, budget>>

\* except BaseException: with a journal of this plan on disk, recover.
RouteExcept(p) ==
    /\ pc[p] = "except"
    /\ ctx' = [ctx EXCEPT ![p] = "except"]
    /\ Goto(p, IF journal[PlanOf[p]].state # "none" THEN "check" ELSE "finally")
    /\ UNCHANGED <<files, todo, held, mem, ret, budget>>

\* finally: without a journal the stages go, then the locks of this run.
RouteFinally(p) ==
    /\ pc[p] = "finally"
    /\ IF journal[PlanOf[p]].state # "none"
       THEN /\ held' = [held EXCEPT ![p] = {}]
            /\ Goto(p, "done")
            /\ UNCHANGED stage
       ELSE /\ stage' = [stage EXCEPT ![p] = [g \in Garden |-> Missing]]
            /\ Goto(p, "release")
            /\ UNCHANGED held
    /\ UNCHANGED <<canonical, lock, journal, backup, vault, bindings,
                   todo, mem, ctx, ret, budget>>

\* Mutation of RouteRelease: only the first lock of the list is removed.
ReleaseFirstOnly(p) ==
    LET g == First(held[p]) IN
    /\ pc[p] = "release"
    /\ lock' = IF held[p] = {} THEN lock ELSE [lock EXCEPT ![g] = Free]
    /\ held' = [held EXCEPT ![p] = {}]
    /\ Goto(p, "done")
    /\ UNCHANGED <<canonical, journal, stage, backup, vault, bindings,
                   todo, mem, ctx, ret, budget>>

\* lock.unlink(missing_ok=True), for the locks in the order they were taken.
RouteRelease(p) ==
    LET g == First(held[p]) IN
    /\ pc[p] = "release"
    /\ IF held[p] = {}
       THEN Goto(p, "done") /\ UNCHANGED <<lock, held>>
       ELSE /\ lock' = [lock EXCEPT ![g] = Free]
            /\ held' = [held EXCEPT ![p] = @ \ {g}]
            /\ UNCHANGED pc
    /\ UNCHANGED <<canonical, journal, stage, backup, vault, bindings,
                   todo, mem, ctx, ret, budget>>

-----------------------------------------------------------------------------
(***************************************************************************)
(* recover_routing                                                         *)
(***************************************************************************)

\* route --recover --plan-digest D, while the journal of D exists.
RecoverBegin(p) ==
    /\ pc[p] = "idle" /\ Kind[p] = "recover"
    /\ journal[PlanOf[p]].state # "none"
    /\ ctx' = [ctx EXCEPT ![p] = "cli"]
    /\ Goto(p, "check")
    /\ UNCHANGED <<files, todo, held, mem, ret, budget>>

\* What recovery demands of one target before it modifies any tree.
OwnedAndKnown(d, g) ==
    LET j == journal[d]
        kept == backup[j.by][g] IN
    /\ lock[g] = d \/ (lock[g] = Free /\ Finished(j))
    /\ canonical[g] \in {Missing, j.before[g], j.after[g]}
    /\ kept \in {Missing, j.before[g]}
    /\ j.state = "committed" => canonical[g] = j.after[g]
    /\ j.state # "committed" /\ kept = Missing => canonical[g] = j.before[g]

Recoverable(d) ==
    /\ journal[d].state # "none"
    /\ journal[d].bindings = bindings
    /\ \A g \in Entries(journal[d]) : OwnedAndKnown(d, g)

\* The whole verification reads the files in one step.
RecoverCheck(p) ==
    LET j == journal[PlanOf[p]] IN
    /\ pc[p] = "check"
    /\ IF Recoverable(PlanOf[p])
       THEN /\ mem' = [mem EXCEPT ![p] = j]
            /\ todo' = [todo EXCEPT ![p] = Entries(j)]
            /\ Goto(p, "rollback")
       ELSE Goto(p, RecoverHandler(p)) /\ UNCHANGED <<mem, todo>>
    /\ UNCHANGED <<files, held, ctx, ret, budget>>

\* A target with nothing to restore: committed, or it was never retired.
RollbackSkip(p) ==
    LET g == Final(todo[p]) IN
    /\ pc[p] = "rollback" /\ todo[p] # {}
    /\ mem[p].state = "committed" \/ backup[mem[p].by][g] = Missing
    /\ todo' = [todo EXCEPT ![p] = @ \ {g}]
    /\ UNCHANGED <<files, pc, held, mem, ctx, ret, budget>>

\* Mutation of RollbackDrop: the backup is removed to make room, not the stage.
DropOriginal(p) ==
    LET g == Final(todo[p]) IN
    /\ pc[p] = "rollback" /\ todo[p] # {}
    /\ mem[p].state # "committed" /\ backup[mem[p].by][g] # Missing
    /\ backup' = [backup EXCEPT ![mem[p].by][g] = Missing]
    /\ Goto(p, IF canonical[g] # Missing THEN "park" ELSE "putback")
    /\ UNCHANGED <<canonical, lock, journal, stage, vault, bindings,
                   todo, held, mem, ctx, ret, budget>>

\* Mutation of RollbackDrop: the selected tree is not moved out of the way.
DropStageOnly(p) ==
    LET g == Final(todo[p]) IN
    /\ pc[p] = "rollback" /\ todo[p] # {}
    /\ mem[p].state # "committed" /\ backup[mem[p].by][g] # Missing
    /\ stage' = [stage EXCEPT ![mem[p].by][g] = Missing]
    /\ Goto(p, "putback")
    /\ UNCHANGED <<canonical, lock, journal, backup, vault, bindings,
                   todo, held, mem, ctx, ret, budget>>

\* Make room for the original: drop a stage whose name the selected tree needs.
RollbackDrop(p) ==
    LET g == Final(todo[p]) IN
    /\ pc[p] = "rollback" /\ todo[p] # {}
    /\ mem[p].state # "committed" /\ backup[mem[p].by][g] # Missing
    /\ IF canonical[g] # Missing
       THEN /\ stage' = [stage EXCEPT ![mem[p].by][g] = Missing]
            /\ Goto(p, "park")
       ELSE Goto(p, "putback") /\ UNCHANGED stage
    /\ UNCHANGED <<canonical, lock, journal, backup, vault, bindings,
                   todo, held, mem, ctx, ret, budget>>

\* os.replace(.garden, stage).
RollbackPark(p) ==
    LET g == Final(todo[p]) IN
    /\ pc[p] = "park"
    /\ IF canonical[g] = Missing
       THEN Goto(p, RecoverHandler(p)) /\ UNCHANGED <<canonical, stage>>
       ELSE /\ stage' = [stage EXCEPT ![mem[p].by][g] = canonical[g]]
            /\ canonical' = [canonical EXCEPT ![g] = Missing]
            /\ Goto(p, "putback")
    /\ UNCHANGED <<lock, journal, backup, vault, bindings, todo, held, mem, ctx, ret, budget>>

\* Mutation of RollbackPutback: the loop ends after the first restored garden.
PutbackOne(p) ==
    LET g == Final(todo[p]) IN
    /\ pc[p] = "putback"
    /\ canonical' = [canonical EXCEPT ![g] = backup[mem[p].by][g]]
    /\ backup' = [backup EXCEPT ![mem[p].by][g] = Missing]
    /\ todo' = [todo EXCEPT ![p] = {}]
    /\ Goto(p, "rollback")
    /\ UNCHANGED <<lock, journal, stage, vault, bindings, held, mem, ctx, ret, budget>>

\* os.replace(backup, .garden).
RollbackPutback(p) ==
    LET g == Final(todo[p]) IN
    /\ pc[p] = "putback"
    /\ IF backup[mem[p].by][g] = Missing \/ canonical[g] # Missing
       THEN Goto(p, RecoverHandler(p)) /\ UNCHANGED <<canonical, backup, todo>>
       ELSE /\ canonical' = [canonical EXCEPT ![g] = backup[mem[p].by][g]]
            /\ backup' = [backup EXCEPT ![mem[p].by][g] = Missing]
            /\ todo' = [todo EXCEPT ![p] = @ \ {g}]
            /\ Goto(p, "rollback")
    /\ UNCHANGED <<lock, journal, stage, vault, bindings, held, mem, ctx, ret, budget>>

\* All targets handled: the journal records the outcome.
RecoverSettle(p) ==
    /\ pc[p] = "rollback" /\ todo[p] = {}
    /\ WriteJournal(p, IF mem[p].state = "committed" THEN "committed" ELSE "rolled-back")
    /\ todo' = [todo EXCEPT ![p] = Entries(mem[p])]
    /\ Goto(p, "clean")
    /\ UNCHANGED <<canonical, lock, stage, backup, vault, bindings, held, ctx, ret, budget>>

CleanStage(p) ==
    LET g == First(todo[p]) IN
    /\ pc[p] = "clean" /\ todo[p] # {}
    /\ stage' = [stage EXCEPT ![mem[p].by][g] = Missing]
    /\ Goto(p, "cleanBackup")
    /\ UNCHANGED <<canonical, lock, journal, backup, vault, bindings,
                   todo, held, mem, ctx, ret, budget>>

\* shutil.rmtree(backup) has removed some of the files.
TearBackup(p) ==
    LET g == First(todo[p]) IN
    /\ pc[p] = "cleanBackup"
    /\ backup[mem[p].by][g] \notin {Missing, {Torn}}
    /\ backup' = [backup EXCEPT ![mem[p].by][g] = {Torn}]
    /\ UNCHANGED <<canonical, lock, journal, stage, vault, bindings, invocation, budget>>

\* shutil.rmtree(backup) has removed them all.
CleanBackup(p) ==
    LET g == First(todo[p]) IN
    /\ pc[p] = "cleanBackup"
    /\ backup[mem[p].by][g] \in {Missing, {Torn}}
    /\ backup' = [backup EXCEPT ![mem[p].by][g] = Missing]
    /\ Goto(p, "unlock")
    /\ UNCHANGED <<canonical, lock, journal, stage, vault, bindings,
                   todo, held, mem, ctx, ret, budget>>

\* lock.unlink(missing_ok=True); whose lock it is was checked only at the start.
CleanLock(p) ==
    LET g == First(todo[p]) IN
    /\ pc[p] = "unlock"
    /\ lock' = [lock EXCEPT ![g] = Free]
    /\ todo' = [todo EXCEPT ![p] = @ \ {g}]
    /\ Goto(p, "clean")
    /\ UNCHANGED <<canonical, journal, stage, backup, vault, bindings,
                   held, mem, ctx, ret, budget>>

\* path.unlink(): recovery is over; without a journal file it raises.
RecoverEnd(p) ==
    LET d == PlanOf[p] IN
    /\ pc[p] = "clean" /\ todo[p] = {}
    /\ IF journal[d].state = "none"
       THEN Goto(p, RecoverHandler(p)) /\ UNCHANGED <<journal, ret>>
       ELSE /\ journal' = [journal EXCEPT ![d] = NoJournal]
            /\ ret' = IF ctx[p] = "commit" THEN [ret EXCEPT ![p] = "applied"] ELSE ret
            /\ Goto(p, IF ctx[p] = "cli" THEN "idle" ELSE "finally")
    /\ mem' = [mem EXCEPT ![p] = NoJournal]
    /\ UNCHANGED <<canonical, lock, stage, backup, vault, bindings, todo, held, ctx, budget>>

-----------------------------------------------------------------------------
\* Where an exception at a step of apply_group or recover_routing goes.
GroupHandler(p) ==
    CASE pc[p] \in ApplySteps -> "except"
      [] pc[p] \in RecoverSteps -> RecoverHandler(p)
      [] pc[p] = "except" -> "finally"
      [] pc[p] \in {"finally", "release"} -> "done"

RouteStep(p) ==
    \/ RouteBegin(p) \/ RouteLock(p) \/ RouteVerify(p) \/ RouteCopy(p) \/ RouteRecord(p)
    \/ RouteValidate(p) \/ RouteReverify(p) \/ RoutePrepare(p) \/ RouteSelecting(p)
    \/ RouteRetire(p) \/ RouteSelect(p) \/ RouteCommit(p)
    \/ RouteExcept(p) \/ RouteFinally(p) \/ RouteRelease(p)

RecoverStep(p) ==
    \/ RecoverBegin(p) \/ RecoverCheck(p) \/ RollbackSkip(p) \/ RollbackDrop(p)
    \/ RollbackPark(p) \/ RollbackPutback(p) \/ RecoverSettle(p) \/ CleanStage(p)
    \/ TearBackup(p) \/ CleanBackup(p) \/ CleanLock(p) \/ RecoverEnd(p)

=============================================================================

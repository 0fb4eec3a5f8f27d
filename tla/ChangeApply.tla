----------------------------- MODULE ChangeApply -----------------------------
(***************************************************************************)
(* ChangePlan.apply (application/changes.py): one invocation stages a copy *)
(* of one garden and selects it with two renames, under the garden's       *)
(* write lock.  Every file operation is a step of its own.                 *)
(***************************************************************************)
EXTENDS GardenStore

\* The garden of the single-garden plan that p applies.
Home(p) == CHOOSE g \in Targets[PlanOf[p]] : TRUE

\* Mutation of ChangeLock: the lock file is opened without O_EXCL.
ChangeSharedLock(p) ==
    /\ pc[p] = "idle" /\ Kind[p] = "change"
    /\ lock' = [lock EXCEPT ![Home(p)] = Blank]
    /\ held' = [held EXCEPT ![p] = {Home(p)}]
    /\ Goto(p, "cverify")
    /\ UNCHANGED <<canonical, journal, stage, backup, vault, bindings,
                   todo, mem, ctx, ret, budget>>

\* os.open(O_EXCL): creates an empty lock file, or fails with WRITE_LOCKED.
ChangeLock(p) ==
    /\ pc[p] = "idle" /\ Kind[p] = "change"
    /\ \/ /\ lock[Home(p)] = Free
          /\ lock' = [lock EXCEPT ![Home(p)] = Blank]
          /\ held' = [held EXCEPT ![p] = {Home(p)}]
          /\ Goto(p, "cverify")
       \/ /\ lock[Home(p)] # Free
          /\ Goto(p, "done")
          /\ UNCHANGED <<lock, held>>
    /\ UNCHANGED <<canonical, journal, stage, backup, vault, bindings,
                   todo, mem, ctx, ret, budget>>

\* Mutation of ChangeVerify: staging starts before the blobs are stored.
VerifyThenStage(p) ==
    LET tree == canonical[Home(p)] IN
    /\ pc[p] = "cverify"
    /\ Goto(p, IF PlanOf[p] \notin tree /\ tree = Base[PlanOf[p]][Home(p)]
               THEN "cstage" ELSE "cfinally")
    /\ UNCHANGED <<files, todo, held, mem, ctx, ret, budget>>

\* self.verify: already applied, made for this revision, or stale.
ChangeVerify(p) ==
    LET tree == canonical[Home(p)] IN
    /\ pc[p] = "cverify"
    /\ \/ /\ PlanOf[p] \in tree
          /\ ret' = [ret EXCEPT ![p] = "unchanged"]
          /\ Goto(p, "cfinally")
       \/ /\ PlanOf[p] \notin tree /\ tree = Base[PlanOf[p]][Home(p)]
          /\ Goto(p, "cblob")
          /\ UNCHANGED ret
       \/ /\ PlanOf[p] \notin tree /\ tree # Base[PlanOf[p]][Home(p)]
          /\ Goto(p, "cfinally")
          /\ UNCHANGED ret
    /\ UNCHANGED <<files, todo, held, mem, ctx, budget>>

\* The blobs that the new records refer to go to the source vault first.
ChangeBlob(p) ==
    /\ pc[p] = "cblob"
    /\ vault' = vault \cup {PlanOf[p]}
    /\ Goto(p, "cstage")
    /\ UNCHANGED <<canonical, lock, journal, stage, backup, bindings,
                   todo, held, mem, ctx, ret, budget>>

\* mkdtemp, copytree of .garden and the new files.
ChangeStage(p) ==
    LET tree == canonical[Home(p)] IN
    /\ pc[p] = "cstage"
    /\ IF tree = Missing
       THEN Goto(p, "cfinally") /\ UNCHANGED stage
       ELSE /\ stage' = [stage EXCEPT ![p][Home(p)] = tree \cup {PlanOf[p]}]
            /\ Goto(p, "crecheck")
    /\ UNCHANGED <<canonical, lock, journal, backup, vault, bindings,
                   todo, held, mem, ctx, ret, budget>>

\* The target must still have the planned revision after staging.
ChangeRecheck(p) ==
    /\ pc[p] = "crecheck"
    /\ Goto(p, IF canonical[Home(p)] = Base[PlanOf[p]][Home(p)] THEN "cjournal" ELSE "cfinally")
    /\ UNCHANGED <<files, todo, held, mem, ctx, ret, budget>>

\* The lock file becomes the write journal of this plan.
ChangeJournal(p) ==
    /\ pc[p] = "cjournal"
    /\ lock' = [lock EXCEPT ![Home(p)] = PlanOf[p]]
    /\ Goto(p, "cretire")
    /\ UNCHANGED <<canonical, journal, stage, backup, vault, bindings,
                   todo, held, mem, ctx, ret, budget>>

\* os.replace(garden, backup).
ChangeRetire(p) ==
    /\ pc[p] = "cretire"
    /\ IF canonical[Home(p)] = Missing
       THEN Goto(p, "cfinally") /\ UNCHANGED <<canonical, backup>>
       ELSE /\ backup' = [backup EXCEPT ![p][Home(p)] = canonical[Home(p)]]
            /\ canonical' = [canonical EXCEPT ![Home(p)] = Missing]
            /\ Goto(p, "cselect")
    /\ UNCHANGED <<lock, journal, stage, vault, bindings, todo, held, mem, ctx, ret, budget>>

\* os.replace(stage, garden); it cannot replace a tree that is in the way.
ChangeSelect(p) ==
    /\ pc[p] = "cselect"
    /\ IF canonical[Home(p)] # Missing
       THEN Goto(p, "cundo") /\ UNCHANGED <<canonical, stage, ret>>
       ELSE /\ canonical' = [canonical EXCEPT ![Home(p)] = stage[p][Home(p)]]
            /\ stage' = [stage EXCEPT ![p][Home(p)] = Missing]
            /\ ret' = [ret EXCEPT ![p] = "applied"]
            /\ Goto(p, "cfinally")
    /\ UNCHANGED <<lock, journal, backup, vault, bindings, todo, held, mem, ctx, budget>>

\* The failed selection is undone: os.replace(backup, garden).
ChangeUndo(p) ==
    /\ pc[p] = "cundo"
    /\ Goto(p, "cfinally")
    /\ IF canonical[Home(p)] # Missing
       THEN UNCHANGED <<canonical, backup>>
       ELSE /\ canonical' = [canonical EXCEPT ![Home(p)] = backup[p][Home(p)]]
            /\ backup' = [backup EXCEPT ![p][Home(p)] = Missing]
    /\ UNCHANGED <<lock, journal, stage, vault, bindings, todo, held, mem, ctx, ret, budget>>

\* finally: the stage goes, and the backup once its replacement is selected.
ChangeFinally(p) ==
    /\ pc[p] = "cfinally"
    /\ stage' = [stage EXCEPT ![p][Home(p)] = Missing]
    /\ backup' = IF ret[p] = "applied" THEN [backup EXCEPT ![p][Home(p)] = Missing] ELSE backup
    /\ Goto(p, "crelease")
    /\ UNCHANGED <<canonical, lock, journal, vault, bindings, todo, held, mem, ctx, ret, budget>>

\* The lock goes too, unless the original survives only as the backup.
ChangeRelease(p) ==
    /\ pc[p] = "crelease"
    /\ lock' = IF ret[p] = "applied" \/ backup[p][Home(p)] = Missing
               THEN [lock EXCEPT ![Home(p)] = Free] ELSE lock
    /\ held' = [held EXCEPT ![p] = {}]
    /\ Goto(p, "done")
    /\ UNCHANGED <<canonical, journal, stage, backup, vault, bindings,
                   todo, mem, ctx, ret, budget>>

\* Where an exception at a step of apply goes.
ChangeHandler(step) ==
    CASE step = "cselect" -> "cundo"
      [] step \in {"cfinally", "crelease"} -> "done"
      [] OTHER -> "cfinally"

ChangeStep(p) ==
    \/ ChangeLock(p) \/ ChangeVerify(p) \/ ChangeBlob(p) \/ ChangeStage(p)
    \/ ChangeRecheck(p) \/ ChangeJournal(p) \/ ChangeRetire(p) \/ ChangeSelect(p)
    \/ ChangeUndo(p) \/ ChangeFinally(p) \/ ChangeRelease(p)

=============================================================================

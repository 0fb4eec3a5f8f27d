-------------------------- MODULE RegistryWriters ---------------------------
(***************************************************************************)
(* The commands that write the registry file: `registry ... --output' and  *)
(* `registry apply' (clerks), vault relocation, which writes the same file *)
(* (movers), and the owner's own edits of it and of the gardens.           *)
(***************************************************************************)
EXTENDS Registry

CONSTANTS
    Handwritten,    \* bindings files the owner may have before `registry init'
    FirstDisk,      \* the gardens that exist when this begins
    Clerk,          \* people at a terminal, each with the plan last reviewed
    Mover,          \* vault relocations
    MaxSnapshots,   \* of the history directory
    MaxPlans,       \* how many plans are made
    MaxEdits,       \* how often the owner changes a garden folder
    MaxInterrupts,  \* how many steps of a clerk are cut short
    InterruptAt,    \* where a clerk may be cut short
    Overlap,        \* may an apply and a relocation be in the last instant of a write at once?
    QuietOwner      \* the owner does not edit the file in that instant

VARIABLES
    (***********************************************************************)
    (* Files.                                                              *)
    (***********************************************************************)
    registry,   \* the document, or Absent
    history,    \* snapshots that are complete
    torn,       \* snapshots of which only a part was written
    marker,     \* the history owner file: "absent", "torn" or "whole"
    disk,       \* the garden manifests in the folders
    pin,        \* pin[s]: the view session s was made for, or NoView
    (***********************************************************************)
    (* Processes.                                                          *)
    (***********************************************************************)
    plan,       \* plan[p]: the plan that p has saved, or NoView
    pc,         \* where p is in apply_registry_plan, or a mover in apply
    lease,      \* who holds the kernel lock, or Absent
    result,     \* what the last apply of p reported
    loaded,     \* loaded[m]: the bindings that mover m has read and works on
    plans, edits, interrupts

files == <<registry, history, torn, marker, disk, pin>>
bounds == <<plans, edits, interrupts>>
vars == <<files, plan, pc, lease, result, loaded, bounds>>

ASSUME WritersAssumption ==
    /\ \A d \in Handwritten :
          /\ d \in Registry /\ ~ d.managed
          /\ d.views = NoSelections /\ d.epoch = NoEpochs
          /\ Cardinality(Bound(d)) <= MaxGardens
    /\ Clerk \cap Mover = {} /\ Absent \notin Clerk \cup Mover
    /\ FirstDisk \in Disk
    /\ MaxSnapshots \in Nat /\ MaxPlans \in Nat /\ MaxEdits \in Nat /\ MaxInterrupts \in Nat
    /\ Overlap \in BOOLEAN /\ QuietOwner \in BOOLEAN

Plan ==
    [request : Request(Registry), before : Registry \cup {Absent},
     after : Registry, inputs : UNION {[R -> Manifest \cup {Missing}] : R \in SUBSET Root}]
NoPlan == Absent

ASSUME PlanAssumption == NoPlan \notin Plan

ClerkSteps ==
    {"idle", "admitted", "leased", "cleared", "verified", "marking", "copying",
     "preserved", "staged", "final", "published"}
MoverSteps == {"idle", "planned", "verified", "moved"}

TypeOK ==
    /\ registry \in Registry \cup {Absent}
    /\ history \subseteq Registry /\ torn \subseteq Registry
    /\ marker \in {"absent", "torn", "whole"}
    /\ disk \in Disk
    /\ pin \in [Session -> Pin \cup {NoView}]
    /\ plan \in [Clerk -> Plan \cup {NoPlan}]
    /\ pc \in [Clerk \cup Mover -> ClerkSteps \cup MoverSteps]
    /\ lease \in Clerk \cup {Absent}
    /\ result \in [Clerk -> {"none", "applied", "unchanged", "refused", "uncertain"}]
    /\ loaded \in [Mover -> Registry \cup {Absent}]
    /\ plans \in 0..MaxPlans /\ edits \in 0..MaxEdits /\ interrupts \in 0..MaxInterrupts

Init ==
    /\ registry \in Handwritten \cup {Absent}
    /\ history = {} /\ torn = {} /\ marker = "absent"
    /\ disk = FirstDisk
    /\ pin = [s \in Session |-> NoView]
    /\ plan = [p \in Clerk |-> NoPlan]
    /\ pc = [p \in Clerk \cup Mover |-> "idle"]
    /\ lease = Absent
    /\ result = [p \in Clerk |-> "none"]
    /\ loaded = [m \in Mover |-> Absent]
    /\ plans = 0 /\ edits = 0 /\ interrupts = 0

(***************************************************************************)
(* Plans: build_registry_plan, and prepare() when one is applied.          *)
(***************************************************************************)
PlanFor(file, req) ==
    [request |-> req, before |-> file,
     after |-> After(Document(file), req, disk),
     inputs |-> Inputs(Document(file), req, disk)]

\* read_snapshot accepts complete snapshots in an owned history.
Readable(req) ==
    req.op = "restore" => marker = "whole" /\ req.snapshot \in history

CanBuild(file, req) == Readable(req) /\ Buildable(Document(file), req, disk)

\* The plan that p saved is what would be planned now.
Rebuilds(p) ==
    /\ CanBuild(registry, plan[p].request)
    /\ PlanFor(registry, plan[p].request) = plan[p]

\* The effect is there already, and was computed from the same manifests.
InEffect(p) ==
    LET req == plan[p].request
        again == PlanFor(registry, req)
    IN  /\ registry = plan[p].after
        /\ CanBuild(registry, req)
        /\ IF req.op = "restore" THEN Semantic(again.after) = Semantic(registry)
                                 ELSE again.after = registry
        /\ again.inputs = plan[p].inputs

Prepare(p) ==
    IF registry = plan[p].after
    THEN IF InEffect(p) THEN "unchanged" ELSE "stale"
    ELSE IF Rebuilds(p) THEN "changes" ELSE "stale"

\* The file has been compared for the last time and is not yet replaced.
Moving == \E m \in Mover : pc[m] = "verified"
Applying == \E p \in Clerk : pc[p] = "final"

Goto(p, step) == pc' = [pc EXCEPT ![p] = step]
Report(p, r) == result' = [result EXCEPT ![p] = r]

\* Mutation of End: a lease that outlives the process that took it.
EndKeepingLease(p, r) == Goto(p, "idle") /\ Report(p, r) /\ UNCHANGED lease

\* The apply is over; closing the lock file releases the lease.
End(p, r) == Goto(p, "idle") /\ Report(p, r) /\ lease' = (IF lease = p THEN Absent ELSE lease)
Refuse(p) == End(p, "refused") /\ UNCHANGED <<files, plan, loaded, bounds>>
Proceed(p, step) ==
    Goto(p, step) /\ UNCHANGED <<files, plan, lease, result, loaded, bounds>>

(***************************************************************************)
(* A clerk.                                                                *)
(***************************************************************************)

\* registry <operation> --output: a plan is computed and saved for review, the
\* first one or the next after an apply that gave an answer.
Preview(p) ==
    /\ pc[p] = "idle" /\ (plan[p] = NoPlan \/ result[p] \notin {"none", "uncertain"})
    /\ plans < MaxPlans /\ plans' = plans + 1
    /\ \E req \in Request(history) :
          /\ CanBuild(registry, req)
          /\ plan' = [plan EXCEPT ![p] = PlanFor(registry, req)]
    /\ Report(p, "none")
    /\ UNCHANGED <<files, pc, lease, loaded, edits, interrupts>>

\* registry apply, until the accepted plan is known to be in effect; the first
\* prepare() runs before there is a lease.
Admit(p) ==
    /\ pc[p] = "idle" /\ plan[p] # NoPlan /\ result[p] # "unchanged"
    /\ IF Prepare(p) = "stale" THEN Refuse(p) ELSE Proceed(p, "admitted")

\* Mutation of TakeLease: the lock file is opened but not locked.
OpenLease(p) ==
    /\ pc[p] = "admitted"
    /\ lease' = p
    /\ Goto(p, "leased")
    /\ UNCHANGED <<files, plan, result, loaded, bounds>>

\* registry_writer: flock without waiting.
TakeLease(p) ==
    /\ pc[p] = "admitted"
    /\ IF lease # Absent
       THEN Refuse(p)
       ELSE /\ lease' = p
            /\ Goto(p, "leased")
            /\ UNCHANGED <<files, plan, result, loaded, bounds>>

\* The second prepare(), under the lease.
Recheck(p) ==
    /\ pc[p] = "leased"
    /\ CASE Prepare(p) = "stale"     -> Refuse(p)
         [] Prepare(p) = "unchanged" ->
                End(p, "unchanged") /\ UNCHANGED <<files, plan, loaded, bounds>>
         [] Prepare(p) = "changes"   -> Proceed(p, "cleared")

\* replace_registry compares the file and calls verify_inputs.
Compare(p) ==
    /\ pc[p] = "cleared"
    /\ IF Rebuilds(p) THEN Proceed(p, "verified") ELSE Refuse(p)

HistoryFull(doc) ==
    /\ Cardinality(history \cup torn) >= MaxSnapshots
    /\ \/ Cardinality(history \cup torn) > MaxSnapshots
       \/ doc \notin history \cup torn

\* preserve_snapshot: own the history, then copy the present file into it.
Preserve(p) ==
    LET doc == plan[p].before IN
    /\ pc[p] = "verified"
    /\ CASE doc = Absent -> Proceed(p, "preserved")
         [] doc # Absent /\ marker = "absent" ->
                /\ marker' = "torn"
                /\ Goto(p, "marking")
                /\ UNCHANGED <<registry, history, torn, disk, pin,
                               plan, lease, result, loaded, bounds>>
         [] doc # Absent /\ marker = "torn" -> Refuse(p)
         [] doc # Absent /\ marker = "whole" ->
                CASE HistoryFull(doc) \/ doc \in torn -> Refuse(p)
                  [] ~ HistoryFull(doc) /\ doc \in history -> Proceed(p, "preserved")
                  [] ~ HistoryFull(doc) /\ doc \notin history \cup torn ->
                         /\ torn' = torn \cup {doc}
                         /\ Goto(p, "copying")
                         /\ UNCHANGED <<registry, history, marker, disk, pin,
                                        plan, lease, result, loaded, bounds>>

\* create_control has created the owner file; now it is written and synced.
WriteMarker(p) ==
    /\ pc[p] = "marking"
    /\ marker' = "whole"
    /\ Goto(p, "verified")
    /\ UNCHANGED <<registry, history, torn, disk, pin, plan, lease, result, loaded, bounds>>

\* The same for the snapshot.
WriteSnapshot(p) ==
    /\ pc[p] = "copying"
    /\ torn' = torn \ {plan[p].before}
    /\ history' = history \cup {plan[p].before}
    /\ Goto(p, "preserved")
    /\ UNCHANGED <<registry, marker, disk, pin, plan, lease, result, loaded, bounds>>

\* The new content is staged in a temporary file; verify_inputs once more.
Reverify(p) ==
    /\ pc[p] = "preserved"
    /\ IF Rebuilds(p) THEN Proceed(p, "staged") ELSE Refuse(p)

\* Mutation of Reread: the file is not compared again before the rename.
StageOnly(p) == pc[p] = "staged" /\ Proceed(p, "final")

\* The last comparison before the rename.
Reread(p) ==
    /\ pc[p] = "staged"
    /\ IF registry = plan[p].before
       THEN (Overlap \/ ~ Moving) /\ Proceed(p, "final")
       ELSE Refuse(p)

\* os.replace.
Replace(p) ==
    /\ pc[p] = "final"
    /\ registry' = plan[p].after
    /\ Goto(p, "published")
    /\ UNCHANGED <<history, torn, marker, disk, pin, plan, lease, result, loaded, bounds>>

\* The directory is synced and the lease released.
Publish(p) ==
    /\ pc[p] = "published"
    /\ End(p, "applied")
    /\ UNCHANGED <<files, plan, loaded, bounds>>

\* p is killed, or a file operation raises: what is written stays as it is.
Interrupt(p) ==
    /\ pc[p] \in InterruptAt \ {"idle"} /\ interrupts < MaxInterrupts
    /\ interrupts' = interrupts + 1
    /\ End(p, "uncertain")
    /\ UNCHANGED <<files, plan, loaded, plans, edits>>

ApplyStep(p) ==
    \/ TakeLease(p) \/ Recheck(p) \/ Compare(p)
    \/ Preserve(p) \/ WriteMarker(p) \/ WriteSnapshot(p)
    \/ Reverify(p) \/ Reread(p) \/ Replace(p) \/ Publish(p)

ClerkStep(p) == Preview(p) \/ Admit(p) \/ ApplyStep(p) \/ Interrupt(p)

(***************************************************************************)
(* A vault relocation, which does not take the registry lease.             *)
(***************************************************************************)
PlanMove(m) ==
    /\ pc[m] = "idle" /\ registry # Absent /\ registry.vault # Unbound
    /\ loaded' = [loaded EXCEPT ![m] = registry]
    /\ Goto(m, "planned")
    /\ UNCHANGED <<files, plan, lease, result, bounds>>

\* Mutation of VerifyMove: the bindings are not compared again.
VerifyNothing(m) ==
    /\ pc[m] = "planned"
    /\ Goto(m, "verified")
    /\ UNCHANGED <<files, plan, lease, result, loaded, bounds>>

\* Another relocation of the same vault folder has its lease (exclusive()).
VaultBusy(m) ==
    \E n \in Mover \ {m} : pc[n] = "verified" /\ loaded[n].vault = loaded[m].vault

\* VaultRecoveryPlan.verify for the last time, under the lease of the vault.
VerifyMove(m) ==
    /\ pc[m] = "planned"
    /\ IF registry = loaded[m] /\ ~ VaultBusy(m)
       THEN (Overlap \/ ~ Applying) /\ Goto(m, "verified") /\ UNCHANGED loaded
       ELSE Goto(m, "idle") /\ loaded' = [loaded EXCEPT ![m] = Absent]
    /\ UNCHANGED <<files, plan, lease, result, bounds>>

\* replace_bindings: the document that was read, with another vault folder.
ReplaceBindings(m) ==
    /\ pc[m] = "verified"
    /\ \E q \in Place \ {loaded[m].vault} :
          registry' = [loaded[m] EXCEPT !.vault = q]
    /\ Goto(m, "moved") /\ loaded' = [loaded EXCEPT ![m] = Absent]
    /\ UNCHANGED <<history, torn, marker, disk, pin, plan, lease, result, bounds>>

MoverStep(m) == PlanMove(m) \/ VerifyMove(m) \/ ReplaceBindings(m)

(***************************************************************************)
(* The owner.                                                              *)
(***************************************************************************)
\* The owner adds a session to revoked_sessions, in the file itself.
Revoke(s) ==
    /\ registry # Absent /\ s \notin registry.revoked
    /\ QuietOwner => ~ (Applying \/ Moving)
    /\ registry' = [registry EXCEPT !.revoked = registry.revoked \cup {s}]
    /\ UNCHANGED <<history, torn, marker, disk, pin, plan, pc, lease, result, loaded, bounds>>

\* A garden folder is edited, replaced or taken away.
EditGarden(r) ==
    /\ edits < MaxEdits /\ edits' = edits + 1
    /\ \E o \in (Manifest \cup {Missing}) \ {disk[r]} : disk' = [disk EXCEPT ![r] = o]
    /\ UNCHANGED <<registry, history, torn, marker, pin,
                   plan, pc, lease, result, loaded, plans, interrupts>>

\* mindgarden scope --registry-view: a session for the view as it is now.
MakeSession(s) ==
    /\ registry # Absent /\ pin[s] = NoView /\ s \notin registry.revoked
    /\ \E v \in Named(registry) :
          pin' = [pin EXCEPT ![s] = [view |-> v, selection |-> registry.views[v]]]
    /\ UNCHANGED <<registry, history, torn, marker, disk,
                   plan, pc, lease, result, loaded, bounds>>

OwnerStep ==
    \/ \E s \in Session : Revoke(s) \/ MakeSession(s)
    \/ \E r \in Root : EditGarden(r)

Next ==
    \/ \E p \in Clerk : ClerkStep(p)
    \/ \E m \in Mover : MoverStep(m)
    \/ OwnerStep

Spec == Init /\ [][Next]_vars

\* A process that runs keeps running, and the owner repeats an apply whose
\* outcome is not known; nobody must plan, edit or relocate anything.
FairSpec ==
    Spec /\ \A p \in Clerk : WF_vars(ApplyStep(p)) /\ WF_vars(Admit(p))

(***************************************************************************)
(* Properties.                                                             *)
(***************************************************************************)
Live(s) == registry # Absent /\ pin[s] # NoView /\ Authorized(registry, s, pin[s])

\* A session that has stopped being valid never becomes valid again
\* (docs/local-registry.md: restores advance view generations, rather than
\* reviving old named sessions).
NoRevival ==
    [][\A s \in Session : pin[s] # NoView /\ ~ Live(s) => ~ Live(s)']_vars

\* A revocation the owner made survives every apply (application/registry.py:
\* the union of revoked_sessions on restore, the digest checks for the rest).
RevocationsKept ==
    [][registry # Absent =>
          registry' # Absent /\ registry.revoked \subseteq registry'.revoked]_vars

\* No configuration is replaced that a complete snapshot does not keep: whatever
\* an apply overwrites can be restored (adapters/registry_files.py: preserve_snapshot
\* comes before os.replace).
NothingOverwrittenUnkept ==
    [][\A p \in Clerk : Replace(p) => registry \in history \cup {Absent}]_vars

\* Every change of the file is one whole operation on the file as it was.
Ledger == INSTANCE RegistryLedger WITH
    read <- {plan[p].before : p \in {q \in Clerk : plan[q] # NoPlan}}, kept <- history
RefinesLedger == Ledger!Spec

\* From every configuration, any garden can be unregistered, whatever views
\* select it and even when its folder is gone (docs/local-registry.md).
AlwaysUnregisterable ==
    registry # Absent /\ registry.managed =>
        \A g \in Garden : Buildable(registry, [op |-> "unregister", garden |-> g], disk)

\* Every snapshot can be restored over every later configuration when the
\* folders it binds hold their gardens: the merged epochs and revocations are
\* valid again.
SnapshotsRestorable ==
    \A snap \in history :
        AllHeld(snap, disk) =>
            Buildable(Document(registry), [op |-> "restore", snapshot |-> snap], disk)

\* An apply that is repeated comes to an end: the plan is in effect, or it is
\* stale because the registry or a garden has changed.
Settled(p) == result[p] \in {"applied", "unchanged"} \/ Prepare(p) = "stale"
PlanSettles == \A p \in Clerk : plan[p] # NoPlan ~> plan[p] # NoPlan /\ Settled(p)

=============================================================================

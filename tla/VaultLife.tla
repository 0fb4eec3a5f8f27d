------------------------------ MODULE VaultLife ------------------------------
(***************************************************************************)
(* A garden whose sources are kept in a vault, and everything that writes  *)
(* either of them: ingestion (application/ingestion.py, changes.py), and   *)
(* initializing, exporting, restoring and relocating the vault             *)
(* (application/storage.py, vault_recovery.py).  Each invocation is a      *)
(* process; it may be killed anywhere, and the kernel then releases its    *)
(* vault leases, but nobody its garden lock.  Planning reads everything in *)
(* one step: an apply plans again, and the reviewed digest must match.     *)
(***************************************************************************)
EXTENDS SourceVault, Ingestion

CONSTANTS
    Clerk,          \* processes that ingest
    Keeper,         \* processes that look after the vault
    Place,          \* directories a vault can be in
    Home,           \* the one that is bound at first
    MaxUpsets       \* how many kills, decays and edits of the bindings there are

ASSUME HomeIsAPlace == Home \in Place
ASSUME UpsetsBounded == MaxUpsets \in Nat

Proc == Clerk \cup Keeper
Free == "free"

ASSUME ProcessesAssumption == {Free, "left"} \cap Proc = {}

VARIABLES
    vault,      \* what is in each place
    lease,      \* who holds the kernel lock of each place
    bindings,   \* the bindings file: the place of the vault, and all the rest
    garden,     \* the records of the garden
    lock,       \* whose .mindgarden-write.lock is in the garden
    backup,     \* the backup file
    task,       \* the private state of each process
    upsets,     \* how many there have been
    decayed,    \* ghost: one of them was a decay
    strayed     \* ghost: contents of records that were selected after the bindings had
                \* moved, and that the vault bound by then did not hold

vars == <<vault, lease, bindings, garden, lock, backup, task, upsets, decayed, strayed>>
stores == <<vault, garden, backup>>

NoBackup == [there |-> FALSE, whole |-> FALSE, objects |-> {}]

\* files and todo belong to an ingestion, op, dest and bundle to a recovery; from and
\* before are the bindings and the garden that the plan was made for.
Idle == [pc |-> "idle", files |-> <<>>, todo |-> {}, op |-> "none", dest |-> Home,
         bundle |-> {}, from |-> [place |-> Home, rest |-> 0], before |-> <<>>]

Bound == bindings.place
Available(place) == Held(vault[place])

Init ==
    /\ vault = [p \in Place |-> IF p = Home THEN Restored({}) ELSE Nowhere]
    /\ lease = [p \in Place |-> Free]
    /\ bindings = [place |-> Home, rest |-> 0]
    /\ garden = <<>>
    /\ lock = Free
    /\ backup = NoBackup
    /\ task = [p \in Proc |-> Idle]
    /\ upsets = 0
    /\ decayed = FALSE
    /\ strayed = {}

Goto(p, pc) == task' = [task EXCEPT ![p].pc = pc]

\* The invocation ends, with success or with an error; what it held is released.
Return(p) ==
    /\ task' = [task EXCEPT ![p] = Idle]
    /\ lock' = IF lock = p THEN Free ELSE lock
    /\ lease' = [place \in Place |-> IF lease[place] = p THEN Free ELSE lease[place]]

Fail(p) == Return(p) /\ UNCHANGED <<stores, bindings>>

(***************************************************************************)
(* Ingestion.                                                              *)
(***************************************************************************)

\* build_ingestion_plan: the garden must be valid, with every content it names.
PlanIngestion(p, c) ==
    /\ task[p].pc = "idle"
    /\ Normalizes(c)
    /\ References(garden) \subseteq Available(Bound)
    /\ task' = [task EXCEPT ![p] = [Idle EXCEPT
                  !.pc = "lock", !.files = IngestedFiles(garden, c),
                  !.todo = IngestedBlobs(c), !.from = bindings, !.before = garden]]
    /\ UNCHANGED <<stores, lease, bindings, lock>>

LockGarden(p) ==
    /\ task[p].pc = "lock"
    /\ IF lock = Free
       THEN lock' = p /\ Goto(p, "verify") /\ UNCHANGED <<stores, lease, bindings>>
       ELSE Fail(p)

\* ChangePlan.verify: bindings, conflicts, and either all of it is there already or
\* the garden is as it was.
VerifyIngestion(p) ==
    /\ task[p].pc = "verify"
    /\ LET files == task[p].files
           there == DOMAIN files \cap DOMAIN garden
       IN  IF /\ bindings = task[p].from
              /\ \A i \in there : garden[i] = files[i]
              /\ there # DOMAIN files
              /\ garden = task[p].before
           THEN Goto(p, "put") /\ UNCHANGED <<stores, lease, lock, bindings>>
           ELSE Fail(p)

\* _put under the lease of the place: content that is there is only read.
PutBlob(p) ==
    /\ task[p].pc = "put"
    /\ \E b \in task[p].todo :
          LET place == task[p].from.place
          IN  IF lease[place] = Free /\ Usable(vault[place]) /\ vault[place].objects[b] # "bad"
              THEN IF b \in Available(place)
                   THEN /\ task' = [task EXCEPT ![p].todo = @ \ {b}]
                        /\ UNCHANGED <<stores, lease, lock, bindings>>
                   ELSE /\ lease' = [lease EXCEPT ![place] = p]
                        /\ vault' = [vault EXCEPT ![place] = Staged(@)]
                        /\ task' = [task EXCEPT ![p].pc = "link", ![p].bundle = {b}]
                        /\ UNCHANGED <<garden, backup, lock, bindings>>
              ELSE Fail(p)

LinkBlob(p) ==
    /\ task[p].pc = "link"
    /\ \E b \in task[p].bundle :
          vault' = [vault EXCEPT ![task[p].from.place] = Linked(@, b)]
    /\ Goto(p, "unlink")
    /\ UNCHANGED <<garden, backup, lease, lock, bindings>>

UnlinkStaged(p) ==
    /\ task[p].pc = "unlink"
    /\ vault' = [vault EXCEPT ![task[p].from.place] = Unstaged(@)]
    /\ lease' = [lease EXCEPT ![task[p].from.place] = Free]
    /\ task' = [task EXCEPT ![p].pc = "put", ![p].todo = @ \ task[p].bundle]
    /\ UNCHANGED <<garden, backup, lock, bindings>>

\* The staged garden must be valid: every content it names resolves.
ValidateStage(p) ==
    /\ task[p].pc = "put"
    /\ task[p].todo = {}
    /\ IF References(WithFiles(garden, task[p].files)) \subseteq Available(task[p].from.place)
       THEN Goto(p, "select") /\ UNCHANGED <<stores, lease, lock, bindings>>
       ELSE Fail(p)

\* The garden is as it was: the staged one takes its place.  (Its bindings are not
\* asked again.)
SelectGarden(p) ==
    /\ task[p].pc = "select"
    /\ garden' = IF garden = task[p].before THEN WithFiles(garden, task[p].files) ELSE garden
    /\ Return(p)
    /\ UNCHANGED <<vault, backup, bindings>>

(***************************************************************************)
(* Vault recovery.                                                         *)
(***************************************************************************)

\* run_vault init; the apply writes the manifest under the lease.
StartInit(p) ==
    /\ task[p].pc = "idle"
    /\ lease[Bound] = Free
    /\ Clean(vault[Bound])
    /\ lease' = [lease EXCEPT ![Bound] = p]
    /\ vault' = [vault EXCEPT ![Bound] = Begun(@)]
    /\ task' = [task EXCEPT ![p] = [Idle EXCEPT !.pc = "manifest", !.dest = Bound]]
    /\ UNCHANGED <<garden, backup, lock, bindings>>

WriteManifest(p) ==
    /\ task[p].pc = "manifest"
    /\ vault' = [vault EXCEPT ![task[p].dest] = Initialized(@)]
    /\ Return(p)
    /\ UNCHANGED <<garden, backup, bindings>>

\* build_vault_recovery_plan: no garden is being written, the bundle satisfies every
\* reference, and the destination is clean or holds the bundle.
PlanRecovery(p, op, dest) ==
    /\ task[p].pc = "idle"
    /\ lock = Free
    /\ LET bundle == IF op = "restore" THEN backup.objects ELSE Available(Bound)
       IN  /\ IF op = "restore" THEN Unpackable(backup)
              ELSE /\ lease[Bound] = Free
                   /\ Verified(vault[Bound], References(garden))
                   /\ Packable(bundle)
           /\ References(garden) \subseteq bundle
           /\ op # "export" => /\ Clean(vault[dest]) \/ lease[dest] = Free
                               /\ Receives(vault[dest], bundle)
           /\ task' = [task EXCEPT ![p] = [Idle EXCEPT
                         !.pc = IF op = "restore" THEN "revise" ELSE "begin", !.op = op,
                         !.dest = dest, !.bundle = bundle, !.from = bindings,
                         !.before = garden]]
    /\ UNCHANGED <<stores, lease, bindings, lock>>

Rebound(p) == [task[p].from EXCEPT !.place = task[p].dest]

\* (mutant of Unchanged: gardens that are being written are not noticed)
UnchangedRecords(p) == bindings = task[p].from /\ garden = task[p].before

\* VaultRecoveryPlan.verify: nothing that was planned for has changed.
Unchanged(p) ==
    /\ bindings = task[p].from
    /\ lock = Free
    /\ garden = task[p].before
    /\ task[p].op = "restore" => backup.whole /\ backup.objects = task[p].bundle

Moved(p) ==
    /\ task[p].op = "relocate"
    /\ bindings = Rebound(p)
    /\ lease[task[p].dest] = Free
    /\ Exportable(vault[task[p].dest]) /\ Available(task[p].dest) = task[p].bundle

\* The first verification of an apply; a relocation that is in effect is not repeated.
VerifyRecovery(p) ==
    /\ task[p].pc \in {"begin", "revise"}
    /\ IF Unchanged(p) /\ ~ Moved(p)
       THEN /\ Goto(p, IF task[p].pc = "begin" THEN "lease" ELSE "receive")
            /\ UNCHANGED <<stores, lease, lock, bindings>>
       ELSE Fail(p)

\* (mutant of LeaseSource: the lease is asked for but not kept)
LookAtSource(p) ==
    /\ task[p].pc = "lease"
    /\ LET place == task[p].from.place
       IN  IF /\ lease[place] = Free
              /\ Exportable(vault[place])
              /\ Available(place) = task[p].bundle
           THEN /\ Goto(p, IF task[p].op = "export" THEN "pack" ELSE "receive")
                /\ UNCHANGED <<stores, lease, lock, bindings>>
           ELSE Fail(p)

\* (mutant of LeaseSource: the inventory is not exported again)
TrustSource(p) ==
    /\ task[p].pc = "lease"
    /\ LET place == task[p].from.place
       IN  IF lease[place] = Free
           THEN /\ lease' = [lease EXCEPT ![place] = p]
                /\ Goto(p, IF task[p].op = "export" THEN "pack" ELSE "receive")
                /\ UNCHANGED <<stores, lock, bindings>>
           ELSE Fail(p)

\* Under the lease of the source its inventory is exported once more.
LeaseSource(p) ==
    /\ task[p].pc = "lease"
    /\ LET place == task[p].from.place
       IN  IF /\ lease[place] = Free
              /\ Exportable(vault[place])
              /\ Available(place) = task[p].bundle
           THEN /\ lease' = [lease EXCEPT ![place] = p]
                /\ Goto(p, IF task[p].op = "export" THEN "pack" ELSE "receive")
                /\ UNCHANGED <<stores, lock, bindings>>
           ELSE Fail(p)

\* An existing backup is never replaced; the bundle is written to a temporary.
PackBackup(p) ==
    /\ task[p].pc = "pack"
    /\ IF ~ backup.there /\ Unchanged(p)
       THEN Goto(p, "name") /\ UNCHANGED <<stores, lease, lock, bindings>>
       ELSE Fail(p)

\* os.link gives it its name, unless another operation was first.
NameBackup(p) ==
    /\ task[p].pc = "name"
    /\ backup' = IF backup.there THEN backup
                 ELSE [there |-> TRUE, whole |-> TRUE, objects |-> task[p].bundle]
    /\ Return(p)
    /\ UNCHANGED <<vault, garden, bindings>>

\* restore_bundle takes the lease of the destination and looks at it.
ReceiveBundle(p) ==
    /\ task[p].pc = "receive"
    /\ LET dest == task[p].dest
       IN  IF lease[dest] = Free /\ Receives(vault[dest], task[p].bundle)
           THEN IF Clean(vault[dest])
                THEN /\ lease' = [lease EXCEPT ![dest] = p]
                     /\ Goto(p, "place")
                     /\ UNCHANGED <<stores, lock, bindings>>
                ELSE IF task[p].op = "restore" THEN Fail(p)
                ELSE Goto(p, "reopen") /\ UNCHANGED <<stores, lease, lock, bindings>>
           ELSE Fail(p)

\* The staged vault, complete and verified, is renamed to the destination.
PlaceVault(p) ==
    /\ task[p].pc = "place"
    /\ LET dest == task[p].dest
       IN  /\ vault' = [vault EXCEPT ![dest] = Restored(task[p].bundle)]
           /\ IF task[p].op = "restore" THEN Return(p)
              ELSE /\ lease' = [lease EXCEPT ![dest] = Free]
                   /\ Goto(p, "reopen")
                   /\ UNCHANGED lock
    /\ UNCHANGED <<garden, backup, bindings>>

\* The target is opened again and the plan verified for the last time.
ReopenTarget(p) ==
    /\ task[p].pc = "reopen"
    /\ IF /\ lease[task[p].dest] = Free
          /\ Exportable(vault[task[p].dest])
          /\ Available(task[p].dest) = task[p].bundle
          /\ Unchanged(p)
       THEN Goto(p, "rebind") /\ UNCHANGED <<stores, lease, lock, bindings>>
       ELSE Fail(p)

\* replace_bindings writes the document that was loaded, with the new place.  (It does
\* not look whether a garden was locked since the last verification.)
RebindVault(p) ==
    /\ task[p].pc = "rebind"
    /\ bindings' = Rebound(p)
    /\ Return(p)
    /\ UNCHANGED stores

(***************************************************************************)
(* Kills, decay and the owner.                                             *)
(***************************************************************************)

\* The kernel releases the leases; a garden lock and litter stay.
Kill(p) ==
    /\ task[p].pc # "idle"
    /\ task' = [task EXCEPT ![p] = Idle]
    /\ lease' = [place \in Place |-> IF lease[place] = p THEN Free ELSE lease[place]]
    /\ lock' = IF lock = p THEN "left" ELSE lock
    /\ UNCHANGED <<stores, bindings, decayed>>

\* An object goes bad or missing, a whole place is lost, or the backup is damaged.
Decay ==
    /\ decayed' = TRUE
    /\ \/ \E place \in Place, found \in {"absent", "bad"} : \E b \in Available(place) :
             /\ vault' = [vault EXCEPT ![place].objects[b] = found]
             /\ UNCHANGED backup
       \/ \E place \in Place :
             /\ lease[place] = Free
             /\ vault[place].there
             /\ vault' = [vault EXCEPT ![place] = Nowhere]
             /\ UNCHANGED backup
       \/ backup.whole /\ backup' = [backup EXCEPT !.whole = FALSE] /\ UNCHANGED vault
    /\ UNCHANGED <<lease, bindings, garden, lock, task>>

\* The owner removes a lock that a killed ingestion left, or what a killed put or
\* init left, or edits another part of the bindings.
Tidy ==
    /\ \/ lock = "left" /\ lock' = Free /\ UNCHANGED vault
       \/ \E place \in Place :
             /\ lease[place] = Free
             /\ vault[place].litter \/ vault[place].manifest = "torn"
             /\ vault' = [vault EXCEPT ![place] =
                            IF @.manifest = "torn" THEN Nowhere ELSE Unstaged(@)]
             /\ UNCHANGED lock
    /\ UNCHANGED <<lease, bindings, garden, backup, task>>

EditBindings ==
    /\ bindings' = [bindings EXCEPT !.rest = 1]
    /\ bindings.rest = 0
    /\ UNCHANGED <<stores, lease, lock, task, decayed>>

ClerkStep(p) ==
    \/ \E c \in Capture : PlanIngestion(p, c)
    \/ LockGarden(p) \/ VerifyIngestion(p) \/ PutBlob(p) \/ LinkBlob(p)
    \/ UnlinkStaged(p) \/ ValidateStage(p) \/ SelectGarden(p)

KeeperStep(p) ==
    \/ StartInit(p) \/ WriteManifest(p)
    \/ \E op \in {"export", "restore", "relocate"}, dest \in Place : PlanRecovery(p, op, dest)
    \/ VerifyRecovery(p) \/ LeaseSource(p) \/ PackBackup(p) \/ NameBackup(p)
    \/ ReceiveBundle(p) \/ PlaceVault(p) \/ ReopenTarget(p) \/ RebindVault(p)

\* A selection by p, whose bindings may name another place than they did, and strays.
Strays(p) ==
    strayed' = strayed \cup IF garden' # garden /\ task[p].from.place # Bound
                             THEN References(garden') \ Available(Bound) ELSE {}

Next ==
    \/ (\E p \in Clerk : ClerkStep(p) /\ Strays(p)) /\ UNCHANGED <<upsets, decayed>>
    \/ (\E p \in Keeper : KeeperStep(p)) /\ UNCHANGED <<upsets, decayed, strayed>>
    \/ Tidy /\ UNCHANGED <<upsets, decayed, strayed>>
    \/ /\ upsets < MaxUpsets
       /\ upsets' = upsets + 1
       /\ (\E p \in Proc : Kill(p)) \/ Decay \/ EditBindings
       /\ UNCHANGED strayed

Spec == Init /\ [][Next]_vars

(***************************************************************************)
(* Properties.                                                             *)
(***************************************************************************)
\* As long as nothing has decayed, every content that a record names can be read from
\* the vault that the bindings name, whatever invocations overlap, but for one case: an
\* ingestion compares its bindings before it stores its objects, and not again
\* (changes.py:89), nor does a relocation look for gardens that are being written when
\* it rebinds (vault_recovery.py:149-150).  When the bindings move between the two, the
\* contents of the records selected then are still in some place, but not in that one.
ReferencesResolve ==
    ~ decayed =>
        /\ References(garden) \ strayed \subseteq Available(Bound)
        /\ \A b \in strayed : \E place \in Place : b \in Available(place)

\* A backup is whole when it gets its name, and satisfies every record of that moment,
\* even when objects decay meanwhile (vault_recovery.py: verify after packing).
BackupsCover ==
    [][~ backup.there /\ backup'.there =>
          backup'.whole /\ References(garden) \subseteq backup'.objects]_vars

\* When the bindings move to another place, everything the old one held is there, and
\* the old one is left as it was (vault_recovery.py: "retains_original").
MovesKeepContent ==
    [][Bound # bindings'.place /\ ~ decayed =>
          /\ Available(Bound) \subseteq Available(bindings'.place)
          /\ vault' = vault]_vars

\* Whatever was ingested before, a capture never meets a record of the same name and
\* other words: it adds its own events beside those of others, and repeating it adds
\* nothing (ingestion.py: observation).
CapturesNeverConflict ==
    \A c \in Capture : Normalizes(c) =>
        LET files == IngestedFiles(garden, c)
            again == IngestedFiles(WithFiles(garden, files), c)
        IN  /\ \A i \in DOMAIN files \cap DOMAIN garden : garden[i] = files[i]
            /\ DOMAIN again \subseteq DOMAIN WithFiles(garden, files)

=============================================================================

----------------------------- MODULE CacheStore -----------------------------
(***************************************************************************)
(* The projection cache of one session in one garden, and its quarantine.  *)
(*                                                                         *)
(* Writers are commands that write a projection (write_projection of       *)
(* application/retrieval.py): nothing keeps two of them, or one of them    *)
(* and a quarantine, apart.  A quarantine or a restore (apply_cache_plan   *)
(* of application/registry_cache.py) runs under the lease of the registry, *)
(* which the kernel takes from a process that dies: "run" is what its      *)
(* holder does, and a refused command is no step.                          *)
(*                                                                         *)
(* A directory is NoDir or has files, by name, and the inventory that its  *)
(* ownership manifest gives of them.  Temporary files are in it as well.   *)
(***************************************************************************)
EXTENDS Naturals, FiniteSets, Functions

CONSTANTS
    Writer,
    Name,           \* files of a projection
    Text,           \* what they may say
    Quarantine,     \* identities of requests for a quarantine
    Restore,        \* identities of requests for a restore
    MaxWrites,      \* projections written
    MaxUpsets       \* kills, failures and edits of the registry together

VARIABLES
    cache,          \* the directory of the session
    root,           \* the recovery directory: absent, bare (made, and not marked), owned
    receipt,        \* token -> state of its recovery
    payload,        \* token -> directory
    plan,           \* request -> the reviewed plan, or NoPlan
    run,            \* what the holder of the lease does, and for which request
    writing,        \* the private state of each writer
    registry,       \* the revision of the registry
    writes, upsets

cacheVars == <<cache, root, receipt, payload, plan, run, writing, registry, writes, upsets>>

NoDir == [missing |-> TRUE]
NoInventory == [n \in {<<"unowned", "none">>} |-> [none |-> TRUE]]
Empty == [files |-> <<>>, inventory |-> NoInventory]
NoPlan == [none |-> TRUE]
Free == [pc |-> "free", request |-> "none"]
Resting == [pc |-> "idle", name |-> "none", text |-> "none", inventory |-> NoInventory]

Request == Quarantine \cup Restore
Temporary(w) == <<"projection", w>>
OwnerTemporary(w) == <<"cache-owner", w>>

CacheInit ==
    /\ cache = NoDir
    /\ root = "absent"
    /\ receipt = <<>>
    /\ payload = <<>>
    /\ plan = [q \in Request |-> NoPlan]
    /\ run = Free
    /\ writing = [w \in Writer |-> Resting]
    /\ registry = 0
    /\ writes = 0
    /\ upsets = 0

\* verify_cache: there is none, or it is what its manifest says.
Unused(dir) == dir \in {NoDir, Empty}
Owned(dir) == dir # NoDir /\ dir.inventory # NoInventory /\ dir.files = dir.inventory

Exact(dir, inventory) == Owned(dir) /\ dir.inventory = inventory

Without(files, names) == Restrict(files, DOMAIN files \ names)
Put(files, name, content) ==
    [n \in DOMAIN files \cup {name} |-> IF n = name THEN content ELSE files[n]]

Upset == upsets < MaxUpsets /\ upsets' = upsets + 1

others == <<root, receipt, payload, plan, run, registry>>

(***************************************************************************)
(* write_projection                                                        *)
(***************************************************************************)
Goto(w, pc) == writing' = [writing EXCEPT ![w].pc = pc]
Stop(w) == writing' = [writing EXCEPT ![w] = Resting]

Begin(w) ==
    /\ writing[w].pc = "idle"
    /\ Unused(cache) \/ Owned(cache)
    /\ writes < MaxWrites /\ writes' = writes + 1
    /\ \E n \in Name, t \in Text :
          writing' = [writing EXCEPT ![w] =
              [pc |-> "verified", name |-> <<"file", n>>, text |-> [text |-> t],
               inventory |-> NoInventory]]
    /\ UNCHANGED <<others, cache, upsets>>

MakeDirectory(w) ==
    /\ writing[w].pc = "verified"
    /\ cache' = IF cache = NoDir THEN Empty ELSE cache
    /\ Goto(w, "made")
    /\ UNCHANGED <<others, writes, upsets>>

\* A directory that has been moved away meanwhile ends the command.
WriteTemporary(w) ==
    /\ writing[w].pc = "made"
    /\ IF cache = NoDir THEN Stop(w) /\ UNCHANGED cache
       ELSE /\ cache' = [cache EXCEPT !.files = Put(@, Temporary(w), writing[w].text)]
            /\ Goto(w, "written")
    /\ UNCHANGED <<others, writes, upsets>>

Holds(name) == cache # NoDir /\ name \in DOMAIN cache.files

Place(w) ==
    /\ writing[w].pc = "written"
    /\ IF ~Holds(Temporary(w)) THEN Stop(w) /\ UNCHANGED cache
       ELSE /\ cache' = [cache EXCEPT !.files =
                  Put(Without(@, {Temporary(w)}), writing[w].name, writing[w].text)]
            /\ Goto(w, "placed")
    /\ UNCHANGED <<others, writes, upsets>>

\* cache_manifest, and the temporary file that is to become the manifest.
TakeInventory(w) ==
    /\ writing[w].pc = "placed"
    /\ IF cache = NoDir THEN Stop(w) /\ UNCHANGED cache
       ELSE /\ writing' = [writing EXCEPT ![w].pc = "counted", ![w].inventory = cache.files]
            /\ cache' = [cache EXCEPT !.files =
                  Put(@, OwnerTemporary(w), [inventory |-> cache.files])]
    /\ UNCHANGED <<others, writes, upsets>>

Commit(w) ==
    /\ writing[w].pc = "counted"
    /\ cache' = IF ~Holds(OwnerTemporary(w)) THEN cache
                ELSE [files |-> Without(cache.files, {OwnerTemporary(w)}),
                      inventory |-> writing[w].inventory]
    /\ Stop(w)
    /\ UNCHANGED <<others, writes, upsets>>

\* Authority ends, or a file cannot be replaced: temporary files are removed.
Abandon(w) ==
    /\ writing[w].pc \in {"written", "counted"}
    /\ cache' = IF cache = NoDir THEN cache
                ELSE [cache EXCEPT !.files = Without(@, {Temporary(w), OwnerTemporary(w)})]
    /\ Stop(w)
    /\ Upset
    /\ UNCHANGED <<others, writes>>

KillWriter(w) ==
    /\ writing[w].pc # "idle"
    /\ Stop(w)
    /\ Upset
    /\ UNCHANGED <<others, cache, writes>>

(***************************************************************************)
(* build_cache_plan                                                        *)
(***************************************************************************)
Receipt(t) == IF t \in DOMAIN receipt THEN receipt[t] ELSE "none"
Payload(t) == IF t \in DOMAIN payload THEN payload[t] ELSE NoDir

\* The token of a recovery is the digest of the request and the manifest.
Token(q, inventory) == <<q, inventory>>
InventoryOf(t) == t[2]

Source(q) == IF q \in Quarantine THEN cache ELSE Payload(plan[q].token)
Destination(q) == IF q \in Quarantine THEN Payload(plan[q].token) ELSE cache
Observed(q) == IF Source(q) # NoDir THEN Source(q) ELSE Destination(q)

ReviewedMove(t) == [token |-> t, registry |-> registry]

PlanQuarantine(q) ==
    /\ plan[q] = NoPlan
    /\ Owned(cache)
    /\ plan' = [plan EXCEPT ![q] = ReviewedMove(Token(q, cache.inventory))]
    /\ UNCHANGED <<cache, root, receipt, payload, run, writing, registry, writes, upsets>>

PlanRestore(q) ==
    /\ plan[q] = NoPlan
    /\ root = "owned"
    /\ \E t \in DOMAIN receipt :
          /\ Exact(IF Payload(t) # NoDir THEN Payload(t) ELSE cache, InventoryOf(t))
          /\ plan' = [plan EXCEPT ![q] = ReviewedMove(t)]
    /\ UNCHANGED <<cache, root, receipt, payload, run, writing, registry, writes, upsets>>

(***************************************************************************)
(* apply_cache_plan, which may be repeated                                 *)
(***************************************************************************)
untouched == <<plan, writing, registry, writes, upsets>>

Advance(pc) == run' = [run EXCEPT !.pc = pc]
Release == run' = Free
Recovery == plan[run.request].token
Quarantining == run.request \in Quarantine

Start(q) ==
    /\ run = Free
    /\ plan[q] # NoPlan
    /\ plan[q].registry = registry
    /\ run' = [pc |-> "leased", request |-> q]
    /\ UNCHANGED <<cache, root, receipt, payload, untouched>>

\* check_recovery_root
OpenRoot ==
    /\ run.pc = "leased"
    /\ CASE root = "owned" -> Advance("rooted") /\ UNCHANGED root
         [] root = "absent" /\ Quarantining -> root' = "bare" /\ Advance("rooting")
         [] OTHER -> Release /\ UNCHANGED root
    /\ UNCHANGED <<cache, receipt, payload, untouched>>

MarkRoot ==
    /\ run.pc = "rooting"
    /\ root' = "owned"
    /\ Advance("rooted")
    /\ UNCHANGED <<cache, receipt, payload, untouched>>

Final == IF Quarantining THEN "quarantined" ELSE "restored"
Prepared == IF Quarantining THEN "prepared-quarantine" ELSE "prepared-restore"

Write(state) == receipt' = Put(receipt, Recovery, state)

\* (mutant of Fits: what has been moved already is not recognised)
FitsUnmoved ==
    /\ Destination(run.request) = NoDir
    /\ Exact(Source(run.request), InventoryOf(Recovery))

\* A plan for which the directories and the receipt are as they were left.
Fits ==
    /\ ~(Source(run.request) # NoDir /\ Destination(run.request) # NoDir)
    /\ Exact(Observed(run.request), InventoryOf(Recovery))
    /\ Destination(run.request) # NoDir => Receipt(Recovery) # "none"

\* (mutant of Applicable: a quarantine does not look at what became of it)
Repeatable == Fits

Applicable ==
    /\ Fits
    /\ ~(Quarantining /\ Receipt(Recovery) \in {"prepared-restore", "restored"})

Prepare ==
    /\ run.pc = "rooted"
    /\ CASE ~Applicable -> Release /\ UNCHANGED receipt
         [] Applicable /\ Destination(run.request) # NoDir -> Write(Final) /\ Release
         [] OTHER -> Write(Prepared) /\ Advance("prepared")
    /\ UNCHANGED <<cache, root, payload, untouched>>

\* os.replace of a directory: over nothing, or over an empty one.
Move ==
    /\ run.pc = "prepared"
    /\ IF Unused(Destination(run.request)) /\ Source(run.request) # NoDir
       THEN /\ cache' = IF Quarantining THEN NoDir ELSE Source(run.request)
            /\ payload' = Put(payload, Recovery, IF Quarantining THEN cache ELSE NoDir)
            /\ Advance("moved")
       ELSE Release /\ UNCHANGED <<cache, payload>>
    /\ UNCHANGED <<root, receipt, untouched>>

\* (mutant of Verify: what has been moved is not verified again)
VerifyNothing ==
    /\ run.pc = "moved"
    /\ Advance("verified")
    /\ UNCHANGED <<cache, root, receipt, payload, untouched>>

Verify ==
    /\ run.pc = "moved"
    /\ IF Exact(Destination(run.request), InventoryOf(Recovery)) THEN Advance("verified")
       ELSE Release
    /\ UNCHANGED <<cache, root, receipt, payload, untouched>>

Finish ==
    /\ run.pc = "verified"
    /\ Write(Final)
    /\ Release
    /\ UNCHANGED <<cache, root, payload, untouched>>

\* It is killed, or a receipt or a rename fails.
Interrupt ==
    /\ run # Free
    /\ Release
    /\ Upset
    /\ UNCHANGED <<cache, root, receipt, payload, plan, writing, registry, writes>>

EditRegistry ==
    /\ registry' = registry + 1
    /\ Upset
    /\ UNCHANGED <<cache, root, receipt, payload, plan, run, writing, writes>>

Apply == OpenRoot \/ MarkRoot \/ Prepare \/ Move \/ Verify \/ Finish

Project(w) ==
    \/ Begin(w) \/ MakeDirectory(w) \/ WriteTemporary(w) \/ Place(w)
    \/ TakeInventory(w) \/ Commit(w)

CacheNext ==
    \/ \E w \in Writer : Project(w) \/ Abandon(w) \/ KillWriter(w)
    \/ \E q \in Quarantine : PlanQuarantine(q)
    \/ \E q \in Restore : PlanRestore(q)
    \/ \E q \in Request : Start(q)
    \/ Apply
    \/ Interrupt
    \/ EditRegistry

\* The owner repeats a plan whose outcome is not known.
FairSpec ==
    /\ CacheInit /\ [][CacheNext]_cacheVars
    /\ WF_cacheVars(Apply)
    /\ \A q \in Request : SF_cacheVars(Start(q))

(***************************************************************************)
(* Properties                                                              *)
(***************************************************************************)
\* What a receipt calls quarantined is, until a restore begins, the reviewed
\* cache to the last member, although sessions write to the directory while it
\* is being moved and commands are killed (docs/local-registry.md: quarantine
\* moves the complete verified cache and deletes nothing).
QuarantineHoldsReviewed ==
    \A t \in DOMAIN receipt :
        receipt[t] = "quarantined" => Exact(Payload(t), InventoryOf(t))

\* Once a restore has begun, no repetition of an older plan takes the cache
\* away again.
RestoreStands ==
    [][\A t \in DOMAIN receipt :
          receipt[t] \in {"prepared-restore", "restored"} =>
              /\ receipt'[t] \in {"prepared-restore", "restored"}
              /\ Payload(t) = NoDir => Payload(t)' = NoDir]_cacheVars

\* A plan that has begun, and that nobody has made impossible.
Unsettled(q) ==
    /\ plan[q] # NoPlan
    /\ Receipt(plan[q].token) = IF q \in Quarantine THEN "prepared-quarantine" ELSE "prepared-restore"

Spoiled(q) ==
    \/ plan[q].registry # registry
    \/ Source(q) # NoDir /\ Destination(q) # NoDir
    \/ ~Exact(Observed(q), InventoryOf(plan[q].token))

\* An interrupted plan is reconciled by repeating it, unless the registry, or
\* the cache by a session, has been changed since.
RepeatReconciles ==
    \A q \in Request : Unsettled(q) ~> (~Unsettled(q) \/ Spoiled(q))

=============================================================================

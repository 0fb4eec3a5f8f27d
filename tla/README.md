# Verification of mindgarden

This directory holds TLA+ modules, TLC configurations and TLAPS proofs for
mindgarden, a local-first tool that keeps a person's notes in *gardens* (a
`.garden` directory each), their sources in a content-addressed *vault*, and a
private file that binds the two and names views and sessions (the *registry*).
Paths below are relative to the repository; `A/`, `AD/` and `D/` stand for
`application/`, `adapters/` and `domain/` under `src/mindgarden/`.

To check a run: `tlc -config <run>.cfg <module>`; to check proofs:
`tlapm <module>_proofs.tla`. `PROJECT.json` lists every run with its module, its
properties and, for every definition that models code, the lines it models.

1. Inventory &nbsp; 2. Modules &nbsp; 3. Runs &nbsp; 4. What the code does not guard against
&nbsp; 5. Proofs &nbsp; 6. Not modelled, and the plan

## 1. Inventory

| Component | State it keeps | Operations | Hard behaviours | What makes it correct | Modelled in |
|---|---|---|---|---|---|
| Single-garden change plans, `A/changes.py` | `.garden`, `.mindgarden-write.lock`, stage and backup beside it, blobs in the vault | `ChangePlan.verify`, `apply` | racing writers, kill between two renames, failing rename | one writer per garden; a reported change is never lost; blobs before records; no residue | `ChangeApply` |
| Multi-garden transactions, `A/transactions.py` | the same for every target, and a journal per plan digest | `apply_group`, `recover_routing` | kills and failures anywhere, recovery of recovery, stale ownership | all targets or none; the last original is never removed; an unfinished journal stays recoverable; recovery converges | `GroupApply` |
| Routing, `A/routing.py`, `A/routing_lifecycle.py`, `D/routing_transitions.py` | records, references and receipts in gardens | `build_routing_plan`, `build_transition_plan`, `RoutingPlan.apply` | plans on stale revisions; gardens that are only read change; moves of what was moved; a second catalog | each unit has one home that everything leads to; public gardens name nothing private | `Routing`, `Routers` |
| Local bindings, `A/bindings.py` | the bindings file, garden fingerprints | `load`, `garden_fingerprint` | reading while a transaction is open | refuses an interrupted garden | in the writers and the registry |
| Registry, `A/registry.py`, `AD/registry_files.py`, `D/registry.py`, `A/sessions.py` | registry file, snapshots, writer lease | init, register, unregister, set/remove view, restore, bind and verify a session | hand edits, lost lease, uncertain commit, generations used again | generations only grow, an old session never becomes valid again, a snapshot precedes every replacement | `Registry*` |
| Source vault, `AD/filesystem.py`, `AD/vault_bundle.py`, `A/storage.py` | objects by digest, manifest, lease | init, put, get, audit | concurrent writers, interrupted put | a name implies complete content | `SourceVault` |
| Vault recovery, `A/vault_recovery.py` | vault, backup bundles, bindings | verify, export, restore, relocate | races with ingestion and with the registry | the bindings name a vault that has every object a record needs | `VaultLife` |
| Ingestion, `A/ingestion.py`, `D/sources.py` | objects, source and provenance records | ingest | the same bytes again, under other words or another adapter | repeated captures never conflict | `Ingestion` |
| Lifecycle, `A/lifecycle.py`, `D/validation.py` | `.garden`, staged and retired trees | init, migrate, validate | a kill between the renames, failing rollback, edits meanwhile | the original survives; every relation is carried over | `Migration`, `Lifecycle` |
| Garden documents, `D/garden.py`, `A/records.py` | records and bodies | `inspect_garden` | – | revisions, identities, edges, no cycles | `GardenRecords` |
| Curation, `A/curation.py` | notes, claims, synapses, receipts | `run_gardenize`, `apply_curation` | several curators; restrictions change between plan and apply | derived notes lose no restriction and no caveat | `Curation`, `Curators` |
| Scope policy, `D/scope.py`, `D/scope_policy.py` | none | join, decide | – | a join; an output goes only where its restrictions are carried | `ScopePolicy` |
| Query and retrieval, `A/query.py`, `A/query_view.py`, `A/retrieval.py`, `A/evidence.py` | none | view, index, search, graph, context, write a projection | reads while writers rename and roll back; authority ends meanwhile | only what is authorized with all its evidence, complete, within budgets | `QueryView`, `Retrieval`, `ScopedQuery` |
| Caches, `A/registry_cache.py`, `A/retrieval.py` | derived files, quarantine receipts | write, quarantine, restore | kills between rename and receipt, sessions that write meanwhile | receipts are true; a restore stands; repeating reconciles | `CacheStore` |
| Public outputs, `AD/site_files.py`, `AD/federation_files.py`, `A/portal.py` | sites, bundles, mounts, a receipt | publish, mount, verify | kills and failing writes, foreign files | a manifest implies completeness; foreign files stay | `PublicOutputs` |
| Rendering, decoding, packages, compaction, contracts | none | conversions | – | – | section 6 |

The components meet in the file system. A command-line invocation is one
process; processes share the `.garden` trees, lock files, journals, the vault
and the bindings file, and nothing else. Change plans and routing plans take the
same lock file; a journal records the digest of the bindings file, which the
registry and a vault relocation rewrite; records in a garden refer to objects in
the vault, which ingestion stores and a relocation copies; a query reads the
trees that writers rename and pins the revisions it was authorized for; curation
and routing read scopes that the bindings give, and what they write is what a
query shows and a site publishes.

The hazards that follow from this are listed in `PROJECT.json`, each at its line,
with the properties that would catch it going wrong.

## 2. Modules

    GardenStore              files, invocations, journal documents
      ChangeApply            ChangePlan.apply, one action per file operation
      GroupApply             apply_group and recover_routing, likewise
        GardenWriters        all of them together, kills, failures, owner
    AtomicPublication        what the garden writers promise (refinement)

    Registry                 the document, its operations, plans, sessions
      RegistryLedger         what the registry promises (refinement)
      RegistryWriters        previews, applies, relocations, the owner

    SourceVault, Ingestion   objects and leases; captures and records
      VaultLife              ingestion beside init, export, restore, relocation

    ScopePolicy              the join of scopes and the decision on outputs
      QueryView              what a session may see
        Retrieval            what is answered from it
          ScopedQuery        a query among writers and withdrawals
      GardenRecords          what makes a v1 garden valid
        Migration            v0 garden -> v1 records
          Lifecycle          init and migrate, killed and rolled back
        Curation             what a proposal makes of a garden
          Curators           several curators and the owner
      Routing                where a note goes, how it moves and merges
        Routers              several route invocations and the owner

    CacheStore               a session's projections and their quarantine
    PublicOutputs            a site or bundle, and the portal that mounts it

Each `MC…` module holds the small instance of one of these. Modules named
`…_proofs` hold theorems (section 5).

**GardenStore.** A tree is the set of plans whose files it has, plus `Seed` for
what was there at first and an element of `Edit` for a change by hand; `{}` is a
missing directory. That is as much of the content as fingerprints, `verify` and
recovery tell apart. `canonical`, `lock`, `stage` and `backup` are the
directory entries beside each garden (a lock is `Free`, `Blank` between its
creation and its content, or a digest), `journal` the file of each routing
digest, `vault` the plans whose blobs are stored, `bindings` the version of the
bindings file. `pc`, `todo`, `held`, `mem`, `ctx` and `ret` are the private
state of one invocation: its program counter, the gardens left in its loop, its
list of locks, its journal document, the caller of `recover_routing`, and what
it returned. Names of stages and backups are random in the code and so belong to
the invocation that made them; the journal remembers which one (`by`).

**ChangeApply** and **GroupApply** have one action per file operation, in the
order of the code, with the code's early returns and `except` and `finally`
clauses. The names follow the code: `RouteRetire` is `os.replace(.garden,
backup)`, `RouteSelect` is `os.replace(stage, .garden)`, `RollbackPark` and
`RollbackPutback` the two renames of the rollback, `CleanStage`, `CleanBackup`,
`CleanLock`, `RecoverEnd` the cleanup. A recursive removal may stop half-way
(`TearBackup`). `recover_routing` verifies all targets in one step
(`RecoverCheck`). `run_route --recover` is `RecoverBegin`.

**GardenWriters** interleaves all invocations (`Work`), kills one anywhere
(`Crash`; a killed recovery may be started again), makes the next file operation
raise (`Fault`, continuing at the handler the code has at that place, and
`LockFault` for a lock that is created but not written), lets the owner edit a
tree in place (`OwnerEdit`) and replaces the bindings file (`Rebind`). A plan's
digest, targets and base revisions are constants here; what plans contain is
the subject of `Curation` and `Routing`.

**AtomicPublication** is the abstract specification: a plan appears in all its
targets in one step, on the revisions it was reviewed for. `GardenWriters`
implements it under the mapping `Published`: gardens of an unfinished journal
count as what they were before, the others as what is in place.

**Registry.** A document has the fields that the operations of
`build_registry_plan` read or write. `After` is the document an operation
produces, one operator per operation (`Adopted` for init, `Registered`,
`Unregistered`, `ViewSet`, `ViewRemoved`, `Restored`); `Buildable` the conditions
under which a plan can be built, `Valid` being `validate_registry` with
`check_overlaps`. `Authorized` is `verify_session_view`. Documents are values and
stand for their digests. Left out because they only refuse: owners, scopes and
contract versions that `inspect_root` compares, and the size limit of control
files. Folders are disjoint or equal. A bindings file written by hand is within
the budget of gardens, because `state` refuses any other.

**RegistryWriters.** A *clerk* is a person at a terminal with a plan. `Preview`
is `registry ... --output`; it reads the file and computes the plan in one step.
The apply follows the code, one action per check or file operation:

| Action | Code |
|---|---|
| `Admit` | first `prepare` of `apply_registry_plan`, before the lease |
| `TakeLease` | `registry_writer`, a kernel lock that is not waited for |
| `Recheck` | second `prepare`, under the lease |
| `Compare` | the comparison and `verify_inputs` at the start of `replace_registry` |
| `Preserve`, `WriteMarker`, `WriteSnapshot` | `preserve_snapshot`, `create_control`: a file is created, then written |
| `Reverify`, `Reread` | `verify_inputs` and the comparison after staging |
| `Replace`, `Publish` | `os.replace`; sync and release |
| `Interrupt` | the process dies or a file operation raises; what is written stays |

`Prepare` distinguishes a plan that is stale, in effect already, or to be
applied. The temporary file of the staged content has a random name and is never
read again, so it is no state. A *mover* is a vault relocation as the registry
sees it: it reads the bindings (`PlanMove`), verifies its plan for the last time
under the lease of the vault folder (`VerifyMove`, `VaultBusy`) and writes the
document it read with another vault (`ReplaceBindings`), without the lease of the
registry. The owner revokes sessions in the file itself (`Revoke`), edits gardens
(`EditGarden`) and makes sessions for views (`MakeSession`).

**RegistryLedger** is the abstract specification: one document, changed by whole
operations on what it is at that moment, after that has been kept.
`RegistryWriters` implements it with the plans' documents as `read` and the
complete snapshots as `kept`.

**SourceVault, Ingestion, VaultLife.** A vault is its manifest, what is found
under each digest and whether a temporary file was left in it; a backup is the
set of objects it holds. A garden's records are known by their identities:
captured source, normalized text, provenance; what an adapter makes of bytes is
a parameter (`Accepts`, `Units`). `VaultLife` composes them: ingestion puts the
objects one by one under the vault's shared lease and then selects the records
under the garden lock; a keeper initializes, exports, restores and relocates
under the exclusive lease. Any of them may be killed (`Kill`: the kernel frees
the leases, nobody the garden lock), an object may decay (`Decay`), the owner may
bind another vault (`EditBindings`) or remove what a kill left (`Tidy`). Planning
is one step: an apply plans again and compares digests. Nothing is kept apart here
that the leases and the garden lock do not keep apart; `strayed` remembers what was
selected after the bindings had moved (section 4).

**ScopePolicy, QueryView, Retrieval, ScopedQuery.** The three ordered requirements
of a scope are levels as in the code's tables; `Inherit` is the join, `Decide`
the decision on an output. `QueryView` is `metadata_view`: permitted records,
denial along dependencies (`Standing`), effective scopes as a fixpoint
(`Effective`), the window of candidates, carried synapses and asset reviews, and
the revision that a session pins. `Retrieval` has the index, ranking, traversal
and the bounded context pack with its ledger of exclusions. `ScopedQuery` reads
garden by garden: metadata of each, comparison with the pinned view, bodies of
each, then authority and every garden again; the answer is a function of what was
found at each of these times. The writer beside it is a group apply reduced to
what a reader sees (locks, trees that go away, come back and are rolled back).
What a session promises is defined without the algorithm (`MayBeShown`: the
record and everything it leads to are permitted).

**GardenRecords, Migration, Lifecycle.** `GardenRecords` has the cross-record
rules of `inspect_garden`. `Migration` turns any v0 garden into records, or
refuses it with the reasons the code has. `Lifecycle` runs init and migrate
through staging, validation, a last comparison and the two renames, with a kill
at any place, a rename that fails (and its rollback), and an owner who edits, rolls
back or retires what is left: between commands in the run, and while one is at work
too with `Gaps` (section 4).

**Curation, Curators.** `Curation` builds the plan of every action of a proposal
(keep, merge, supersede, conflict, defer, exclude): evidence at exact revisions,
scopes as a join, marks that qualify a note (attribution, caveats,
contradictions), identities and lineage. `Curators` lets several curators plan,
review and apply, planning twice as the code does and reading the garden before
its revision is taken, while the owner reclassifies a source, notes a caveat or
changes the bindings.

**Routing, Routers.** `Routing` is the planning of a request under a catalog (the
only preferred garden that accepts a candidate, else the private fallback),
of references and receipts, and of moves and merges; `Routers` lets several
invocations plan and later apply, with the comparison of targets and of the
gardens that were only read. Selecting a group is one step here; `GroupApply` has
the steps and `AtomicPublication` says what they amount to.

**CacheStore.** The files of a session's projection, the inventory that its
ownership manifest gives, temporary files, and the receipts. Writers are not
serialized by the code and are not here. A quarantine or restore runs under the
registry's lease, step by step from receipt to rename to receipt (`Apply`); it
may be interrupted anywhere and repeated (`Start`).

**PublicOutputs.** A directory is a function from names to what the file holds
(a revision, nothing, a part of it, or something of the owner). Publishing a site
or a bundle and mounting a copy of a site are followed file by file, with the
cleanup that a failure starts.

## 3. Runs

| Run | Who acts, and what disturbs them | What it shows |
|---|---|---|
| `writers_serial` | two routing plans, the second made for what the first produces, a change plan, recovery of both; one at a time; 2 kills, 1 failing operation, 1 edit by the owner | `OriginalsSurvive`: each tree that an unfinished journal would restore is still there, whole. `UnfinishedIsRecoverable`: recovery accepts whatever an interruption left. `BlobsBeforeRecords`. `Settles`: an interrupted plan is in the end rolled back or committed |
| `writers_mixed` | a routing plan and a change plan of one of its gardens at once; 1 kill, 1 failing operation, a new bindings file | `SingleWriter`; `AppliedIsDurable`: what was reported as applied stays; `NothingLeftBehind` after undisturbed runs; `AbstractSpec`: what is published changes by whole plans |
| `lock_released_twice` | one routing plan, two change plans at once | a counterexample to `SingleWriter`, see section 4 |
| `registry_applies` | two clerks with two plans; an interruption after the rename, a changed garden, revocations | `AlwaysUnregisterable`; `RefinesLedger`: each change is a whole operation on the file as it was, after that was kept; `PlanSettles`: repeating a plan ends with it in effect or stale |
| `registry_history` | one clerk with four plans, a relocation; the history at its limit, an interruption while its owner file is written | `NothingOverwrittenUnkept`: a snapshot precedes every rename, full history or not; `NoRevival` of sessions, `RevocationsKept`, `SnapshotsRestorable` |
| `scoped_queries` | a query of two gardens beside a group apply that may fail and roll back, and an owner who withdraws the session | the answer is authorized with all its evidence, complete (but for a roll-back and the rewriting of hidden links, see section 4), permitted at the last check, unaffected by what is denied, as restricted as its inputs, within its budgets (one property each) |
| `vault_moves` | ingestion of a file under two remarks and adapters beside init, export, restore and relocation; one kill, decay or edit | `ReferencesResolve`: what a record names can be read from the bound vault, unless it was selected after the bindings moved (section 4); `BackupsCover`; `MovesKeepContent`; `CapturesNeverConflict` |
| `garden_lifecycle` | two operators who init and migrate any v0 garden of two notes; one kill, failing rename, edit, rollback or retirement | `OriginalKept`; `RelationsKept`: no edge is lost or becomes more visible, and no locator is lost of a note that is not a source (section 4); `RefusalsAreKnown`; `ReportsAreTrue` |
| `garden_curation` | two curators with three proposals; two steps of the owner | `AppliedFitsGarden`: what is selected is what the proposal means for the garden and bindings of that moment; `LineageBinds`, `QualificationsKept`: derived notes lose no restriction, author, caveat or contradiction |
| `cache_recovery` | two commands that write projections, two quarantines, a restore; one kill, failure or edit | `QuarantineHoldsReviewed`: receipts are true; `RestoreStands`; `RepeatReconciles` |
| `public_outputs` | publication of two pages in two revisions and a portal; 2 kills or failing writes, 3 steps of the owner | `ManifestMeansComplete`, `CallersFilesKept`, `ReceiptNamesComplete` |
| `routing_homes` | two invocations that route, move and merge between two personal gardens and a public one; two catalogs, a garden bound later | `OneHome`: whatever names a home of a unit leads to the same live note; `PublicNamesPublic`: a public garden names no private garden or request |

**Bounds.** Two gardens are enough for a group to be half selected, for a lock
to be held on one and not the other, for the two directions in which the loops
run to differ, and for a view to span gardens; two routing plans, one on top of
the other, let a rollback meet a later change. Two kills let an apply and its
recovery both be interrupted. Four registry plans are the fewest in which a view
is made, a session made for it, the view removed, and a snapshot restored that
has it; `MaxViewEpochs` is 1 and `MaxSnapshots` 3 in that run, so that both limits are
met; the two plans of `registry_applies` have a history that suffices. The gardens of the query have a chain note, claim, source, provenance, a
synapse across gardens, an archived and a denied record, and budgets that some
of them exceed. The vault has one blob more than a bundle may hold. The v0
gardens are all those of two notes with two kinds, two visibilities and every
relation between them, where the first note may name sources that exist, do not,
or are outside the garden. Of the three proposals
of curation one is made of what another made, and two want one identity; two steps of
the owner are enough for a change between reading and pinning in both plannings.
In the caches two quarantines and one restore are the fewest with
which a repetition could undo something newer. Curators and routers are
interchangeable, hence the symmetry sets.

**Deadlock** is off in every run: each invocation ends, and then nothing is left
to do.

**Fairness.** A started process goes on running (weak fairness of `Work`,
`ApplyStep`, `Apply`), and the owner repeats what the program or the documents
ask to repeat: recovery while a journal exists (every other command answers
`RECOVERY_REQUIRED`), an accepted registry plan (`Admit`), a cache plan
(`Start`). Strong fairness is needed for recoveries because those of two plans
refuse each other's locks in turn, and for cache plans because the lease is free
again and again but not always. Kills, failures and edits are bounded; nobody has
to plan, edit, revoke or relocate.

## 4. What the code does not guard against

`lock_released_twice` is a violation: `recover_routing` unlinks every lock when
it commits (`A/transactions.py:88`), and the `finally` clause of `apply_group`
unlinks the same paths again (`:160`). A change plan that created its lock in
between loses it while it writes, and a third invocation enters its garden.

Constants name other places where nothing in the code prevents an outcome that a
property excludes. The runs keep these cases out and check everything else; a
copy of the run's configuration with the constant set lets the case happen.

| Constant | What it lets in |
|---|---|
| `LiveEdits` (GardenWriters) | The owner edits a tree after `recover_routing` has verified it and before it is renamed: the edit is parked in a stage and removed with it. |
| `Overlap` (RegistryWriters) | A relocation writes back the bindings it read without the registry's lease (`A/vault_recovery.py:150`), so that together with an apply the file returns to an older state. |
| `QuietOwner` (RegistryWriters) | An edit between the last comparison and `os.replace` (`AD/registry_files.py:218`–`221`) is overwritten and in no snapshot. Edits made before the comparison are safe. |
| `InterruptAt` (RegistryWriters) | An interruption between the creation of a snapshot, or of the history's owner file, and its content leaves a file that every repetition refuses. `registry_history` has the second; `PlanSettles` is checked without. |
| `Gaps`: `init` (Lifecycle) | Between the two renames of a migration, or after a kill there, init finds no `.garden` and creates one beside `.garden.v0` (`A/lifecycle.py:994`), and the migration can no longer be selected. `docs/initialization-migration.md:125`–`129` says that both operations refuse existing rollback paths. |
| `Gaps`: `edit` (Lifecycle) | An edit between the second planning and the cutover is in `.garden.v0` and not in the report. |
| `Gaps`: `rollback` (Lifecycle) | The owner rolls back, or retires `.garden.v0`, while a command is past its second planning. When two operators migrate and the first one's `.garden.v0` is retired, the second moves the new v1 garden there in place of the v0 garden it has planned for, selects its own stage and reports it as applied (`A/lifecycle.py:1026`–`1028` look at the directories only). `OriginalKept` and `RelationsKept` hold with each of these three (section 5); `ReportsAreTrue` does with none. |
| `Gaps`: `rebind` (Curators) | The bindings change while a curation is selected, after its second planning. |
| `Gaps`: `return` (Curators) | A planning reads the bindings and the garden first (`A/curation.py:281`, `:44`) and takes both revisions at its end (`:262`–`264`). A change between the two, taken back after the review and made again between the two of the second planning, gives both times the digest of a plan that was made of the other state, and it is applied. TLC finds `LineageBinds` violated with one curator, this gap and `MaxEdits = 3`; the two steps of the run are too few for it, and the theorems of section 5 are about any number of steps without it. |
| `Gaps`: `lineage` (Curators) | A merge joins the scopes of the notes it merges and of the sources it cites, not of those that a merged note was made from and is less restricted than (`A/curation.py:96`). |
| `Gaps`: `disjoint` (Routers) | Two routes of one unit whose targets are disjoint share no lock and select two homes. |
| `Gaps`: `unbind` (Routers) | A home in a garden that is not bound any more is not seen. |
| `Gaps`: `part` (Routers) | Each target of a plan is compared by itself, and one that has its files already is not compared with the revision the plan has read (`A/changes.py:49`–`58`). A placed its note in a public garden, with a reference in `q` and the receipt in `p`; meanwhile a revision of the request, curated from `q`, has made the same public note and reference and placed the same unit in `q`. A's plan finds its files in the public garden and in `q`, and `p` as it was: its receipt gives the unit a second home. |
| `MaxLive`, two invocations of one routing plan (GardenWriters) | An apply that the lock refused takes the journal of the running one for its own and rolls it back (`A/transactions.py:150`); with an explicit recovery beside a selecting apply, `OriginalsSurvive` fails. |

Three cases are in the runs and excluded in the property that they would break.

- `Relinks` in `AnswersAreComplete`. `snapshots` keeps of its second reading the
  records that are equal as a whole to those of the first
  (`A/query.py:150`, `:156`), but the revision that it pins and
  compares covers only what the session sees of them, links to hidden records pruned
  (`A/query_view.py:139`–`157`). A write between the two readings that changes no more
  than hidden links of a visible record therefore passes every check, and the record
  is missing from the answer. `docs/scoped-retrieval.md:47`–`53` says that hidden
  relationships are omitted and that what is denied cannot change a result.
- `strayed` in `ReferencesResolve`. An ingestion plans with the bindings it has read
  and compares the garden with its plan again before it selects
  (`A/changes.py:88`–`89`), but not the bindings; a relocation verifies for the last
  time that no garden is being written and then rebinds
  (`A/vault_recovery.py:149`–`150`), and nothing keeps a garden from being locked in
  between. Then the contents are put in the old place and the records are selected
  although the vault that is bound by then does not have them. They are in the old
  place still (the property says so), but until the owner copies them every ingestion
  and every recovery of that vault is refused, for both begin by resolving all
  references. The same with an edit of the bindings by hand.
- `sources` of source notes in `RelationsKept`. `source_v1_records`
  (`A/lifecycle.py:516`–`598`) does not read the `sources` of a v0 note of kind source,
  and `v0_extensions` (`:468`) carries only keys that begin with `x-`: they become
  neither evidence nor a deferred mapping, as those of other notes do (`:638`–`656`).
  `docs/v0-v1-compatibility.md:20` says of `sources` without distinction that "Missing
  or ambiguous sources become deferred mappings rather than invented references", and
  `docs/initialization-migration.md:105`–`107` that "ambiguous locators become explicit
  deferred mappings". The gardens of `garden_lifecycle` have such notes, and the
  code's behaviour is proved as `SourceLocatorsDropped`: whatever a source note names,
  its record has no evidence and no deferred mapping is its own. The text of the note
  is preserved, with the locators in it.

In `writers_serial` a cleanup that is interrupted need not converge, although
`docs/private-routing.md:79` says "Repeating interrupted cleanup converges". A kill
inside the removal of a backup (`TearBackup`) leaves a part that later recoveries take
for a corrupted original; and a kill between two lock removals lets another
plan change the first garden, after which recovery answers `RECOVERY_CHANGED`
for good (`RecoverCheck` compares the trees with the journal). By then the journal
says that all is committed or rolled back, so that no original is at stake. The
properties are about journals that do not say so yet: `Settles` promises that each gets
there, and nothing about the cleanup after that.

Modelling met these as well; the instances have no such step, or no property is about it:

- A note whose contradictions name a record by identity alone cannot be merged
  afterwards, and planning an applied proposal again is refused when it has such
  a reference (`A/curation.py:255`).
- After `.garden.v0` is retired, validation of the migrated garden reports its
  missing evidence. Two relations may get one synapse identity, which is refused.
- Two commands that write a projection at the same time, or one that is killed,
  can leave a cache that later writes and quarantines refuse; a kill between the
  creation of a recovery directory and its marker likewise.
- A receipt of the portal that was cut short is a permanent `PORTAL_CONFLICT`.
- A routing request that has a receipt cannot be run again under another catalog
  with the same home (`PLAN_CONFLICT`).

## 5. Proofs

Everything in this section is for every value of the constants that satisfies
the named assumptions; the same properties were checked with TLC first, and so
were the inductive invariants on small instances.

**Garden writers.** `GardenWriters_proofs`: *TypeCorrect* needs `Roles` (a change
plan is never in the steps of a routing plan, only a routing plan is called back
from recovery) and `Looping` (an invocation that takes locks has one left to
take). *BlobsAlwaysFirst* is about trees in place; since these come from renames
the invariant also speaks of stages and backups (`BackedTrees`), and of an
invocation about to stage, whose blobs must be stored (`BlobFirst`).
*ChangesExclude* (`SingleWriter`) and *ChangesAreDurable*
(`AppliedIsDurable`) hold when only single-garden plans are applied; with routing
plans the race of `lock_released_twice` breaks both. `ChangeInv` states per garden that the
active invocation alone has the lock (`ExclusiveAt`) and that every applied
change is in the tree in place, in the stage about to replace it, or in the
displaced tree whose lock is never released (`DurableAt`). A step concerns one
invocation and its own garden (`ChangeFrame`, `OtherGardens`).

The second half of the module is about all three kinds of invocation, any number of
each, where one ends before the next begins (`MaxLive <= 1`, the case the lock and the
journal are made for, and that of `writers_serial`). The hypothesis is needed: with an
apply and an explicit recovery of the same plan at once TLC finds `OriginalsSurvive`
violated. `SerialInv` has four parts. `FreeInPlace`: a garden that no lock names has
its tree and no backup. `JournalSound`: a journal is about all targets of its plan;
what the lock names has the journal's backup and no other (`LockedSound`); and while
the journal is not finished, the tree to go back to is the backup, or else in place,
and, unless it was edited, one of those the journal knows (`OriginalSound`,
`KnownTrees`). `Duty`: what each invocation has found out so far, step by step, is
still so (`ChangeDuty`, `PlanDuty`, `SelectDuty`, `EndDuty`, `RecoverDuty`). `Alone`.
*SerialOriginalsSurvive* and *SerialRecoverable* are read off `JournalSound`, for any
kills, failing operations, edits and changes of the bindings.
*SerialNothingLeftBehind* adds `TidyInv`: without interruptions every lock, journal
and temporary file belongs to the invocation that runs (`Mine`, `Tidy`), whose
recovery after its own commit therefore passes its check; the owner edits between
invocations only (`~LiveEdits`: an edit of a tree that is being selected is refused
by the rollback, which then leaves journal and locks, as it should).
*SerialPublishes* is the refinement of `AtomicPublication`, step by step: every file
operation leaves `Published` as it is, but for the selection of a change plan and the
commit of a routing plan, which are `Publish` of that plan (`PublishChange`,
`PublishRoute`, `PublishRecover`). `FreshInv` carries what the plan was reviewed for
from its verification to that step. There is no edit in it (`Edit = {}`), since
`AtomicPublication` has none.

**Registry.** `RegistryWriters_proofs` has three parts. Of the operations,
*OperationsAdvance* says that on every consistent document the
result is consistent (each view's generation
is its high-water mark) and *advances*: no mark falls, a view changes only with
its mark, no revocation is dropped. Of the ledger by itself, over variables of its
own (`Promise`): *LedgerInvariant*, *SessionsStayStale*, *RevocationsStay*. The
third part is about the concurrent program. `WInv` has the types (*RegistryTypeCorrect*, no further
assumption), `Documents` (what is in place, kept, planned for and read is
consistent), `PlansMade`, `Holding` (only the lease's holder is past the first
check), `Loaded`, `VaultLease` and `Apart` for relocations, `KeptFirst`, and
`Fresh`: just before a write the file is the one that was compared. `Fresh` needs
all the others: the lease keeps other clerks away, `VaultLease` a second
relocation, `Apart` a relocation from an apply, `QuietOwner` the owner.
From it follow, with `~ Overlap` and `QuietOwner`, *WritersImplementLedger*,
*KeptBeforeReplaced*, *RegistrySessionsStayStale* and *RegistryRevocationsStay*.
*GardensStayUnregisterable* needs neither: `Editable` says that every document is
within the budgets and valid once the registry manages it, whatever a writer
overwrote. *SnapshotsStayRestorable* needs both, for `MarksReached`: no snapshot
has a mark above the present one, so the merged marks fit the budget again.

**Vault.** `VaultLife_proofs`: *RecordsResolve*, *BackupsSatisfy* and
*MovesLoseNothing* hold for any number of ingestions, vault
recoveries, kills, decays and edits of the bindings, in any interleaving (with the
exception of `strayed` that the property makes). `ReferencesResolve` is not
inductive: the selection of an ingestion must find its objects in the vault that is
bound then or stray, and the vault that a relocation binds must hold what the garden names
then. `VaultInv` therefore says of every
invocation what it holds (`Holds`: an ingestion the garden lock from its
verification to its selection, an export or relocation the lease of its source from
its last look at the garden, the writer of a vault the lease of that vault), what it
has found out and is still so (`Stays`, `Carries`), and where it can be (`Roles`).
`Carries` is the heart: while a recovery that has looked at the garden for the last
time is not over, no ingestion is past its objects or writes them elsewhere (`Loose`),
for it would have needed the lease of the bound vault to get there; one that is
verified and waits for that lease strays once the bindings have moved. The others are dealt with once:
`Beside(q)` is what a step of `q` leaves alone, and `Undisturbed` that `Good(p)`
survives it for every other `p`; then each step has only its own invocation to
look after (`OwnStep`, `Looking`, `Thinking`).
*NeverConflict* has no hypothesis: an event with a name of its own carries
the words it is named for, in the garden and in every plan (`WordsInv`), so
whatever is found under the name that a capture gives is that capture's event.

**Caches.** At the end of `ScopedQuery_proofs`: *QuarantinesAreExact* and *RestoresAreFinal*.
`CacheInv` says that the holder of the lease applies a reviewed plan, that from its
first receipt to its last no other receipt of its recovery is in play
(`Underway`), and that what the last receipt is about to say has been seen
(`SeenExact`), although sessions write and plans are repeated at any time.

**Public outputs.** `PublicOutputs_proofs`: *ManifestsAreComplete*,
*OwnersFilesStay*, *ReceiptsAreTrue*, for any number of members, kills, failing
writes and steps of the owner. `Progress` says which members a command has
created, in order, and what they hold; `Crowned` that a manifest which holds a
revision has all its members and that nothing of them has been removed; `Copied`
that a portal past its copy has seen it complete.

**Routing.** `Routers_proofs`: *PublicGardensNamePublic*, assuming that no garden
is unbound. A join is public exactly when all it joins is (`PublicJoin`), so a
note placed in a public garden was made of public records only, whatever the
catalog offered; a plan is applied under the bindings it was made for
(`PlansFit`), and `HoldsPublic` says this of each garden for all bindings there
may be later.

*UnitsKeepOneHome* assumes that none of the gaps of section 4 is met, that the
gardens hold no routed unit, receipt or transition at first and one note of each
name (`FirstRouting`), and that a transition is of finitely many notes. The
property itself is not inductive: `Sound` adds that there is one note at each place,
that transitions lead from note to note and in no circle (`Linked`), that a receipt
has the name of its request and a reference speaks of a home that a canonical
record has (`ReceiptsNamed`, `UnitsNamed`), and that a public selection has the home its
name says (`Founded`). References lead from revision to revision, while
`Consistent` is about places; both walks are followed to their ends, and as a
revision is retired exactly when its place is, they end at the same note, which
stands (`LeadStands`). A placement gives a unit the home that it has already, or
one that nothing else is (`RouteSound`); a transition gives it a new home only as it
retires the old one in favour of that (`TransitionSound`), so that whatever led to the
old one leads on to the new (`LeadOn`). A plan that is being applied was made of what
the bound gardens hold, or its files are there already (`Ready`).

**Lifecycle.** `Lifecycle_proofs`: *OriginalsAreKept* and *RelationsCarried* hold with
all gaps open; *ReportsHold* assumes that they are closed, because an edit, an init or
a retirement in the gap makes a report untrue (section 4). `LifeInv` is what `OriginalKept` needs to
be inductive: there is one old garden (`OneOriginal`), which is `.garden` until it is
moved and `.garden.v0` after, so that none is ever moved over another; and who has
staged a plan carries a v0 garden whose migration passed its checks (`Sane`,
`Carried`), so that nothing else is ever selected. Relations follow from that last
part: a mention becomes a synapse with its ends in order (`OrderedEnds`) and the most
restrictive visibility of those who mention it (`MostIs`), a locator of a note that is
no source is evidence or deferred (`LocatorsKept`), and a name finds its record because no two records of a checked garden have
one name (`RecordIs`). `Undisturbed` adds what the reports need: at most one operator
has moved a garden, what it moved is what it planned, who migrates plans what is kept
and something is, who initializes does so where nothing is, and a v1 garden beside a rollback tree is its
migration, and nothing but the old garden is in `.garden.v0`.

**Curation.** `Curators_proofs`: *AppliesWhatFits* assumes that owners take back
nothing that is under review and do not rebind a garden that is being selected
(`return`, `rebind`); *LineagesBind* and *QualificationsStay* assume `lineage` as well.
A plan that may be applied is what its proposal means for the revisions that it names
(`Ready`). That is not so of the plan that is reviewed, which may have been made of an
older state; the second planning must give the same plan, and then what it read is what
it names: the revisions are those of the review, and as they have not come back in
between, they were there already when it read (`Unreturned`). Other curators do not
bring a garden back either, since what passes the verification has an identity that the
garden has not (`Adding`), and no identity leaves a garden (`Grown`). The two
invariants say what a garden says of curated notes, and become inductive as `Sane`: one
record has one identity, what a record cites or was made from exists (`Anchored`), and
every note is as restricted as the sources it cites, whether it has a lineage record or
not (`CitesBound`), because it may be merged later. A plan keeps this (`PlanKeeps`): the
scope of a candidate is a join (`InheritBounds`), so a new note binds what it was made
from and, through the notes that were merged, what those cite (`NotesFit`,
`BindsTransitive`); the older notes find the records they found before (`MoreRecords`);
and no older note becomes curated by a new lineage record (`NewLineages`, for an
identity is a sequence of words and lineage puts one before it).

**Queries.** `ScopedQuery_proofs`: *NoStaleAnswer*, *WholeAnswers*,
*AuthorizedAnswers*, *DominatingScopes*, *NothingDeniedShows*, *PacksKeepBudgets*, for any
gardens, records, sessions, targets of the writer and number of looks at the session.
`QueryInvariant` has for the reader
what it has read so far (`Opened`, `Viewed`, `Complete`, `Given`), for the writer
where its trees are (`Homed`, `Forward`: without a roll-back a tree goes from before
to gone to after and never back), and `Stopped` for what has been withdrawn. The
argument for a whole answer: the revision that
was pinned tells the view (`SameView`), so that the first reading saw the view the
session was made for; every garden was in place at the second reading, and is what
it was at the last look, which saw that revision again; a tree that goes
forward only was then the same at the reading in between, or one that differs from it in hidden
links. About the view itself, the level by level computation of effective scopes is
compared with the definition by paths: after as many rounds as there are records
each scope is the join over `Ancestry` (`EffectiveJoins`), and the work lists
of denial, walked to their end, leave `MayBeShown` (`AuthorizedShown`). Hence restricting the
records to those that may be shown leaves the view as it is (`KeptView`). For
scopes, `Sane` says that an answer is made of entries of the view and
that its scope joins all of theirs (`AnswerIs`), and `AllowsPart` that a home
which carries a join carries each part of it. A pack keeps its budgets because the
bisection ends at a length whose ledger fits and that of one more does not (`PrefixCut`),
and then every candidate in turn leaves a pack that fits and accounts once for each
(`Fitting`, `PackOneFits`): a refusal has a line no longer than the one it replaces, and
what would not fit is not taken. Sizes are sums; that a sum over a finite set exists, is
the same in whatever order it is taken, and grows by what one element adds is proved
first (`SumsExist`, `SumAdds`). The order of the candidates is a strict one in which every
place is taken once (`Places`, `PlacesDiffer`), so that it is the same for a table and for
the part of it the answer looks at (`ConsideredAlike`). The theorem is about an `Operation` that
has the index and the entry point, since the property speaks of both.

The assumptions on constants are `StoreAssumption`, `WritersAssumption` (one of
the garden writers, one of the registry's), `RegistryAssumption`,
`PlanAssumption`, `OutputsAssumption`, `HomeIsAPlace`, `ProcessesAssumption`
(no invocation is called what the lock says when it is free or left behind), those of
the queries (`SomeGardens`, `TargetsAreGardens`, `SomeChecks`; `ProjectionsAreKnown`;
`RecordsAreOwned`: an identity belongs to one garden and the records of a tree are
well formed; `SessionsAreValid`: what a session names exists, its levels are
levels and its budgets numbers), `V0Assumption` (a v0 garden that is read has the fields of its
schema; anything else is refused before there is a plan), the `BindingsAssumption` of
`Routers` (visibility of a bound garden does not depend on which bindings file it is,
records have the fields of `Blank`, and what public gardens hold at first names nothing
private), and of `Curators` `GardensAssumption` (a garden is valid at first, and notes in
it that are curated or cite sources are as restricted and qualified as what they come
from), `BindingsAssumption` (bindings give scopes) and `ProposalsAssumption` (the fields
of an output that are references have the role of their field). TLC evaluates all of them.

**Only model-checked:** the interleavings of `writers_mixed` (where routing and change
plans run at once); `RefusalsAreKnown` of `garden_lifecycle`, which is about a walk through a graph; and the liveness properties `Settles`, `PlanSettles`,
`RepeatReconciles`, which are out of the prover's reach, as is the induction over
data that the graph of supersession needs.

## 6. Not modelled, and the plan

- **Compaction** (`A/compaction.py`) validates plans that another tool executes
  and reads receipts; it changes no state.
- **Agent profile and context packages**, **conversation archives**, decoding of
  PDF and media: conversions without state that survives the call.
- **Rendering**: the site and federation pages, the preview server, the Quartz
  engine, the v0 projection of `AD/publishing.py` (which removes its output and
  then renames, and reads metadata and text of a note at two times).
- **Contracts**: JSON schemas, dates, links in Markdown, the wording of reports.
- `fsync`: a kill is the death of a process, not of the machine.
- Planning is one step in the writers' modules; in `ScopedQuery`, where a reader
  takes no lock, every read is a step of its own.

Next: the v0 projection and the engine's cache, which have the
same shape as `PublicOutputs`; then `RefusalsAreKnown`, once the walk that looks for a
circle can be proved to find each.

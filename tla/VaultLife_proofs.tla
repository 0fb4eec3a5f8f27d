-------------------------- MODULE VaultLife_proofs --------------------------
(***************************************************************************)
(* What the records name can be read from the bound vault, but for records *)
(* selected after the bindings moved, backups satisfy the records of the   *)
(* moment they are named, relocations keep every object, and captures      *)
(* never conflict: for any number of ingestions, vault recoveries, kills   *)
(* and decays.                                                             *)
(*                                                                         *)
(* The argument is about who holds what.  An ingestion keeps the garden    *)
(* lock from its verification to its selection.  An export or relocation   *)
(* keeps the lease of the source, so after its last look at the garden no  *)
(* ingestion can put an object there, and none can come to its selection   *)
(* before the bindings have moved.  One that was verified by then strays.  *)
(***************************************************************************)
EXTENDS VaultLife, TLAPS

Locking == {"verify", "put", "link", "unlink", "select"}
Ingesting == Locking \cup {"lock"}
Recovering ==
    {"begin", "revise", "lease", "receive", "pack", "name", "place", "reopen", "rebind"}
Steps == {"idle", "manifest"} \cup Ingesting \cup Recovering

Bindings == [place : Place, rest : {0, 1}]
IsTask(t) ==
    t \in [pc : Steps, files : {t.files}, todo : {t.todo}, op : {t.op}, dest : Place,
           bundle : {t.bundle}, from : Bindings, before : {t.before}]

TasksOK ==
    /\ DOMAIN task = Proc
    /\ task = [p \in Proc |-> task[p]]
    /\ \A p \in Proc : IsTask(task[p])

TypeOK ==
    /\ vault \in [Place -> Vault]
    /\ lease \in [Place -> Proc \cup {Free}]
    /\ bindings \in Bindings
    /\ lock \in Proc \cup {Free, "left"}
    /\ TasksOK

\* An ingestion that no lease of the bound vault keeps from its selection: it is past
\* its writing, or writes in another place.
Loose(t) ==
    \/ t.pc \in {"link", "unlink", "select"}
    \/ t.pc = "put" /\ (t.todo = {} \/ t.from.place # Bound)

\* A recovery that holds the lease of the vault it exports.
OverSource(t) ==
    \/ t.pc \in {"pack", "name", "reopen", "rebind"}
    \/ t.op = "relocate" /\ t.pc \in {"receive", "place"}

\* What is always true of an invocation that is somewhere in the midst of it.
Roles(p) ==
    LET t == task[p]
    IN  /\ t.pc \in Ingesting => p \in Clerk
        /\ t.pc \in {"lock", "verify"} => t.todo # {}
        /\ t.pc = "revise" => t.op = "restore"
        /\ t.pc \in {"begin", "lease"} => t.op \in {"export", "relocate"}
        /\ t.pc \in {"receive", "place"} => t.op \in {"restore", "relocate"}
        /\ t.pc \in {"reopen", "rebind"} => t.op = "relocate"
        /\ t.pc \in Recovering => References(t.before) \subseteq t.bundle

Holds(p) ==
    LET t == task[p]
    IN  /\ t.pc \in Locking => lock = p
        /\ t.pc \in {"link", "unlink"} \/ OverSource(t) => lease[t.from.place] = p
        /\ t.pc \in {"manifest", "place"} => lease[t.dest] = p
        /\ t.pc = "place" => Clean(vault[t.dest])
        /\ t.pc \in {"place", "reopen", "rebind"} /\ t.op = "relocate"
              => t.dest # t.from.place

\* An ingestion has validated what it selects.
Stays(p) ==
    LET t == task[p]
    IN  t.pc = "select" /\ ~ decayed
            => References(WithFiles(garden, t.files)) \subseteq Available(t.from.place)

\* A recovery has all that the source holds, and at its end the target has it too;
\* the garden is as it was planned for and no ingestion can change it before that.
Carries(p) ==
    LET t == task[p]
    IN  /\ OverSource(t) => Available(t.from.place) \subseteq t.bundle
        /\ t.pc = "rebind" /\ ~ decayed => t.bundle \subseteq Available(t.dest)
        /\ t.pc \in {"name", "rebind"} =>
              /\ Bound = t.from.place
              /\ garden = t.before
              /\ \A q \in Proc : ~ Loose(task[q])

Good(p) == Roles(p) /\ Holds(p) /\ Stays(p) /\ Carries(p)

VaultInv ==
    /\ TypeOK
    /\ \A p \in Proc : Good(p)
    /\ ReferencesResolve

\* An event that has a name of its own carries the words it is named for.
Worded(G) == \A i \in DOMAIN G : i[1] = "provenance" /\ Len(i) = 4 => G[i] = i[4]

Shaped(t) ==
    t \in [pc : {t.pc}, files : {t.files}, todo : {t.todo}, op : {t.op}, dest : {t.dest},
           bundle : {t.bundle}, from : {t.from}, before : {t.before}]

WordsInv ==
    /\ DOMAIN task = Proc /\ task = [p \in Proc |-> task[p]]
    /\ Worded(garden)
    /\ \A p \in Proc : Shaped(task[p]) /\ Worded(task[p].files)


\* What any other invocation may rely on when q takes a step.
Beside(q) ==
    /\ TypeOK'
    /\ \A p \in Proc \ {q} : task'[p] = task[p]
    /\ \A place \in Place : lease[place] \in Proc \ {q} =>
          lease'[place] = lease[place] /\ vault'[place] = vault[place]
    /\ lock \in Proc \ {q} => lock' = lock
    /\ \A place \in Place : Held(vault[place]) \subseteq Held(vault'[place])
    /\ decayed' = decayed
    /\ garden' # garden => lock = q /\ q \in Proc /\ Loose(task[q])
    /\ bindings'.place # Bound => lease[Bound] = q
    /\ q \in Proc /\ Loose(task'[q]) => Loose(task[q]) \/ lease[Bound] = Free

----------------------------------------------------------------------------
(***************************************************************************)
(* Vaults.                                                                 *)
(***************************************************************************)

\* What a vault holds, and that nothing but decay takes anything from it.
LEMMA HeldIs ==
    ASSUME NEW v \in Vault
    PROVE  Held(v) = {b \in Blob : v.there /\ v.manifest = "whole" /\ v.objects[b] = "whole"}
<1>1. ASSUME NEW b \in Blob
      PROVE  ContentState(v, b) = "available"
                 <=> v.there /\ v.manifest = "whole" /\ v.objects[b] = "whole"
  <2>1. /\ v.there \in BOOLEAN /\ v.manifest \in Manifest
        /\ v.objects[b] \in {"absent", "whole", "bad"}
    BY DEF Vault, Found
  <2>2. CASE ~ v.there
    BY <2>2 DEF ContentState, Usable
  <2>3. CASE v.there /\ v.manifest # "whole"
    BY <2>3 DEF ContentState, Usable
  <2>4. CASE v.there /\ v.manifest = "whole"
    BY <2>1, <2>4 DEF ContentState, Usable
  <2> QED
    BY <2>1, <2>2, <2>3, <2>4
<1> QED
  BY <1>1 DEF Held

LEMMA VaultSteps ==
    ASSUME NEW v \in Vault, NEW b, NEW objects
    PROVE  /\ Begun(v) \in Vault /\ Initialized(v) \in Vault /\ Staged(v) \in Vault
           /\ Linked(v, b) \in Vault /\ Unstaged(v) \in Vault
           /\ Restored(objects) \in Vault /\ Nowhere \in Vault
<1>1. Nowhere \in Vault /\ Begun(v) \in Vault
  BY DEF Nowhere, Begun, Vault, Manifest, Found
<1>2. Initialized(v) \in Vault /\ Staged(v) \in Vault /\ Unstaged(v) \in Vault
  BY DEF Initialized, Staged, Unstaged, Vault, Manifest
<1>3. Linked(v, b) \in Vault
  BY DEF Linked, Vault, Found
<1>4. Restored(objects) \in Vault
  BY DEF Restored, Vault, Manifest, Found
<1> QED
  BY <1>1, <1>2, <1>3, <1>4

LEMMA NothingTaken ==
    ASSUME NEW v \in Vault, NEW b
    PROVE  /\ Held(v) \subseteq Held(Initialized(v))
           /\ Held(v) \subseteq Held(Staged(v))
           /\ Held(v) \subseteq Held(Linked(v, b))
           /\ Held(v) \subseteq Held(Unstaged(v))
           /\ Clean(v) => Held(v) = {}
           /\ v.manifest # "whole" => Held(v) = {}
<1>1. Held(v) \subseteq Held(Initialized(v))
  BY HeldIs, VaultSteps DEF Initialized, Vault
<1>2. Held(v) \subseteq Held(Staged(v)) /\ Held(v) \subseteq Held(Unstaged(v))
  <2>1. Held(v) \subseteq Held(Staged(v))
    BY HeldIs, VaultSteps DEF Staged, Vault
  <2>2. Held(v) \subseteq Held(Unstaged(v))
    BY HeldIs, VaultSteps DEF Unstaged, Vault
  <2> QED
    BY <2>1, <2>2
<1>3. Held(v) \subseteq Held(Linked(v, b))
  BY HeldIs, VaultSteps DEF Linked, Vault
<1>4. Clean(v) \/ v.manifest # "whole" => Held(v) = {}
  BY HeldIs DEF Clean
<1> QED
  BY <1>1, <1>2, <1>3, <1>4

(***************************************************************************)
(* Invocations.                                                            *)
(***************************************************************************)

LEMMA Becoming ==
    ASSUME TasksOK, NEW p \in Proc, NEW t, IsTask(t), task' = [task EXCEPT ![p] = t]
    PROVE  TasksOK' /\ task'[p] = t /\ \A q \in Proc \ {p} : task'[q] = task[q]
<1>1. DOMAIN task' = Proc /\ task' = [q \in Proc |-> task'[q]]
  BY DEF TasksOK
<1>2. task'[p] = t /\ \A q \in Proc \ {p} : task'[q] = task[q]
  BY DEF TasksOK
<1>3. \A q \in Proc : IsTask(task'[q])
  BY <1>2 DEF TasksOK
<1> QED
  BY <1>1, <1>2, <1>3 DEF TasksOK

\* All but the place in the program.
Alike(t, u) ==
    /\ u.files = t.files /\ u.todo = t.todo /\ u.op = t.op /\ u.dest = t.dest
    /\ u.bundle = t.bundle /\ u.from = t.from /\ u.before = t.before

LEMMA Going ==
    ASSUME TasksOK, NEW p \in Proc, NEW step \in Steps, Goto(p, step)
    PROVE  /\ TasksOK' /\ \A q \in Proc \ {p} : task'[q] = task[q]
           /\ task'[p].pc = step /\ Alike(task[p], task'[p])
<1> DEFINE t == [task[p] EXCEPT !.pc = step]
<1>1. task' = [task EXCEPT ![p] = t]
  BY DEF Goto
<1>2. IsTask(t) /\ t.pc = step /\ Alike(task[p], t)
  BY DEF TasksOK, IsTask, Alike
<1> HIDE DEF t
<1> QED
  BY <1>1, <1>2, Becoming

LEMMA IdleIsTask == IsTask(Idle)
  BY HomeIsAPlace DEF IsTask, Idle, Steps, Bindings

\* The end of an invocation.
LEMMA Returning ==
    ASSUME TypeOK, NEW p \in Proc, Return(p)
    PROVE  /\ TasksOK' /\ \A q \in Proc \ {p} : task'[q] = task[q]
           /\ task'[p] = Idle
           /\ lock' \in Proc \cup {Free, "left"} /\ (lock # p => lock' = lock)
           /\ lease' \in [Place -> Proc \cup {Free}]
           /\ \A place \in Place : lease[place] # p => lease'[place] = lease[place]
<1>1. TasksOK' /\ task'[p] = Idle /\ \A q \in Proc \ {p} : task'[q] = task[q]
  BY Becoming, IdleIsTask DEF TypeOK, Return
<1>2. lock' \in Proc \cup {Free, "left"} /\ (lock # p => lock' = lock)
  BY DEF TypeOK, Return
<1>3. /\ lease' \in [Place -> Proc \cup {Free}]
      /\ \A place \in Place : lease[place] # p => lease'[place] = lease[place]
  BY DEF TypeOK, Return
<1> QED
  BY <1>1, <1>2, <1>3

LEMMA IdleIsGood ==
    ASSUME NEW p \in Proc, task'[p] = Idle
    PROVE  Good(p)' /\ ~ Loose(task'[p])
<1>1. task'[p].pc = "idle" /\ task'[p].op = "none"
  BY DEF Idle
<1> QED
  BY <1>1 DEF Good, Roles, Holds, Stays, Carries, Loose, OverSource, Ingesting, Locking, Recovering

\* Whether an ingestion is loose depends on the bindings only by their place.
LEMMA StaysLoose ==
    ASSUME bindings'.place = Bound
    PROVE  \A q \in Proc : Loose(task[q])' <=> Loose(task'[q])
  BY DEF Loose, Bound

\* A step beside an invocation disturbs nothing that it relies on.
LEMMA Undisturbed ==
    ASSUME VaultInv, NEW q \in Proc \cup {"left"}, Beside(q), NEW p \in Proc \ {q}
    PROVE  Good(p)'
<1> DEFINE t == task[p]
<1>1. Good(p) /\ TypeOK
  BY DEF VaultInv
<1>2. task'[p] = t /\ IsTask(t) /\ t.from.place \in Place /\ t.dest \in Place
  BY <1>1 DEF Beside, TypeOK, TasksOK, IsTask, Bindings
<1>3. Roles(p)'
  BY <1>1, <1>2 DEF Good, Roles
<1>4. Holds(p)'
  BY <1>1, <1>2 DEF Good, Holds, Beside, OverSource
<1>5. Stays(p)'
  <2>1. t.pc \in Locking => lock = p /\ p \in Clerk
    BY <1>1 DEF Good, Holds, Roles, Ingesting
  <2>2. t.pc \in Locking => garden' = garden
    BY <2>1, <1>1 DEF Beside
  <2>3. Available(t.from.place) \subseteq Held(vault'[t.from.place])
    BY <1>2 DEF Beside, Available
  <2> HIDE DEF t
  <2>4. ASSUME t.pc = "select", ~ decayed'
        PROVE  References(WithFiles(garden', t.files)) \subseteq Held(vault'[t.from.place])
    <3>1. References(WithFiles(garden, t.files)) \subseteq Available(t.from.place)
      BY <1>1, <2>4 DEF Good, Stays, Beside, t
    <3>2. garden' = garden
      BY <2>2, <2>4 DEF Locking
    <3> QED
      BY <3>1, <3>2, <2>3
  <2> QED
    BY <2>4, <1>2 DEF Stays, Available
<1>6. Carries(p)'
  <2>1. OverSource(t) => lease[t.from.place] = p
    BY <1>1 DEF Good, Holds
  <2>2. OverSource(t) => Held(vault'[t.from.place]) \subseteq t.bundle
    BY <1>1, <1>2, <2>1 DEF Good, Carries, Beside, Available
  <2>3. t.pc = "rebind" /\ ~ decayed' => t.bundle \subseteq Held(vault'[t.dest])
    BY <1>1, <1>2 DEF Good, Carries, Beside, Available
  <2>4. ASSUME t.pc \in {"name", "rebind"}
        PROVE  /\ Bound' = t.from.place /\ garden' = t.before
               /\ \A r \in Proc : ~ Loose(task[r])'
    <3>1. /\ Bound = t.from.place /\ garden = t.before
          /\ \A r \in Proc : ~ Loose(task[r])
      BY <1>1, <2>4 DEF Good, Carries
    <3>2. lease[Bound] = p
      BY <2>1, <2>4, <3>1 DEF OverSource
    <3>3. bindings'.place = Bound
      BY <3>2 DEF Beside
    <3>4. garden' = garden
      BY <3>1 DEF Beside
    <3>5. \A r \in Proc : ~ Loose(task'[r])
      BY <3>1, <3>2, ProcessesAssumption DEF Beside
    <3> QED
      BY <3>1, <3>3, <3>4, <3>5, StaysLoose DEF Bound
  <2> HIDE DEF t
  <2> QED
    BY <2>2, <2>3, <2>4, <1>2, StaysLoose DEF Carries, Available, Bound, OverSource
<1> QED
  BY <1>3, <1>4, <1>5, <1>6 DEF Good

\* The records still resolve when neither they nor the bound place change.
LEMMA StillResolves ==
    ASSUME VaultInv, NEW q, Beside(q), garden' = garden, bindings'.place = Bound,
           strayed' = strayed
    PROVE  ReferencesResolve'
<1>1. Bound \in Place
  BY DEF VaultInv, TypeOK, Bindings, Bound
<1>2. \A place \in Place : Available(place) \subseteq Held(vault'[place])
  BY DEF Beside, Available
<1> QED
  BY <1>1, <1>2 DEF VaultInv, ReferencesResolve, Beside, Available, Bound

\* What remains to be shown of a step of one invocation.
LEMMA OwnStep ==
    ASSUME VaultInv, NEW p \in Proc, Beside(p), Good(p)', ReferencesResolve'
    PROVE  VaultInv'
<1>1. \A r \in Proc \ {p} : Good(r)'
  BY Undisturbed
<1> QED
  BY <1>1 DEF VaultInv, Beside

\* An invocation ends having changed nothing.
LEMMA Failing ==
    ASSUME VaultInv, NEW p \in Proc, Fail(p), UNCHANGED <<decayed, strayed>>
    PROVE  VaultInv'
<1>1. TypeOK /\ Return(p) /\ UNCHANGED <<vault, garden, bindings>>
  BY DEF VaultInv, Fail, stores
<1>2. Good(p)' /\ ~ Loose(task'[p])
  BY <1>1, Returning, IdleIsGood
<1>3. TypeOK'
  BY <1>1, Returning DEF TypeOK
<1>4. Beside(p)
  BY <1>1, <1>2, <1>3, Returning DEF Beside, Bound
<1> QED
  BY <1>1, <1>2, <1>4, OwnStep, StillResolves DEF Bound

\* A step that changes nothing but the task of the invocation that takes it.
LEMMA Thinking ==
    ASSUME VaultInv, NEW p \in Proc, TasksOK', \A q \in Proc \ {p} : task'[q] = task[q],
           UNCHANGED <<vault, lease, bindings, garden, lock, decayed, strayed>>,
           Loose(task'[p]) => Loose(task[p]) \/ lease[Bound] = Free, Good(p)'
    PROVE  VaultInv'
<1>1. TypeOK'
  BY DEF VaultInv, TypeOK
<1>2. Beside(p)
  BY <1>1 DEF Beside, Bound
<1> QED
  BY <1>2, OwnStep, StillResolves DEF Bound

\* One that looks at the stores and goes on.
LEMMA Looking ==
    ASSUME VaultInv, NEW p \in Proc, NEW step \in Steps, Goto(p, step),
           UNCHANGED <<decayed, strayed>>,
           UNCHANGED <<stores, lease, lock, bindings>>
    PROVE  /\ task'[p].pc = step /\ Alike(task[p], task'[p])
           /\ (Loose(task'[p]) => Loose(task[p]) \/ lease[Bound] = Free) /\ Good(p)'
                 => VaultInv'
<1>1. /\ TasksOK' /\ \A q \in Proc \ {p} : task'[q] = task[q]
      /\ task'[p].pc = step /\ Alike(task[p], task'[p])
  BY Going DEF VaultInv, TypeOK
<1> QED
  BY <1>1, Thinking DEF stores

(***************************************************************************)
(* Ingestion.                                                              *)
(***************************************************************************)
LEMMA PlanIngestionStep ==
    ASSUME VaultInv, NEW p \in Clerk, NEW c \in Capture, PlanIngestion(p, c),
           UNCHANGED <<decayed, strayed>>
    PROVE  VaultInv'
<1> DEFINE t == [Idle EXCEPT !.pc = "lock", !.files = IngestedFiles(garden, c),
                             !.todo = IngestedBlobs(c), !.from = bindings,
                             !.before = garden]
<1>1. p \in Proc /\ TypeOK
  BY DEF Proc, VaultInv
<1>2. task' = [task EXCEPT ![p] = t]
  BY DEF PlanIngestion
<1>3. IsTask(t) /\ t.pc = "lock" /\ t.op = "none" /\ t.todo = IngestedBlobs(c)
  BY <1>1, HomeIsAPlace DEF IsTask, Idle, Steps, Ingesting, TypeOK
<1>4. t.todo # {}
  BY <1>3 DEF IngestedBlobs
<1> HIDE DEF t
<1>5. TasksOK' /\ task'[p] = t /\ \A q \in Proc \ {p} : task'[q] = task[q]
  BY <1>1, <1>2, <1>3, Becoming DEF TypeOK
<1>6. Good(p)' /\ ~ Loose(task'[p])
  BY <1>3, <1>4, <1>5
  DEF Good, Roles, Holds, Stays, Carries, Loose, OverSource, Ingesting, Locking, Recovering
<1>7. UNCHANGED <<vault, lease, bindings, garden, lock>>
  BY DEF PlanIngestion, stores
<1> QED
  BY <1>1, <1>5, <1>6, <1>7, Thinking

LEMMA LockGardenStep ==
    ASSUME VaultInv, NEW p \in Clerk, LockGarden(p), UNCHANGED <<decayed, strayed>>
    PROVE  VaultInv'
<1>1. p \in Proc /\ TypeOK /\ Good(p) /\ task[p].pc = "lock"
  BY DEF Proc, VaultInv, LockGarden
<1>2. CASE Fail(p)
  BY <1>1, <1>2, Failing
<1>3. CASE lock = Free /\ lock' = p /\ Goto(p, "verify") /\ UNCHANGED <<stores, lease, bindings>>
  <2>1. /\ TasksOK' /\ \A q \in Proc \ {p} : task'[q] = task[q]
        /\ task'[p].pc = "verify" /\ Alike(task[p], task'[p])
    BY <1>1, <1>3, Going DEF TypeOK, Steps, Ingesting, Locking
  <2>2. task[p].todo # {}
    BY <1>1 DEF Good, Roles
  <2>3. Good(p)' /\ ~ Loose(task'[p])
    BY <1>1, <1>3, <2>1, <2>2
    DEF Good, Roles, Holds, Stays, Carries, Loose, OverSource, Ingesting, Locking, Recovering,
        Alike
  <2>4. TypeOK'
    BY <1>1, <1>3, <2>1 DEF TypeOK, stores
  <2>5. lock \notin Proc
    BY <1>3, ProcessesAssumption
  <2>6. Beside(p)
    BY <1>1, <1>3, <2>1, <2>3, <2>4, <2>5 DEF Beside, Bound, stores
  <2> QED
    BY <1>1, <1>3, <2>3, <2>6, OwnStep, StillResolves DEF Bound, stores
<1> QED
  BY <1>2, <1>3 DEF LockGarden

LEMMA VerifyIngestionStep ==
    ASSUME VaultInv, NEW p \in Clerk, VerifyIngestion(p), UNCHANGED <<decayed, strayed>>
    PROVE  VaultInv'
<1>1. p \in Proc /\ TypeOK /\ Good(p) /\ task[p].pc = "verify"
  BY DEF Proc, VaultInv, VerifyIngestion
<1>2. CASE Fail(p)
  BY <1>1, <1>2, Failing
<1>3. CASE /\ bindings = task[p].from
           /\ Goto(p, "put") /\ UNCHANGED <<stores, lease, lock, bindings>>
  <2>1. "put" \in Steps
    BY DEF Steps, Ingesting, Locking
  <2>2. task'[p].pc = "put" /\ Alike(task[p], task'[p])
    BY <1>1, <1>3, <2>1, Looking
  <2>3. task[p].todo # {} /\ lock = p
    BY <1>1 DEF Good, Roles, Holds, Locking
  <2>4. Good(p)' /\ ~ Loose(task'[p])
    BY <1>1, <1>3, <2>2, <2>3
    DEF Good, Roles, Holds, Stays, Carries, Loose, OverSource, Ingesting, Locking, Recovering,
        Alike, Bound
  <2> QED
    BY <1>1, <1>3, <2>1, <2>4, Looking
<1> QED
  BY <1>2, <1>3 DEF VerifyIngestion

LEMMA PutBlobStep ==
    ASSUME VaultInv, NEW p \in Clerk, PutBlob(p), UNCHANGED <<decayed, strayed>>
    PROVE  VaultInv'
<1> DEFINE place == task[p].from.place
<1>1. p \in Proc /\ TypeOK /\ Good(p) /\ task[p].pc = "put" /\ IsTask(task[p])
  BY DEF Proc, VaultInv, PutBlob, TypeOK, TasksOK
<1>2. PICK b \in task[p].todo :
          IF lease[place] = Free /\ Usable(vault[place]) /\ vault[place].objects[b] # "bad"
          THEN IF b \in Available(place)
               THEN /\ task' = [task EXCEPT ![p].todo = @ \ {b}]
                    /\ UNCHANGED <<stores, lease, lock, bindings>>
               ELSE /\ lease' = [lease EXCEPT ![place] = p]
                    /\ vault' = [vault EXCEPT ![place] = Staged(@)]
                    /\ task' = [task EXCEPT ![p].pc = "link", ![p].bundle = {b}]
                    /\ UNCHANGED <<garden, backup, lock, bindings>>
          ELSE Fail(p)
  BY DEF PutBlob
<1>3. place \in Place /\ lock = p /\ (Loose(task[p]) \/ place = Bound)
  BY <1>1 DEF Good, Holds, Locking, IsTask, Bindings, Loose
<1>4. CASE Fail(p)
  BY <1>1, <1>4, Failing
<1>5. CASE /\ lease[place] = Free
           /\ task' = [task EXCEPT ![p].todo = @ \ {b}]
           /\ UNCHANGED <<stores, lease, lock, bindings>>
  <2> DEFINE t == [task[p] EXCEPT !.todo = @ \ {b}]
  <2>1. task' = [task EXCEPT ![p] = t]
    BY <1>5
  <2>2. IsTask(t) /\ t.pc = "put" /\ t.from = task[p].from
    BY <1>1 DEF IsTask
  <2> HIDE DEF t
  <2>3. TasksOK' /\ task'[p] = t /\ \A q \in Proc \ {p} : task'[q] = task[q]
    BY <1>1, <2>1, <2>2, Becoming DEF TypeOK
  <2>4. Good(p)'
    BY <1>1, <1>3, <1>5, <2>2, <2>3
    DEF Good, Roles, Holds, Stays, Carries, OverSource, Ingesting, Locking, Recovering, Bound
  <2> QED
    BY <1>1, <1>3, <1>5, <2>3, <2>4, Thinking DEF stores
<1>6. CASE /\ lease[place] = Free
           /\ lease' = [lease EXCEPT ![place] = p]
           /\ vault' = [vault EXCEPT ![place] = Staged(@)]
           /\ task' = [task EXCEPT ![p].pc = "link", ![p].bundle = {b}]
           /\ UNCHANGED <<garden, backup, lock, bindings>>
  <2> DEFINE t == [task[p] EXCEPT !.pc = "link", !.bundle = {b}]
  <2>1. task' = [task EXCEPT ![p] = t]
    BY <1>6
  <2>2. IsTask(t) /\ t.pc = "link" /\ t.from = task[p].from
    BY <1>1 DEF IsTask, Steps, Ingesting, Locking
  <2> HIDE DEF t
  <2>3. TasksOK' /\ task'[p] = t /\ \A q \in Proc \ {p} : task'[q] = task[q]
    BY <1>1, <2>1, <2>2, Becoming DEF TypeOK
  <2>4. lease'[place] = p
    BY <1>1, <1>3, <1>6 DEF TypeOK
  <2>5. Good(p)'
    BY <1>1, <1>3, <1>6, <2>2, <2>3, <2>4
    DEF Good, Roles, Holds, Stays, Carries, OverSource, Ingesting, Locking, Recovering, Bound
  <2>6. vault[place] \in Vault /\ Staged(vault[place]) \in Vault
    BY <1>1, <1>3, VaultSteps DEF TypeOK
  <2>7. TypeOK'
    BY <1>1, <1>3, <1>6, <2>3, <2>6 DEF TypeOK
  <2>8. \A q \in Place : Held(vault[q]) \subseteq Held(vault'[q])
    BY <1>1, <1>3, <1>6, <2>6, NothingTaken DEF TypeOK
  <2>9. \A q \in Place : lease[q] \in Proc \ {p} => lease'[q] = lease[q] /\ vault'[q] = vault[q]
    BY <1>1, <1>3, <1>6, ProcessesAssumption DEF TypeOK
  <2>10. Beside(p)
    BY <1>3, <1>6, <2>3, <2>7, <2>8, <2>9 DEF Beside, Bound
  <2> QED
    BY <1>1, <1>6, <2>5, <2>10, OwnStep, StillResolves DEF Bound
<1> QED
  BY <1>2, <1>4, <1>5, <1>6

LEMMA LinkBlobStep ==
    ASSUME VaultInv, NEW p \in Clerk, LinkBlob(p), UNCHANGED <<decayed, strayed>>
    PROVE  VaultInv'
<1> DEFINE place == task[p].from.place
<1>1. p \in Proc /\ TypeOK /\ Good(p) /\ task[p].pc = "link" /\ IsTask(task[p])
  BY DEF Proc, VaultInv, LinkBlob, TypeOK, TasksOK
<1>2. PICK b \in task[p].bundle : vault' = [vault EXCEPT ![place] = Linked(@, b)]
  BY DEF LinkBlob
<1>3. Goto(p, "unlink") /\ UNCHANGED <<garden, backup, lease, lock, bindings>>
  BY DEF LinkBlob
<1>4. place \in Place /\ lock = p /\ lease[place] = p
  BY <1>1 DEF Good, Holds, Locking, IsTask, Bindings
<1>5. /\ TasksOK' /\ \A q \in Proc \ {p} : task'[q] = task[q]
      /\ task'[p].pc = "unlink" /\ Alike(task[p], task'[p])
  BY <1>1, <1>3, Going DEF TypeOK, Steps, Ingesting, Locking
<1>6. Good(p)'
  BY <1>1, <1>3, <1>4, <1>5
  DEF Good, Roles, Holds, Stays, Carries, OverSource, Ingesting, Locking, Recovering, Bound,
      Alike
<1>7. vault[place] \in Vault /\ Linked(vault[place], b) \in Vault
  BY <1>1, <1>4, VaultSteps DEF TypeOK
<1>8. TypeOK'
  BY <1>1, <1>2, <1>3, <1>4, <1>5, <1>7 DEF TypeOK
<1>9. \A q \in Place : Held(vault[q]) \subseteq Held(vault'[q])
  BY <1>1, <1>2, <1>4, <1>7, NothingTaken DEF TypeOK
<1>10. \A q \in Place : lease[q] \in Proc \ {p} => lease'[q] = lease[q] /\ vault'[q] = vault[q]
  BY <1>1, <1>2, <1>3, <1>4 DEF TypeOK
<1>11. Loose(task[p])
  BY <1>1 DEF Loose
<1>12. Beside(p)
  BY <1>3, <1>5, <1>8, <1>9, <1>10, <1>11 DEF Beside, Bound
<1> QED
  BY <1>1, <1>3, <1>6, <1>12, OwnStep, StillResolves DEF Bound

LEMMA UnlinkStagedStep ==
    ASSUME VaultInv, NEW p \in Clerk, UnlinkStaged(p), UNCHANGED <<decayed, strayed>>
    PROVE  VaultInv'
<1> DEFINE place == task[p].from.place
<1>1. p \in Proc /\ TypeOK /\ Good(p) /\ task[p].pc = "unlink" /\ IsTask(task[p])
  BY DEF Proc, VaultInv, UnlinkStaged, TypeOK, TasksOK
<1>2. /\ vault' = [vault EXCEPT ![place] = Unstaged(@)]
      /\ lease' = [lease EXCEPT ![place] = Free]
      /\ UNCHANGED <<garden, backup, lock, bindings>>
  BY DEF UnlinkStaged
<1>3. place \in Place /\ lock = p /\ lease[place] = p
  BY <1>1 DEF Good, Holds, Locking, IsTask, Bindings
<1> DEFINE t == [task[p] EXCEPT !.pc = "put", !.todo = @ \ task[p].bundle]
<1>4. task' = [task EXCEPT ![p] = t]
  BY DEF UnlinkStaged
<1>5. IsTask(t) /\ t.pc = "put" /\ t.from = task[p].from
  BY <1>1 DEF IsTask, Steps, Ingesting, Locking
<1> HIDE DEF t
<1>6. TasksOK' /\ task'[p] = t /\ \A q \in Proc \ {p} : task'[q] = task[q]
  BY <1>1, <1>4, <1>5, Becoming DEF TypeOK
<1>7. Good(p)'
  BY <1>1, <1>2, <1>3, <1>5, <1>6
  DEF Good, Roles, Holds, Stays, Carries, OverSource, Ingesting, Locking, Recovering, Bound
<1>8. vault[place] \in Vault /\ Unstaged(vault[place]) \in Vault
  BY <1>1, <1>3, VaultSteps DEF TypeOK
<1>9. TypeOK'
  BY <1>1, <1>2, <1>3, <1>6, <1>8 DEF TypeOK
<1>10. \A q \in Place : Held(vault[q]) \subseteq Held(vault'[q])
  BY <1>1, <1>2, <1>3, <1>8, NothingTaken DEF TypeOK
<1>11. \A q \in Place : lease[q] \in Proc \ {p} => lease'[q] = lease[q] /\ vault'[q] = vault[q]
  BY <1>1, <1>2, <1>3 DEF TypeOK
<1>12. Loose(task[p])
  BY <1>1 DEF Loose
<1>13. Beside(p)
  BY <1>2, <1>6, <1>9, <1>10, <1>11, <1>12 DEF Beside, Bound
<1> QED
  BY <1>1, <1>2, <1>7, <1>13, OwnStep, StillResolves DEF Bound

LEMMA ValidateStageStep ==
    ASSUME VaultInv, NEW p \in Clerk, ValidateStage(p), UNCHANGED <<decayed, strayed>>
    PROVE  VaultInv'
<1>1. /\ p \in Proc /\ TypeOK /\ Good(p) /\ task[p].pc = "put" /\ task[p].todo = {}
  BY DEF Proc, VaultInv, ValidateStage
<1>2. CASE Fail(p)
  BY <1>1, <1>2, Failing
<1>3. CASE /\ References(WithFiles(garden, task[p].files)) \subseteq Available(task[p].from.place)
           /\ Goto(p, "select") /\ UNCHANGED <<stores, lease, lock, bindings>>
  <2>1. "select" \in Steps
    BY DEF Steps, Ingesting, Locking
  <2>2. task'[p].pc = "select" /\ Alike(task[p], task'[p])
    BY <1>1, <1>3, <2>1, Looking
  <2>3. lock = p /\ Loose(task[p])
    BY <1>1 DEF Good, Holds, Locking, Loose
  <2>4. Roles(p)' /\ Holds(p)' /\ Carries(p)'
    BY <1>1, <1>3, <2>2, <2>3
    DEF Good, Roles, Holds, Carries, OverSource, Ingesting, Locking, Recovering, Alike
  <2>5. Stays(p)'
    BY <1>3, <2>2, <2>3 DEF Stays, Alike, Bound, Available, stores
  <2> QED
    BY <1>1, <1>3, <2>1, <2>3, <2>4, <2>5, Looking DEF Good
<1> QED
  BY <1>2, <1>3 DEF ValidateStage

LEMMA SelectGardenStep ==
    ASSUME VaultInv, NEW p \in Clerk, SelectGarden(p), Strays(p), decayed' = decayed
    PROVE  VaultInv'
<1> DEFINE place == task[p].from.place
<1>1. /\ p \in Proc /\ TypeOK /\ Good(p) /\ task[p].pc = "select"
      /\ place \in Place
  BY DEF Proc, VaultInv, SelectGarden, TypeOK, TasksOK, IsTask, Bindings
<1>2. /\ Return(p) /\ UNCHANGED <<vault, backup, bindings>>
      /\ garden' = IF garden = task[p].before THEN WithFiles(garden, task[p].files) ELSE garden
  BY DEF SelectGarden
<1>3. lock = p /\ Loose(task[p])
  BY <1>1 DEF Good, Holds, Locking, Loose
<1>4. Good(p)' /\ ~ Loose(task'[p])
  BY <1>1, <1>2, Returning, IdleIsGood
<1>5. TypeOK'
  BY <1>1, <1>2, Returning DEF TypeOK
<1>6. Beside(p)
  BY <1>1, <1>2, <1>3, <1>4, <1>5, Returning DEF Beside, Bound
<1>7. ReferencesResolve'
  <2>1. CASE garden' = garden
    <3>1. strayed' = strayed
      BY <2>1 DEF Strays
    <3> QED
      BY <2>1, <3>1, <1>2, <1>6, StillResolves DEF Bound
  <2>2. CASE garden' = WithFiles(garden, task[p].files) /\ garden' # garden
    <3>1. ~ decayed => References(garden') \subseteq Available(place)
      BY <2>2, <1>1 DEF Good, Stays
    <3>2. \A b \in strayed : ~ decayed => \E q \in Place : b \in Available(q)
      BY DEF VaultInv, ReferencesResolve
    <3>3. CASE place = Bound
      <4>1. strayed' = strayed
        BY <3>3 DEF Strays
      <4> QED
        BY <3>1, <3>2, <3>3, <4>1, <1>2 DEF ReferencesResolve, Available, Bound
    <3>4. CASE place # Bound
      <4>1. strayed' = strayed \cup (References(garden') \ Available(Bound))
        BY <2>2, <3>4 DEF Strays
      <4>2. ~ decayed => \A b \in strayed' : \E q \in Place : b \in Available(q)
        BY <3>1, <3>2, <4>1, <1>1
      <4> QED
        BY <4>1, <4>2, <1>2 DEF ReferencesResolve, Available, Bound
    <3> QED
      BY <3>3, <3>4
  <2> QED
    BY <1>2, <2>1, <2>2
<1> QED
  BY <1>1, <1>4, <1>6, <1>7, OwnStep

(***************************************************************************)
(* Vault recovery.                                                         *)
(***************************************************************************)
LEMMA StartInitStep ==
    ASSUME VaultInv, NEW p \in Keeper, StartInit(p), UNCHANGED <<decayed, strayed>>
    PROVE  VaultInv'
<1> DEFINE t == [Idle EXCEPT !.pc = "manifest", !.dest = Bound]
<1>1. p \in Proc /\ TypeOK /\ Bound \in Place
  BY DEF Proc, VaultInv, TypeOK, Bindings, Bound
<1>2. /\ lease[Bound] = Free /\ Clean(vault[Bound])
      /\ lease' = [lease EXCEPT ![Bound] = p]
      /\ vault' = [vault EXCEPT ![Bound] = Begun(@)]
      /\ task' = [task EXCEPT ![p] = t]
      /\ UNCHANGED <<garden, backup, lock, bindings>>
  BY DEF StartInit
<1>3. IsTask(t) /\ t.pc = "manifest" /\ t.op = "none" /\ t.dest = Bound
  BY <1>1, HomeIsAPlace DEF IsTask, Idle, Steps, Bindings
<1> HIDE DEF t
<1>4. TasksOK' /\ task'[p] = t /\ \A q \in Proc \ {p} : task'[q] = task[q]
  BY <1>1, <1>2, <1>3, Becoming DEF TypeOK
<1>5. lease'[Bound] = p
  BY <1>1, <1>2 DEF TypeOK
<1>6. Good(p)' /\ ~ Loose(task'[p])
  BY <1>3, <1>4, <1>5
  DEF Good, Roles, Holds, Stays, Carries, Loose, OverSource, Ingesting, Locking, Recovering
<1>7. vault[Bound] \in Vault /\ Begun(vault[Bound]) \in Vault
  BY <1>1, VaultSteps DEF TypeOK
<1>8. TypeOK'
  BY <1>1, <1>2, <1>4, <1>7 DEF TypeOK
<1>9. \A q \in Place : Held(vault[q]) \subseteq Held(vault'[q])
  <2>1. Held(vault[Bound]) = {}
    BY <1>2, <1>7, NothingTaken
  <2> QED
    BY <1>1, <1>2, <2>1 DEF TypeOK
<1>10. \A q \in Place : lease[q] \in Proc \ {p} => lease'[q] = lease[q] /\ vault'[q] = vault[q]
  BY <1>1, <1>2, ProcessesAssumption DEF TypeOK
<1>11. Beside(p)
  BY <1>2, <1>4, <1>6, <1>8, <1>9, <1>10 DEF Beside, Bound
<1> QED
  BY <1>1, <1>2, <1>6, <1>11, OwnStep, StillResolves DEF Bound

\* An invocation that ends with a last change to a vault it has the lease of.
LEMMA LastWrite ==
    ASSUME VaultInv, NEW p \in Proc, NEW place \in Place, lease[place] = p,
           NEW v \in Vault, Held(vault[place]) \subseteq Held(v),
           vault' = [vault EXCEPT ![place] = v], Return(p),
           UNCHANGED <<garden, bindings>>, UNCHANGED <<decayed, strayed>>
    PROVE  VaultInv'
<1>1. TypeOK
  BY DEF VaultInv
<1>2. Good(p)' /\ ~ Loose(task'[p])
  BY <1>1, Returning, IdleIsGood
<1>3. TypeOK'
  BY <1>1, Returning DEF TypeOK
<1>4. \A q \in Place : Held(vault[q]) \subseteq Held(vault'[q])
  BY <1>1 DEF TypeOK
<1>5. \A q \in Place : lease[q] \in Proc \ {p} => lease'[q] = lease[q] /\ vault'[q] = vault[q]
  BY <1>1, Returning DEF TypeOK
<1>6. Beside(p)
  BY <1>1, <1>2, <1>3, <1>4, <1>5, Returning DEF Beside, Bound
<1> QED
  BY <1>2, <1>6, OwnStep, StillResolves DEF Bound

LEMMA WriteManifestStep ==
    ASSUME VaultInv, NEW p \in Keeper, WriteManifest(p), UNCHANGED <<decayed, strayed>>
    PROVE  VaultInv'
<1> DEFINE place == task[p].dest
<1>1. /\ p \in Proc /\ TypeOK /\ Good(p) /\ task[p].pc = "manifest"
      /\ IsTask(task[p])
  BY DEF Proc, VaultInv, WriteManifest, TypeOK, TasksOK
<1>2. place \in Place /\ lease[place] = p /\ vault[place] \in Vault
  BY <1>1 DEF Good, Holds, IsTask, TypeOK
<1>3. /\ Initialized(vault[place]) \in Vault
      /\ Held(vault[place]) \subseteq Held(Initialized(vault[place]))
  BY <1>2, VaultSteps, NothingTaken
<1>4. /\ vault' = [vault EXCEPT ![place] = Initialized(vault[place])]
      /\ Return(p) /\ UNCHANGED <<garden, bindings>>
  BY DEF WriteManifest
<1> HIDE DEF place
<1> QED
  BY <1>1, <1>2, <1>3, <1>4, LastWrite

LEMMA PlanRecoveryStep ==
    ASSUME VaultInv, NEW p \in Keeper, NEW op \in {"export", "restore", "relocate"},
           NEW dest \in Place, PlanRecovery(p, op, dest), UNCHANGED <<decayed, strayed>>
    PROVE  VaultInv'
<1>1. p \in Proc /\ TypeOK
  BY DEF Proc, VaultInv
<1>2. PICK bundle :
          /\ References(garden) \subseteq bundle
          /\ task' = [task EXCEPT ![p] = [Idle EXCEPT
                        !.pc = IF op = "restore" THEN "revise" ELSE "begin", !.op = op,
                        !.dest = dest, !.bundle = bundle, !.from = bindings,
                        !.before = garden]]
  BY DEF PlanRecovery
<1> DEFINE t == [Idle EXCEPT
                   !.pc = IF op = "restore" THEN "revise" ELSE "begin", !.op = op,
                   !.dest = dest, !.bundle = bundle, !.from = bindings, !.before = garden]
<1>3. UNCHANGED <<stores, lease, bindings, lock>>
  BY DEF PlanRecovery
<1>4. /\ IsTask(t) /\ t.pc = (IF op = "restore" THEN "revise" ELSE "begin")
      /\ t.op = op /\ t.bundle = bundle /\ t.before = garden
  BY <1>1 DEF IsTask, Idle, Steps, Recovering, TypeOK
<1>5. task' = [task EXCEPT ![p] = t]
  BY <1>2
<1> HIDE DEF t
<1>6. TasksOK' /\ task'[p] = t /\ \A q \in Proc \ {p} : task'[q] = task[q]
  BY <1>1, <1>4, <1>5, Becoming DEF TypeOK
<1>7. Good(p)' /\ ~ Loose(task'[p])
  BY <1>2, <1>4, <1>6
  DEF Good, Roles, Holds, Stays, Carries, Loose, OverSource, Ingesting, Locking, Recovering
<1> QED
  BY <1>1, <1>3, <1>6, <1>7, Thinking DEF stores

LEMMA VerifyRecoveryStep ==
    ASSUME VaultInv, NEW p \in Keeper, VerifyRecovery(p), UNCHANGED <<decayed, strayed>>
    PROVE  VaultInv'
<1>1. p \in Proc /\ TypeOK /\ Good(p) /\ task[p].pc \in {"begin", "revise"}
  BY DEF Proc, VaultInv, VerifyRecovery
<1>2. CASE Fail(p)
  BY <1>1, <1>2, Failing
<1> DEFINE next == IF task[p].pc = "begin" THEN "lease" ELSE "receive"
<1>3. CASE Goto(p, next) /\ UNCHANGED <<stores, lease, lock, bindings>>
  <2>1. next \in Steps
    BY DEF Steps, Recovering
  <2>2. task'[p].pc = next /\ Alike(task[p], task'[p])
    BY <1>1, <1>3, <2>1, Looking
  <2>3. Good(p)' /\ ~ Loose(task'[p])
    BY <1>1, <1>3, <2>2
    DEF Good, Roles, Holds, Stays, Carries, Loose, OverSource, Ingesting, Locking, Recovering,
        Alike
  <2> QED
    BY <1>1, <1>3, <2>1, <2>3, Looking
<1> QED
  BY <1>2, <1>3 DEF VerifyRecovery

LEMMA LeaseSourceStep ==
    ASSUME VaultInv, NEW p \in Keeper, LeaseSource(p), UNCHANGED <<decayed, strayed>>
    PROVE  VaultInv'
<1> DEFINE place == task[p].from.place
           next == IF task[p].op = "export" THEN "pack" ELSE "receive"
<1>1. /\ p \in Proc /\ TypeOK /\ Good(p) /\ task[p].pc = "lease"
      /\ place \in Place
  BY DEF Proc, VaultInv, LeaseSource, TypeOK, TasksOK, IsTask, Bindings
<1>2. CASE Fail(p)
  BY <1>1, <1>2, Failing
<1>3. CASE /\ lease[place] = Free /\ Available(place) = task[p].bundle
           /\ lease' = [lease EXCEPT ![place] = p]
           /\ Goto(p, next) /\ UNCHANGED <<stores, lock, bindings>>
  <2>1. task[p].op \in {"export", "relocate"}
    BY <1>1 DEF Good, Roles
  <2>2. /\ TasksOK' /\ \A q \in Proc \ {p} : task'[q] = task[q]
        /\ task'[p].pc = next /\ Alike(task[p], task'[p])
    BY <1>1, <1>3, Going DEF TypeOK, Steps, Recovering
  <2>3. lease'[place] = p
    BY <1>1, <1>3 DEF TypeOK
  <2>4. Roles(p)' /\ Holds(p)' /\ Stays(p)' /\ ~ Loose(task'[p])
    BY <1>1, <1>3, <2>1, <2>2, <2>3
    DEF Good, Roles, Holds, Stays, Loose, OverSource, Ingesting, Locking, Recovering, Alike
  <2>5. Carries(p)'
    BY <1>3, <2>2 DEF Carries, Alike, Available, stores
  <2>6. TypeOK'
    BY <1>1, <1>3, <2>2 DEF TypeOK, stores
  <2>7. \A q \in Place : lease[q] \in Proc \ {p} => lease'[q] = lease[q]
    BY <1>1, <1>3, ProcessesAssumption DEF TypeOK
  <2>8. Beside(p)
    BY <1>3, <2>2, <2>4, <2>6, <2>7 DEF Beside, Bound, stores
  <2> QED
    BY <1>1, <1>3, <2>4, <2>5, <2>8, OwnStep, StillResolves DEF Bound, stores, Good
<1> QED
  BY <1>2, <1>3 DEF LeaseSource

\* An ingestion that no lease keeps back has the garden lock.
LEMMA LooseIsLocked ==
    ASSUME VaultInv, NEW p \in Proc, Loose(task[p])
    PROVE  lock = p
  BY DEF VaultInv, Good, Holds, Loose, Locking

LEMMA PackBackupStep ==
    ASSUME VaultInv, NEW p \in Keeper, PackBackup(p), UNCHANGED <<decayed, strayed>>
    PROVE  VaultInv'
<1>1. p \in Proc /\ TypeOK /\ Good(p) /\ task[p].pc = "pack"
  BY DEF Proc, VaultInv, PackBackup
<1>2. CASE Fail(p)
  BY <1>1, <1>2, Failing
<1>3. CASE Unchanged(p) /\ Goto(p, "name") /\ UNCHANGED <<stores, lease, lock, bindings>>
  <2>1. /\ "name" \in Steps
        /\ TasksOK' /\ \A q \in Proc \ {p} : task'[q] = task[q]
        /\ task'[p].pc = "name" /\ Alike(task[p], task'[p])
    BY <1>1, <1>3, Going DEF TypeOK, Steps, Recovering
  <2>2. Roles(p)' /\ Holds(p)' /\ Stays(p)' /\ ~ Loose(task'[p])
    BY <1>1, <1>3, <2>1
    DEF Good, Roles, Holds, Stays, Loose, OverSource, Ingesting, Locking, Recovering, Alike
  <2>3. \A q \in Proc : ~ Loose(task'[q])
    BY <1>3, <2>1, <2>2, LooseIsLocked, ProcessesAssumption DEF Unchanged
  <2>4. Available(task[p].from.place) \subseteq task[p].bundle
    BY <1>1 DEF Good, Carries, OverSource
  <2>5. Carries(p)'
    BY <1>3, <2>1, <2>3, <2>4, StaysLoose
    DEF Carries, Alike, Available, stores, Bound, Unchanged
  <2> QED
    BY <1>1, <1>3, <2>1, <2>2, <2>5, Looking DEF Good
<1> QED
  BY <1>2, <1>3 DEF PackBackup

LEMMA NameBackupStep ==
    ASSUME VaultInv, NEW p \in Keeper, NameBackup(p), UNCHANGED <<decayed, strayed>>
    PROVE  VaultInv'
<1>1. p \in Proc /\ TypeOK /\ Return(p) /\ UNCHANGED <<vault, garden, bindings>>
  BY DEF Proc, VaultInv, NameBackup
<1>2. Good(p)' /\ ~ Loose(task'[p])
  BY <1>1, Returning, IdleIsGood
<1>3. TypeOK'
  BY <1>1, Returning DEF TypeOK
<1>4. Beside(p)
  BY <1>1, <1>2, <1>3, Returning DEF Beside, Bound
<1> QED
  BY <1>1, <1>2, <1>4, OwnStep, StillResolves DEF Bound

LEMMA ReceiveBundleStep ==
    ASSUME VaultInv, NEW p \in Keeper, ReceiveBundle(p), UNCHANGED <<decayed, strayed>>
    PROVE  VaultInv'
<1> DEFINE dest == task[p].dest
<1>1. /\ p \in Proc /\ TypeOK /\ Good(p) /\ task[p].pc = "receive" /\ dest \in Place
  BY DEF Proc, VaultInv, ReceiveBundle, TypeOK, TasksOK, IsTask
<1>2. task[p].op = "relocate" => lease[task[p].from.place] = p
  BY <1>1 DEF Good, Holds, OverSource
<1>3. CASE Fail(p)
  BY <1>1, <1>3, Failing
<1>4. CASE /\ lease[dest] = Free /\ Clean(vault[dest])
           /\ lease' = [lease EXCEPT ![dest] = p]
           /\ Goto(p, "place") /\ UNCHANGED <<stores, lock, bindings>>
  <2>1. /\ TasksOK' /\ \A q \in Proc \ {p} : task'[q] = task[q]
        /\ task'[p].pc = "place" /\ Alike(task[p], task'[p])
    BY <1>1, <1>4, Going DEF TypeOK, Steps, Recovering
  <2>2. task[p].op = "relocate" => dest # task[p].from.place
    BY <1>1, <1>2, <1>4, ProcessesAssumption
  <2>3. lease'[dest] = p /\ \A q \in Place \ {dest} : lease'[q] = lease[q]
    BY <1>1, <1>4 DEF TypeOK
  <2>4. task[p].op = "relocate" => lease'[task[p].from.place] = p
    BY <1>1, <1>2, <1>4, <2>2 DEF TypeOK
  <2>5. Roles(p)' /\ Stays(p)' /\ ~ Loose(task'[p])
    BY <1>1, <2>1
    DEF Good, Roles, Stays, Loose, OverSource, Ingesting, Locking, Recovering, Alike
  <2>6. Holds(p)'
    BY <1>4, <2>1, <2>2, <2>3, <2>4 DEF Holds, OverSource, Alike, stores, Locking
  <2>7. Carries(p)'
    BY <1>1, <1>4, <2>1 DEF Good, Carries, OverSource, Alike, Available, stores
  <2>8. TypeOK'
    BY <1>1, <1>4, <2>1 DEF TypeOK, stores
  <2>9. \A q \in Place : lease[q] \in Proc \ {p} => lease'[q] = lease[q]
    BY <1>1, <1>4, <2>3, ProcessesAssumption
  <2>10. Beside(p)
    BY <1>4, <2>1, <2>5, <2>8, <2>9 DEF Beside, Bound, stores
  <2> QED
    BY <1>1, <1>4, <2>5, <2>6, <2>7, <2>10, OwnStep, StillResolves DEF Bound, stores, Good
<1>5. CASE /\ lease[dest] = Free /\ task[p].op # "restore"
           /\ Goto(p, "reopen") /\ UNCHANGED <<stores, lease, lock, bindings>>
  <2>1. "reopen" \in Steps
    BY DEF Steps, Recovering
  <2>2. task'[p].pc = "reopen" /\ Alike(task[p], task'[p])
    BY <1>1, <1>5, <2>1, Looking
  <2>3. task[p].op = "relocate"
    BY <1>1, <1>5 DEF Good, Roles
  <2>4. dest # task[p].from.place
    BY <1>1, <1>2, <1>5, <2>3, ProcessesAssumption
  <2>5. Roles(p)' /\ Holds(p)' /\ Stays(p)' /\ ~ Loose(task'[p])
    BY <1>1, <1>2, <1>5, <2>2, <2>3, <2>4
    DEF Good, Roles, Holds, Stays, Loose, OverSource, Ingesting, Locking, Recovering, Alike
  <2>6. Carries(p)'
    BY <1>1, <1>5, <2>2, <2>3 DEF Good, Carries, OverSource, Alike, Available, stores
  <2> QED
    BY <1>1, <1>5, <2>1, <2>5, <2>6, Looking DEF Good
<1> QED
  BY <1>3, <1>4, <1>5 DEF ReceiveBundle

LEMMA PlaceVaultStep ==
    ASSUME VaultInv, NEW p \in Keeper, PlaceVault(p), UNCHANGED <<decayed, strayed>>
    PROVE  VaultInv'
<1> DEFINE dest == task[p].dest
           v == Restored(task[p].bundle)
<1>1. /\ p \in Proc /\ TypeOK /\ Good(p) /\ task[p].pc = "place" /\ dest \in Place
  BY DEF Proc, VaultInv, PlaceVault, TypeOK, TasksOK, IsTask
<1>2. lease[dest] = p /\ Clean(vault[dest]) /\ vault[dest] \in Vault
  BY <1>1 DEF Good, Holds, TypeOK
<1>3. v \in Vault /\ Held(vault[dest]) \subseteq Held(v)
  BY <1>2, VaultSteps, NothingTaken
<1>4. vault' = [vault EXCEPT ![dest] = v] /\ UNCHANGED <<garden, backup, bindings>>
  BY DEF PlaceVault
<1>5. CASE Return(p)
  <2> HIDE DEF v, dest
  <2> QED
    BY <1>1, <1>2, <1>3, <1>4, <1>5, LastWrite
<1>6. CASE /\ task[p].op # "restore" /\ lease' = [lease EXCEPT ![dest] = Free]
           /\ Goto(p, "reopen") /\ UNCHANGED lock
  <2>1. /\ TasksOK' /\ \A q \in Proc \ {p} : task'[q] = task[q]
        /\ task'[p].pc = "reopen" /\ Alike(task[p], task'[p])
    BY <1>1, <1>6, Going DEF TypeOK, Steps, Recovering
  <2>2. /\ task[p].op = "relocate" /\ dest # task[p].from.place
        /\ lease[task[p].from.place] = p
        /\ Available(task[p].from.place) \subseteq task[p].bundle
    BY <1>1, <1>6 DEF Good, Roles, Holds, Carries, OverSource
  <2>3. /\ lease'[task[p].from.place] = p
        /\ vault'[task[p].from.place] = vault[task[p].from.place]
    BY <1>1, <1>4, <1>6, <2>2 DEF TypeOK
  <2>4. Roles(p)' /\ Stays(p)' /\ ~ Loose(task'[p])
    BY <1>1, <2>1, <2>2
    DEF Good, Roles, Stays, Loose, Ingesting, Locking, Recovering, Alike
  <2>5. Holds(p)'
    BY <2>1, <2>2, <2>3 DEF Holds, Alike, Locking
  <2>6. Carries(p)'
    BY <2>1, <2>2, <2>3 DEF Carries, Alike, Available
  <2>7. TypeOK'
    BY <1>1, <1>3, <1>4, <1>6, <2>1 DEF TypeOK
  <2>8. \A q \in Place : Held(vault[q]) \subseteq Held(vault'[q])
    BY <1>1, <1>3, <1>4 DEF TypeOK
  <2>9. \A q \in Place : lease[q] \in Proc \ {p} => lease'[q] = lease[q] /\ vault'[q] = vault[q]
    BY <1>1, <1>2, <1>4, <1>6 DEF TypeOK
  <2>10. Beside(p)
    BY <1>4, <1>6, <2>1, <2>4, <2>7, <2>8, <2>9 DEF Beside, Bound
  <2> QED
    BY <1>1, <1>4, <2>4, <2>5, <2>6, <2>10, OwnStep, StillResolves DEF Bound, Good
<1> QED
  BY <1>5, <1>6 DEF PlaceVault

LEMMA ReopenTargetStep ==
    ASSUME VaultInv, NEW p \in Keeper, ReopenTarget(p), UNCHANGED <<decayed, strayed>>
    PROVE  VaultInv'
<1>1. p \in Proc /\ TypeOK /\ Good(p) /\ task[p].pc = "reopen"
  BY DEF Proc, VaultInv, ReopenTarget
<1>2. CASE Fail(p)
  BY <1>1, <1>2, Failing
<1>3. CASE /\ Available(task[p].dest) = task[p].bundle /\ Unchanged(p)
           /\ Goto(p, "rebind") /\ UNCHANGED <<stores, lease, lock, bindings>>
  <2>1. /\ "rebind" \in Steps
        /\ TasksOK' /\ \A q \in Proc \ {p} : task'[q] = task[q]
        /\ task'[p].pc = "rebind" /\ Alike(task[p], task'[p])
    BY <1>1, <1>3, Going DEF TypeOK, Steps, Recovering
  <2>2. Roles(p)' /\ Holds(p)' /\ Stays(p)' /\ ~ Loose(task'[p])
    BY <1>1, <1>3, <2>1
    DEF Good, Roles, Holds, Stays, Loose, OverSource, Ingesting, Locking, Recovering, Alike
  <2>3. \A q \in Proc : ~ Loose(task'[q])
    BY <1>3, <2>1, <2>2, LooseIsLocked, ProcessesAssumption DEF Unchanged
  <2>4. Available(task[p].from.place) \subseteq task[p].bundle
    BY <1>1 DEF Good, Carries, OverSource
  <2>5. Carries(p)'
    BY <1>3, <2>1, <2>3, <2>4, StaysLoose
    DEF Carries, Alike, Available, stores, Bound, Unchanged
  <2> QED
    BY <1>1, <1>3, <2>1, <2>2, <2>5, Looking DEF Good
<1> QED
  BY <1>2, <1>3 DEF ReopenTarget

\* What a relocation finds when it moves the bindings.
LEMMA Delivered ==
    ASSUME VaultInv, NEW p \in Proc, task[p].pc = "rebind"
    PROVE  /\ Bound = task[p].from.place /\ lease[Bound] = p
           /\ Available(Bound) \subseteq task[p].bundle
           /\ References(garden) \subseteq task[p].bundle
           /\ ~ decayed => task[p].bundle \subseteq Available(task[p].dest)
<1>1. Good(p)
  BY DEF VaultInv
<1> QED
  BY <1>1 DEF Good, Roles, Holds, Carries, OverSource, Recovering

LEMMA RebindVaultStep ==
    ASSUME VaultInv, NEW p \in Keeper, RebindVault(p), UNCHANGED <<decayed, strayed>>
    PROVE  VaultInv'
<1>1. /\ p \in Proc /\ TypeOK /\ task[p].pc = "rebind" /\ IsTask(task[p])
  BY DEF Proc, VaultInv, RebindVault, TypeOK, TasksOK
<1>2. /\ bindings' = Rebound(p) /\ Return(p)
      /\ UNCHANGED <<vault, garden>>
  BY DEF RebindVault, stores
<1>3. bindings'.place = task[p].dest /\ bindings' \in Bindings
  BY <1>1, <1>2 DEF Rebound, IsTask, Bindings
<1>4. Good(p)' /\ ~ Loose(task'[p])
  BY <1>1, <1>2, Returning, IdleIsGood
<1>5. TypeOK'
  BY <1>1, <1>2, <1>3, Returning DEF TypeOK
<1>6. Beside(p)
  BY <1>1, <1>2, <1>4, <1>5, Returning, Delivered DEF Beside
<1>7. ReferencesResolve'
  <2>1. ~ decayed => References(garden) \subseteq Available(task[p].dest)
    BY <1>1, Delivered
  <2> QED
    BY <2>1, <1>2, <1>3 DEF VaultInv, ReferencesResolve, Available, Bound
<1> QED
  BY <1>1, <1>4, <1>6, <1>7, OwnStep

(***************************************************************************)
(* Kills, decay and the owner.                                             *)
(***************************************************************************)
LEMMA KillStep ==
    ASSUME VaultInv, NEW p \in Proc, Kill(p), strayed' = strayed
    PROVE  VaultInv'
<1>1. /\ TypeOK /\ UNCHANGED <<vault, garden, bindings, decayed>>
      /\ lock' = IF lock = p THEN "left" ELSE lock
  BY DEF VaultInv, Kill, stores
<1>2. TasksOK' /\ task'[p] = Idle /\ \A q \in Proc \ {p} : task'[q] = task[q]
  BY <1>1, Becoming, IdleIsTask DEF TypeOK, Kill
<1>3. /\ lease' \in [Place -> Proc \cup {Free}]
      /\ \A place \in Place : lease[place] # p => lease'[place] = lease[place]
  BY <1>1 DEF TypeOK, Kill
<1>4. Good(p)' /\ ~ Loose(task'[p])
  BY <1>2, IdleIsGood
<1>5. TypeOK'
  BY <1>1, <1>2, <1>3 DEF TypeOK
<1>6. Beside(p)
  BY <1>1, <1>2, <1>3, <1>4, <1>5 DEF Beside, Bound
<1> QED
  BY <1>1, <1>4, <1>6, OwnStep, StillResolves DEF Bound

\* A step of nobody who is in the midst of an invocation.
LEMMA OwnersStep ==
    ASSUME VaultInv, TypeOK', UNCHANGED <<task, lease, garden, decayed, strayed>>,
           bindings'.place = Bound, lock \in Proc => lock' = lock,
           \A place \in Place : Held(vault[place]) \subseteq Held(vault'[place]),
           \A place \in Place : lease[place] \in Proc => vault'[place] = vault[place]
    PROVE  VaultInv'
<1>1. Beside("left")
  BY ProcessesAssumption DEF Beside
<1>2. \A p \in Proc : Good(p)'
  BY <1>1, Undisturbed, ProcessesAssumption
<1>3. ReferencesResolve'
  BY <1>1, StillResolves
<1> QED
  BY <1>2, <1>3 DEF VaultInv

LEMMA TidyStep ==
    ASSUME VaultInv, Tidy, UNCHANGED <<decayed, strayed>>
    PROVE  VaultInv'
<1>1. TypeOK /\ UNCHANGED <<lease, bindings, garden, backup, task>>
  BY DEF VaultInv, Tidy
<1>2. CASE lock = "left" /\ lock' = Free /\ UNCHANGED vault
  <2>1. TypeOK'
    BY <1>1, <1>2 DEF TypeOK, TasksOK
  <2> QED
    BY <1>1, <1>2, <2>1, OwnersStep, ProcessesAssumption DEF Bound
<1>3. ASSUME NEW place \in Place, lease[place] = Free,
             vault' = [vault EXCEPT ![place] =
                         IF @.manifest = "torn" THEN Nowhere ELSE Unstaged(@)],
             UNCHANGED lock
      PROVE  VaultInv'
  <2> DEFINE v == IF vault[place].manifest = "torn" THEN Nowhere ELSE Unstaged(vault[place])
  <2>1. vault[place] \in Vault /\ v \in Vault
    BY <1>1, VaultSteps DEF TypeOK
  <2>2. Held(vault[place]) \subseteq Held(v)
    BY <2>1, NothingTaken
  <2>3. vault' = [vault EXCEPT ![place] = v]
    BY <1>3
  <2> HIDE DEF v
  <2>4. TypeOK'
    BY <1>1, <1>3, <2>1, <2>3 DEF TypeOK, TasksOK
  <2>5. \A q \in Place : Held(vault[q]) \subseteq Held(vault'[q])
    BY <1>1, <2>2, <2>3 DEF TypeOK
  <2>6. \A q \in Place : lease[q] \in Proc => vault'[q] = vault[q]
    BY <1>1, <1>3, <2>3, ProcessesAssumption DEF TypeOK
  <2> QED
    BY <1>1, <1>3, <2>4, <2>5, <2>6, OwnersStep DEF Bound
<1> QED
  BY <1>2, <1>3 DEF Tidy

LEMMA EditBindingsStep ==
    ASSUME VaultInv, EditBindings, strayed' = strayed
    PROVE  VaultInv'
<1>1. TypeOK /\ UNCHANGED <<vault, garden, lease, lock, task, decayed>>
  BY DEF VaultInv, EditBindings, stores
<1>2. bindings'.place = Bound /\ bindings' \in Bindings
  BY <1>1 DEF EditBindings, TypeOK, Bindings, Bound
<1>3. TypeOK'
  BY <1>1, <1>2 DEF TypeOK, TasksOK
<1> QED
  BY <1>1, <1>2, <1>3, OwnersStep

\* Decay takes objects from vaults, none of them from one that is being received.
LEMMA DecayStep ==
    ASSUME VaultInv, Decay
    PROVE  VaultInv'
<1>1. TypeOK /\ decayed' = TRUE /\ UNCHANGED <<lease, bindings, garden, lock, task>>
  BY DEF VaultInv, Decay
<1>2. /\ vault' \in [Place -> Vault]
      /\ \A place \in Place : Held(vault'[place]) \subseteq Held(vault[place])
      /\ \A place \in Place :
            lease[place] \in Proc /\ Clean(vault[place]) => Clean(vault'[place])
  <2>1. ASSUME NEW place \in Place, NEW found \in {"absent", "bad"},
               NEW b \in Available(place),
               vault' = [vault EXCEPT ![place].objects[b] = found]
        PROVE  <1>2
    <3> DEFINE v == [vault[place] EXCEPT !.objects[b] = found]
    <3>1. vault[place] \in Vault /\ v \in Vault
      BY <1>1 DEF TypeOK, Vault, Found
    <3>2. vault' = [vault EXCEPT ![place] = v]
      BY <2>1
    <3>3. Held(v) \subseteq Held(vault[place])
      BY <3>1, HeldIs DEF Vault
    <3>4. ~ Clean(vault[place])
      BY <3>1, NothingTaken DEF Available
    <3> HIDE DEF v
    <3>5. vault' \in [Place -> Vault]
      BY <1>1, <3>1, <3>2 DEF TypeOK
    <3>6. \A q \in Place : vault'[q] = IF q = place THEN v ELSE vault[q]
      BY <1>1, <3>2 DEF TypeOK
    <3> QED
      BY <3>3, <3>4, <3>5, <3>6
  <2>2. ASSUME NEW place \in Place, lease[place] = Free,
               vault' = [vault EXCEPT ![place] = Nowhere]
        PROVE  <1>2
    <3>1. vault[place] \in Vault /\ Nowhere \in Vault /\ Held(Nowhere) = {}
      BY <1>1, VaultSteps, HeldIs DEF TypeOK, Nowhere
    <3>2. vault' \in [Place -> Vault]
      BY <1>1, <2>2, <3>1 DEF TypeOK
    <3>3. \A q \in Place : vault'[q] = IF q = place THEN Nowhere ELSE vault[q]
      BY <1>1, <2>2 DEF TypeOK
    <3> QED
      BY <2>2, <3>1, <3>2, <3>3, ProcessesAssumption
  <2>3. CASE UNCHANGED vault
    BY <2>3, <1>1 DEF TypeOK
  <2> QED
    BY <2>1, <2>2, <2>3 DEF Decay
<1>3. TypeOK'
  BY <1>1, <1>2 DEF TypeOK, TasksOK
<1>4. ASSUME NEW p \in Proc
      PROVE  Good(p)'
  <2>1. Good(p) /\ IsTask(task[p])
    BY <1>1 DEF VaultInv, TypeOK, TasksOK
  <2>2. task[p].from.place \in Place /\ task[p].dest \in Place
    BY <2>1 DEF IsTask, Bindings
  <2>3. Roles(p)'
    BY <1>1, <2>1 DEF Good, Roles
  <2>4. Holds(p)'
    BY <1>1, <1>2, <2>1, <2>2 DEF Good, Holds, OverSource
  <2>5. Stays(p)'
    BY <1>1, <2>1 DEF Good, Stays, Bound
  <2>6. Carries(p)'
    BY <1>1, <1>2, <2>1, <2>2 DEF Good, Carries, OverSource, Loose, Available, Bound
  <2> QED
    BY <2>3, <2>4, <2>5, <2>6 DEF Good
<1>5. ReferencesResolve'
  BY <1>1 DEF ReferencesResolve
<1> QED
  BY <1>3, <1>4, <1>5 DEF VaultInv

(***************************************************************************)
(* The invariant.                                                          *)
(***************************************************************************)
LEMMA VaultStarts ==
    ASSUME Init
    PROVE  VaultInv
<1>1. TypeOK
  <2>1. Nowhere \in Vault
    BY DEF Nowhere, Vault, Manifest, Found
  <2>2. Restored({}) \in Vault
    BY DEF Restored, Vault, Manifest, Found
  <2>3. TasksOK
    BY IdleIsTask DEF Init, TasksOK
  <2> QED
    BY <2>1, <2>2, <2>3, HomeIsAPlace DEF Init, TypeOK, Bindings
<1>2. ASSUME NEW p \in Proc
      PROVE  Good(p)
  <2>1. task[p].pc = "idle" /\ task[p].op = "none"
    BY DEF Init, Idle
  <2> QED
    BY <2>1 DEF Good, Roles, Holds, Stays, Carries, OverSource, Ingesting, Locking, Recovering
<1>3. References(garden) = {}
  BY DEF Init, References
<1>4. strayed = {}
  BY DEF Init
<1> QED
  BY <1>1, <1>2, <1>3, <1>4 DEF VaultInv, ReferencesResolve

LEMMA VaultStep ==
    ASSUME VaultInv, [Next]_vars
    PROVE  VaultInv'
<1>1. ASSUME NEW p \in Clerk, ClerkStep(p), Strays(p), UNCHANGED <<upsets, decayed>>
      PROVE  VaultInv'
  <2>1. SelectGarden(p) \/ garden' = garden
    BY <1>1 DEF ClerkStep, PlanIngestion, LockGarden, VerifyIngestion, PutBlob, LinkBlob,
                UnlinkStaged, ValidateStage, Fail, stores
  <2>2. garden' = garden => strayed' = strayed
    BY <1>1 DEF Strays
  <2> QED
    BY <1>1, <2>1, <2>2, PlanIngestionStep, LockGardenStep, VerifyIngestionStep, PutBlobStep,
       LinkBlobStep, UnlinkStagedStep, ValidateStageStep, SelectGardenStep DEF ClerkStep
<1>2. ASSUME NEW p \in Keeper, KeeperStep(p), UNCHANGED <<upsets, decayed, strayed>>
      PROVE  VaultInv'
  BY <1>2, StartInitStep, WriteManifestStep, PlanRecoveryStep, VerifyRecoveryStep,
     LeaseSourceStep, PackBackupStep, NameBackupStep, ReceiveBundleStep, PlaceVaultStep,
     ReopenTargetStep, RebindVaultStep DEF KeeperStep
<1>3. CASE Tidy /\ UNCHANGED <<upsets, decayed, strayed>>
  BY <1>3, TidyStep
<1>4. CASE ((\E p \in Proc : Kill(p)) \/ Decay \/ EditBindings) /\ UNCHANGED strayed
  BY <1>4, KillStep, DecayStep, EditBindingsStep
<1>5. CASE UNCHANGED vars
  <2>1. TypeOK'
    BY <1>5 DEF vars, VaultInv, TypeOK, TasksOK
  <2> QED
    BY <1>5, <2>1, OwnersStep DEF vars, Bound
<1> QED
  BY <1>1, <1>2, <1>3, <1>4, <1>5 DEF Next

THEOREM VaultInvariant ==
    Spec => []VaultInv
<1>1. Init => VaultInv
  BY VaultStarts
<1>2. VaultInv /\ [Next]_vars => VaultInv'
  BY VaultStep
<1> QED
  BY <1>1, <1>2, PTL DEF Spec

\* As long as nothing has decayed, every content that a record names can be read from
\* the vault that the bindings name, but for what was selected after the bindings had
\* moved under an ingestion: that is still in some place.
THEOREM RecordsResolve ==
    Spec => []ReferencesResolve
<1>1. VaultInv => ReferencesResolve
  BY DEF VaultInv
<1> QED
  BY <1>1, VaultInvariant, PTL

----------------------------------------------------------------------------
(***************************************************************************)
(* Backups and moves.                                                      *)
(***************************************************************************)

\* Only one step names a backup, and only decay damages one.
BackupOK ==
    backup = [there |-> backup.there, whole |-> backup.whole, objects |-> backup.objects]

LEMMA BackupChanges ==
    ASSUME Next
    PROVE  \/ UNCHANGED backup
           \/ \E p \in Keeper : NameBackup(p)
           \/ backup' = [backup EXCEPT !.whole = FALSE]
<1>1. ASSUME NEW p \in Clerk, ClerkStep(p)
      PROVE  UNCHANGED backup
  BY <1>1 DEF ClerkStep, PlanIngestion, LockGarden, VerifyIngestion, PutBlob, LinkBlob,
              UnlinkStaged, ValidateStage, SelectGarden, Fail, stores
<1>2. ASSUME NEW p \in Keeper, KeeperStep(p)
      PROVE  NameBackup(p) \/ UNCHANGED backup
  BY <1>2 DEF KeeperStep, StartInit, WriteManifest, PlanRecovery, VerifyRecovery, LeaseSource,
              PackBackup, ReceiveBundle, PlaceVault, ReopenTarget, RebindVault, Fail, stores
<1>3. CASE Tidy \/ EditBindings \/ \E p \in Proc : Kill(p)
  BY <1>3 DEF Tidy, EditBindings, Kill, stores
<1>4. CASE Decay
  BY <1>4 DEF Decay
<1> QED
  BY <1>1, <1>2, <1>3, <1>4 DEF Next

LEMMA BackupStep ==
    ASSUME BackupOK, [Next]_vars
    PROVE  /\ BackupOK'
           /\ ~ backup.there /\ backup'.there => \E p \in Keeper : NameBackup(p)
<1>1. CASE UNCHANGED backup
  BY <1>1 DEF BackupOK
<1>2. ASSUME NEW p \in Keeper, NameBackup(p)
      PROVE  BackupOK'
  BY <1>2 DEF NameBackup, BackupOK
<1>3. CASE backup' = [backup EXCEPT !.whole = FALSE]
  BY <1>3 DEF BackupOK
<1> QED
  BY <1>1, <1>2, <1>3, BackupChanges DEF vars

\* Only one step moves the bindings.
LEMMA PlaceChanges ==
    ASSUME TypeOK, Next, Bound # bindings'.place
    PROVE  \E p \in Keeper : RebindVault(p)
<1>1. ASSUME NEW p \in Clerk, ClerkStep(p)
      PROVE  UNCHANGED bindings
  BY <1>1 DEF ClerkStep, PlanIngestion, LockGarden, VerifyIngestion, PutBlob, LinkBlob,
              UnlinkStaged, ValidateStage, SelectGarden, Fail
<1>2. ASSUME NEW p \in Keeper, KeeperStep(p)
      PROVE  RebindVault(p) \/ UNCHANGED bindings
  BY <1>2 DEF KeeperStep, StartInit, WriteManifest, PlanRecovery, VerifyRecovery, LeaseSource,
              PackBackup, NameBackup, ReceiveBundle, PlaceVault, ReopenTarget, Fail
<1>3. CASE Tidy \/ Decay \/ \E p \in Proc : Kill(p)
  BY <1>3 DEF Tidy, Decay, Kill, Bound
<1>4. CASE EditBindings
  BY <1>4 DEF EditBindings, TypeOK, Bindings, Bound
<1> QED
  BY <1>1, <1>2, <1>3, <1>4 DEF Next, Bound

\* A backup is whole when it gets its name, and satisfies every record of that moment.
THEOREM BackupsSatisfy ==
    Spec => BackupsCover
<1>1. ASSUME VaultInv, NEW p \in Keeper, NameBackup(p), ~ backup.there
      PROVE  backup'.whole /\ References(garden) \subseteq backup'.objects
  <2>1. p \in Proc /\ Good(p) /\ task[p].pc = "name"
    BY <1>1 DEF VaultInv, NameBackup, Proc
  <2>2. garden = task[p].before /\ References(task[p].before) \subseteq task[p].bundle
    BY <2>1 DEF Good, Roles, Carries, Recovering
  <2>3. backup' = [there |-> TRUE, whole |-> TRUE, objects |-> task[p].bundle]
    BY <1>1 DEF NameBackup
  <2> QED
    BY <2>2, <2>3
<1>2. VaultInv /\ BackupOK /\ [Next]_vars
        => [~ backup.there /\ backup'.there =>
              backup'.whole /\ References(garden) \subseteq backup'.objects]_vars
  BY <1>1, BackupStep
<1>3. Init => BackupOK
  BY DEF Init, NoBackup, BackupOK
<1>4. BackupOK /\ [Next]_vars => BackupOK'
  BY BackupStep
<1> QED
  BY <1>2, <1>3, <1>4, VaultInvariant, PTL DEF Spec, BackupsCover

\* When the bindings move, the new place has all that the old one held, and the old one
\* is left as it was.
THEOREM MovesLoseNothing ==
    Spec => MovesKeepContent
<1>1. ASSUME VaultInv, NEW p \in Keeper, RebindVault(p), ~ decayed
      PROVE  Available(Bound) \subseteq Available(bindings'.place) /\ vault' = vault
  <2>1. p \in Proc /\ task[p].pc = "rebind" /\ IsTask(task[p])
    BY <1>1 DEF VaultInv, TypeOK, TasksOK, RebindVault, Proc
  <2>2. bindings'.place = task[p].dest /\ vault' = vault
    BY <1>1, <2>1 DEF RebindVault, Rebound, IsTask, Bindings, stores
  <2> QED
    BY <1>1, <2>1, <2>2, Delivered
<1>2. VaultInv /\ [Next]_vars
        => [Bound # bindings'.place /\ ~ decayed =>
              /\ Available(Bound) \subseteq Available(bindings'.place)
              /\ vault' = vault]_vars
  BY <1>1, PlaceChanges DEF VaultInv, vars
<1> QED
  BY <1>2, VaultInvariant, PTL DEF Spec, MovesKeepContent

----------------------------------------------------------------------------
(***************************************************************************)
(* Captures.                                                               *)
(***************************************************************************)

\* Identities of artifacts are not names of events.
Artifacts(c) == {CaptureId(c)} \cup {NormalizedId(c, u) : u \in NormalizedUnits(c)}

LEMMA ArtifactNames ==
    ASSUME NEW c, NEW a \in Artifacts(c)
    PROVE  a[1] # "provenance"
  BY DEF Artifacts, CaptureId, NormalizedId

\* An event has the short name, or the long one that ends in its own words.
LEMMA EventNames ==
    ASSUME NEW G, NEW a, NEW c
    PROVE  LET name == <<"provenance", a, c.original>>
           IN  Observation(G, a, c) =
                   IF name \in DOMAIN G /\ G[name] # c
                   THEN <<"provenance", a, c.original, c>> ELSE name
  BY DEF Observation

LEMMA LongNames ==
    ASSUME NEW G, NEW a, NEW c, Len(Observation(G, a, c)) = 4
    PROVE  Observation(G, a, c)[4] = c
<1>1. CASE Observation(G, a, c) = <<"provenance", a, c.original>>
  BY <1>1
<1>2. CASE Observation(G, a, c) = <<"provenance", a, c.original, c>>
  BY <1>2
<1> QED
  BY <1>1, <1>2, EventNames

LEMMA IngestedDomain ==
    ASSUME NEW G, NEW c
    PROVE  /\ DOMAIN IngestedFiles(G, c) =
                 (Artifacts(c) \ DOMAIN G) \cup {Observation(G, a, c) : a \in Artifacts(c)}
           /\ \A i \in DOMAIN IngestedFiles(G, c) : IngestedFiles(G, c)[i] = c
  BY DEF IngestedFiles, Artifacts

\* What is ingested is worded, and so is what a worded garden becomes by it.
LEMMA IngestedWorded ==
    ASSUME NEW G, NEW c
    PROVE  Worded(IngestedFiles(G, c))
<1> SUFFICES ASSUME NEW i \in DOMAIN IngestedFiles(G, c), i[1] = "provenance", Len(i) = 4
             PROVE  i[4] = c
  BY IngestedDomain DEF Worded
<1>1. i \notin Artifacts(c)
  BY ArtifactNames
<1>2. DOMAIN IngestedFiles(G, c) =
          (Artifacts(c) \ DOMAIN G) \cup {Observation(G, a, c) : a \in Artifacts(c)}
  BY IngestedDomain
<1>3. PICK a \in Artifacts(c) : i = Observation(G, a, c)
  BY <1>1, <1>2
<1>4. Len(Observation(G, a, c)) = 4 => Observation(G, a, c)[4] = c
  BY LongNames
<1> QED
  BY <1>3, <1>4

LEMMA UnionWorded ==
    ASSUME NEW G, NEW H, Worded(G), Worded(H)
    PROVE  Worded(WithFiles(G, H))
  BY DEF Worded, WithFiles

\* In a worded garden a capture meets nothing that differs from it.
LEMMA NoConflict ==
    ASSUME NEW G, Worded(G), NEW c, NEW i \in DOMAIN IngestedFiles(G, c) \cap DOMAIN G
    PROVE  G[i] = IngestedFiles(G, c)[i]
<1>0. DOMAIN IngestedFiles(G, c) =
          (Artifacts(c) \ DOMAIN G) \cup {Observation(G, a, c) : a \in Artifacts(c)}
  BY IngestedDomain
<1>1. PICK a \in Artifacts(c) : i = Observation(G, a, c)
  BY <1>0
<1> DEFINE name == <<"provenance", a, c.original>>
<1>2. CASE name \in DOMAIN G /\ G[name] # c
  <2>1. i = <<"provenance", a, c.original, c>>
    BY <1>1, <1>2, EventNames
  <2>2. i[1] = "provenance" /\ Len(i) = 4 /\ i[4] = c
    BY <2>1
  <2>3. G[i] = c
    BY <2>2 DEF Worded
  <2> QED
    BY <2>3, IngestedDomain
<1>3. CASE ~ (name \in DOMAIN G /\ G[name] # c)
  <2>1. i = name
    BY <1>1, <1>3, EventNames
  <2> QED
    BY <1>3, <2>1, IngestedDomain
<1> QED
  BY <1>2, <1>3

\* Repeating a capture adds nothing.
LEMMA Repeated ==
    ASSUME NEW G, NEW c
    PROVE  LET both == WithFiles(G, IngestedFiles(G, c))
           IN  DOMAIN IngestedFiles(both, c) \subseteq DOMAIN both
<1> DEFINE files == IngestedFiles(G, c)
           both == WithFiles(G, files)
<1>1. /\ DOMAIN both = DOMAIN G \cup DOMAIN files
      /\ \A i \in DOMAIN G : both[i] = G[i]
      /\ \A i \in DOMAIN files \ DOMAIN G : both[i] = c
  BY IngestedDomain DEF WithFiles
<1>f. DOMAIN files =
          (Artifacts(c) \ DOMAIN G) \cup {Observation(G, a, c) : a \in Artifacts(c)}
  BY IngestedDomain
<1>2. \A i \in Artifacts(c) : i \in DOMAIN both
  BY <1>1, <1>f
<1>3. ASSUME NEW a \in Artifacts(c)
      PROVE  Observation(both, a, c) \in DOMAIN both
  <2> DEFINE name == <<"provenance", a, c.original>>
  <2>1. Observation(G, a, c) \in DOMAIN files
    BY <1>3, <1>f
  <2> HIDE DEF files, both
  <2>2. CASE name \in DOMAIN G /\ G[name] # c
    <3>1. both[name] = G[name]
      BY <1>1, <2>2
    <3>2. Observation(both, a, c) = Observation(G, a, c)
      BY <1>1, <2>2, <3>1, EventNames
    <3> QED
      BY <1>1, <2>1, <3>2
  <2>3. CASE ~ (name \in DOMAIN G /\ G[name] # c)
    <3>1. Observation(G, a, c) = name
      BY <2>3, EventNames
    <3>2. name \in DOMAIN both /\ both[name] = c
      BY <1>1, <2>1, <2>3, <3>1
    <3>3. Observation(both, a, c) = name
      BY <3>2, EventNames
    <3> QED
      BY <3>2, <3>3
  <2> QED
    BY <2>2, <2>3
<1> HIDE DEF files, both
<1>4. DOMAIN IngestedFiles(both, c) =
          (Artifacts(c) \ DOMAIN both) \cup {Observation(both, a, c) : a \in Artifacts(c)}
  BY IngestedDomain
<1>5. DOMAIN IngestedFiles(both, c) \subseteq DOMAIN both
  BY <1>2, <1>3, <1>4
<1> QED
  BY <1>5 DEF both, files

\* A step of one invocation.
LEMMA Wording ==
    ASSUME WordsInv, NEW p \in Proc, NEW t, Shaped(t), Worded(t.files),
           task' = [task EXCEPT ![p] = t], Worded(garden')
    PROVE  WordsInv'
<1>1. DOMAIN task' = Proc /\ task' = [q \in Proc |-> task'[q]]
  BY DEF WordsInv
<1>2. \A q \in Proc : task'[q] = IF q = p THEN t ELSE task[q]
  BY DEF WordsInv
<1>3. \A q \in Proc : Shaped(task'[q]) /\ Worded(task'[q].files)
  BY <1>2 DEF WordsInv
<1> QED
  BY <1>1, <1>3 DEF WordsInv

LEMMA WordingOn ==
    ASSUME WordsInv, NEW p \in Proc, NEW step, Goto(p, step), garden' = garden
    PROVE  WordsInv'
<1> DEFINE t == [task[p] EXCEPT !.pc = step]
<1>1. Shaped(task[p]) /\ Worded(task[p].files) /\ Worded(garden)
  BY DEF WordsInv
<1>2. Shaped(t) /\ t.files = task[p].files
  BY <1>1 DEF Shaped
<1>3. task' = [task EXCEPT ![p] = t]
  BY DEF Goto
<1> HIDE DEF t
<1> QED
  BY <1>1, <1>2, <1>3, Wording

LEMMA WordingEnds ==
    ASSUME WordsInv, NEW p \in Proc, task' = [task EXCEPT ![p] = Idle], Worded(garden')
    PROVE  WordsInv'
<1>1. Shaped(Idle) /\ Worded(Idle.files)
  BY DEF Idle, Shaped, Worded
<1> QED
  BY <1>1, Wording

LEMMA WordsStep ==
    ASSUME WordsInv, [Next]_vars
    PROVE  WordsInv'
<1>0. Worded(garden) /\ (garden' = garden => Worded(garden'))
  BY DEF WordsInv
<1>e. ASSUME NEW p \in Proc, Fail(p)
      PROVE  WordsInv'
  BY <1>0, <1>e, WordingEnds DEF Fail, Return, stores
<1>1. ASSUME NEW p \in Clerk, NEW c \in Capture, PlanIngestion(p, c)
      PROVE  WordsInv'
  <2> DEFINE t == [Idle EXCEPT !.pc = "lock", !.files = IngestedFiles(garden, c),
                               !.todo = IngestedBlobs(c), !.from = bindings,
                               !.before = garden]
  <2>1. Shaped(t) /\ t.files = IngestedFiles(garden, c)
    BY DEF Shaped, Idle
  <2>2. task' = [task EXCEPT ![p] = t] /\ garden' = garden
    BY <1>1 DEF PlanIngestion, stores
  <2> HIDE DEF t
  <2> QED
    BY <1>0, <2>1, <2>2, IngestedWorded, Wording DEF Proc
<1>2. ASSUME NEW p \in Clerk,
             LockGarden(p) \/ VerifyIngestion(p) \/ LinkBlob(p) \/ ValidateStage(p)
      PROVE  WordsInv'
  BY <1>2, <1>e, WordingOn
  DEF Proc, LockGarden, VerifyIngestion, LinkBlob, ValidateStage, stores
<1>3. ASSUME NEW p \in Clerk, PutBlob(p)
      PROVE  WordsInv'
  <2>1. PICK b : \/ Fail(p)
                 \/ /\ task' = [task EXCEPT ![p] = [task[p] EXCEPT !.todo = @ \ {b}]]
                    /\ garden' = garden
                 \/ /\ task' = [task EXCEPT ![p] =
                                  [task[p] EXCEPT !.pc = "link", !.bundle = {b}]]
                    /\ garden' = garden
    BY <1>3 DEF PutBlob, stores
  <2>2. p \in Proc /\ Shaped(task[p]) /\ Worded(task[p].files)
    BY DEF Proc, WordsInv
  <2>3. ASSUME NEW t, \/ t = [task[p] EXCEPT !.todo = @ \ {b}]
                      \/ t = [task[p] EXCEPT !.pc = "link", !.bundle = {b}]
        PROVE  Shaped(t) /\ Worded(t.files)
    <3>1. Shaped(t) /\ t.files = task[p].files
      BY <2>2, <2>3 DEF Shaped
    <3> QED
      BY <3>1, <2>2
  <2> QED
    BY <1>0, <1>e, <2>1, <2>2, <2>3, Wording
<1>4. ASSUME NEW p \in Clerk, UnlinkStaged(p)
      PROVE  WordsInv'
  <2> DEFINE t == [task[p] EXCEPT !.pc = "put", !.todo = @ \ task[p].bundle]
  <2>1. p \in Proc /\ Shaped(task[p]) /\ Worded(task[p].files)
    BY DEF Proc, WordsInv
  <2>2. Shaped(t) /\ t.files = task[p].files
    BY <2>1 DEF Shaped
  <2>3. task' = [task EXCEPT ![p] = t] /\ garden' = garden
    BY <1>4 DEF UnlinkStaged
  <2> HIDE DEF t
  <2> QED
    BY <1>0, <2>1, <2>2, <2>3, Wording
<1>5. ASSUME NEW p \in Clerk, SelectGarden(p)
      PROVE  WordsInv'
  <2>1. p \in Proc /\ Worded(task[p].files) /\ Worded(garden)
    BY DEF Proc, WordsInv
  <2>2. Worded(garden')
    BY <1>5, <2>1, UnionWorded DEF SelectGarden
  <2> QED
    BY <1>5, <2>1, <2>2, WordingEnds DEF SelectGarden, Return
<1>6. ASSUME NEW p \in Keeper, StartInit(p)
      PROVE  WordsInv'
  <2> DEFINE t == [Idle EXCEPT !.pc = "manifest", !.dest = Bound]
  <2>1. Shaped(t) /\ t.files = <<>>
    BY DEF Shaped, Idle
  <2>2. task' = [task EXCEPT ![p] = t] /\ garden' = garden
    BY <1>6 DEF StartInit
  <2>3. Worded(t.files)
    BY <2>1 DEF Worded
  <2> HIDE DEF t
  <2> QED
    BY <1>0, <2>1, <2>2, <2>3, Wording DEF Proc
<1>7. ASSUME NEW p \in Keeper, NEW op \in {"export", "restore", "relocate"},
             NEW dest \in Place, PlanRecovery(p, op, dest)
      PROVE  WordsInv'
  <2> DEFINE t(bundle) ==
        [Idle EXCEPT !.pc = IF op = "restore" THEN "revise" ELSE "begin", !.op = op,
                     !.dest = dest, !.bundle = bundle, !.from = bindings, !.before = garden]
  <2>1. ASSUME NEW bundle
        PROVE  Shaped(t(bundle)) /\ Worded(t(bundle).files)
    <3>1. Shaped(t(bundle)) /\ t(bundle).files = <<>>
      BY DEF Shaped, Idle
    <3> QED
      BY <3>1 DEF Worded
  <2>2. garden' = garden /\ \E bundle : task' = [task EXCEPT ![p] = t(bundle)]
    BY <1>7 DEF PlanRecovery, stores
  <2> HIDE DEF t
  <2> QED
    BY <1>0, <2>1, <2>2, Wording DEF Proc
<1>8. ASSUME NEW p \in Keeper,
             \/ VerifyRecovery(p) \/ LeaseSource(p) \/ PackBackup(p) \/ ReceiveBundle(p)
             \/ ReopenTarget(p)
      PROVE  WordsInv'
  BY <1>8, <1>e, WordingOn
  DEF Proc, VerifyRecovery, LeaseSource, PackBackup, ReceiveBundle, ReopenTarget, stores
<1>9. ASSUME NEW p \in Keeper, WriteManifest(p) \/ NameBackup(p) \/ RebindVault(p)
      PROVE  WordsInv'
  BY <1>0, <1>9, WordingEnds DEF Proc, WriteManifest, NameBackup, RebindVault, Return, stores
<1>10. ASSUME NEW p \in Keeper, PlaceVault(p)
       PROVE  WordsInv'
  <2>1. CASE Return(p)
    BY <1>0, <1>10, <2>1, WordingEnds DEF Proc, PlaceVault, Return
  <2>2. CASE Goto(p, "reopen")
    BY <1>10, <2>2, WordingOn DEF Proc, PlaceVault
  <2> QED
    BY <1>10, <2>1, <2>2 DEF PlaceVault
<1>11. ASSUME NEW p \in Proc, Kill(p)
       PROVE  WordsInv'
  BY <1>0, <1>11, WordingEnds DEF Kill, stores
<1>12. CASE UNCHANGED <<task, garden>>
  BY <1>12 DEF WordsInv
<1>13. Tidy \/ Decay \/ EditBindings \/ UNCHANGED vars => UNCHANGED <<task, garden>>
  BY DEF Tidy, Decay, EditBindings, vars, stores
<1>14. ASSUME NEW p \in Clerk, ClerkStep(p)
       PROVE  WordsInv'
  BY <1>14, <1>1, <1>2, <1>3, <1>4, <1>5 DEF ClerkStep
<1>15. ASSUME NEW p \in Keeper, KeeperStep(p)
       PROVE  WordsInv'
  BY <1>15, <1>6, <1>7, <1>8, <1>9, <1>10 DEF KeeperStep
<1> QED
  BY <1>11, <1>12, <1>13, <1>14, <1>15 DEF Next

\* A capture never meets a record of the same name and other words, and repeating it adds
\* nothing, also when bindings move while it is ingested.
THEOREM NeverConflict ==
    Spec => []CapturesNeverConflict
<1>1. Init => WordsInv
  BY DEF Init, WordsInv, Worded, Shaped, Idle
<1>2. WordsInv /\ [Next]_vars => WordsInv'
  BY WordsStep
<1>3. WordsInv => CapturesNeverConflict
  <2>1. ASSUME WordsInv, NEW c \in Capture
        PROVE  LET files == IngestedFiles(garden, c)
                   again == IngestedFiles(WithFiles(garden, files), c)
               IN  /\ \A i \in DOMAIN files \cap DOMAIN garden : garden[i] = files[i]
                   /\ DOMAIN again \subseteq DOMAIN WithFiles(garden, files)
    BY <2>1, NoConflict, Repeated DEF WordsInv
  <2> QED
    BY <2>1 DEF CapturesNeverConflict
<1> QED
  BY <1>1, <1>2, <1>3, PTL DEF Spec

=============================================================================

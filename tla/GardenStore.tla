----------------------------- MODULE GardenStore -----------------------------
(***************************************************************************)
(* The files that the garden writers share, and the private state of the   *)
(* command-line invocations that write them.                               *)
(*                                                                         *)
(* A tree (a .garden directory, a stage or a backup of one) is the set of  *)
(* changes it contains: plan p is a member of a tree when every file that  *)
(* p creates is there, Seed stands for the files the garden began with,    *)
(* and a member of Edit for a change that the owner made by hand.  The     *)
(* empty set is a missing directory.  Equality of trees is equality of     *)
(* fingerprints (bindings.garden_fingerprint).  Sorted identity order is   *)
(* the order of the numbers 1..N that name the gardens.                    *)
(***************************************************************************)
EXTENDS Integers, FiniteSets

CONSTANTS
    N,            \* number of gardens
    Proc,         \* invocations of the program
    Route,        \* digests of multi-garden routing plans
    Change,       \* digests of single-garden change plans
    Edit,         \* changes the owner may make by hand
    Kind,         \* [Proc -> {"route", "change", "recover"}], what one does
    PlanOf,       \* [Proc -> Plan], the reviewed digest it is given
    Targets,      \* [Plan -> SUBSET Garden], the gardens the plan writes
    Base          \* [Plan -> [Garden -> Tree]], the revisions it was made for

Garden == 1..N
Plan == Route \cup Change
Seed == "seed"
Torn == "torn"    \* a tree of which a removal left only some files
Tree == SUBSET (Plan \cup Edit \cup {Seed, Torn})
Missing == {}

Free == "free"    \* no .mindgarden-write.lock
Blank == "blank"  \* a lock file that names no operation (yet)

ASSUME StoreAssumption ==
    /\ N \in Nat \ {0}
    /\ Proc # {}
    /\ Route \cap Change = {} /\ Plan \cap Edit = {}
    /\ {Seed, Torn, Free, Blank} \cap (Plan \cup Edit) = {}
    /\ Kind \in [Proc -> {"route", "change", "recover"}]
    /\ PlanOf \in [Proc -> Plan]
    /\ \A p \in Proc : PlanOf[p] \in Change <=> Kind[p] = "change"
    /\ Targets \in [Plan -> (SUBSET Garden) \ {{}}]
    /\ \A c \in Change : \E g \in Garden : Targets[c] = {g}
    /\ Base \in [Plan -> [Garden -> Tree]]
    /\ \A d \in Plan, g \in Garden : Seed \in Base[d][g]

VARIABLES
    (***********************************************************************)
    (* The shared files.                                                   *)
    (***********************************************************************)
    canonical,    \* the .garden tree of every garden
    lock,         \* the write lock beside it: Free, Blank or a digest
    journal,      \* the journal file of every routing digest
    stage,        \* stage[p][g]: the stage directory p made beside garden g
    backup,       \* backup[p][g]: the backup p made beside garden g
    vault,        \* the change plans whose blobs the source vault holds
    bindings,     \* version (digest) of the bindings file
    (***********************************************************************)
    (* The invocations.                                                    *)
    (***********************************************************************)
    pc,           \* what the invocation does next
    todo,         \* gardens left in its current loop
    held,         \* its list of the locks it created
    mem,          \* its copy of the journal document
    ctx,          \* who called recover_routing: "commit", "except" or "cli"
    ret,          \* what apply returned: "none", "applied" or "unchanged"
    (***********************************************************************)
    (* The environment's budget.                                           *)
    (***********************************************************************)
    edits, crashes, faults

files == <<canonical, lock, journal, stage, backup, vault, bindings>>
invocation == <<pc, todo, held, mem, ctx, ret>>
budget == <<edits, crashes, faults>>
vars == <<files, invocation, budget>>

JournalState == {"none", "prepared", "selecting", "committed", "rolled-back"}

Journal == [state : JournalState, by : Proc, bindings : Nat,
            before : [Garden -> Tree], after : [Garden -> Tree]]

\* The document an apply starts from; state "none" in journal[d] is the absent file.
NewJournal(p, version) ==
    [state |-> "none", by |-> p, bindings |-> version,
     before |-> [g \in Garden |-> Missing], after |-> [g \in Garden |-> Missing]]

AnyProc == CHOOSE p \in Proc : TRUE
NoJournal == NewJournal(AnyProc, 0)

\* The gardens the journal has an entry for: a tree to go back to is never missing.
Entries(j) == {g \in Garden : j.before[g] # Missing}
Finished(j) == j.state \in {"committed", "rolled-back"}
Unfinished(j) == j.state \in {"prepared", "selecting"}

First(S) == CHOOSE g \in S : \A h \in S : g <= h
Final(S) == CHOOSE g \in S : \A h \in S : h <= g

ChangeSteps == {"cverify", "cblob", "cstage", "crecheck", "cjournal", "cretire",
                "cselect", "cundo", "cfinally", "crelease"}
ApplySteps == {"lock", "verify", "copy", "record", "validate", "reverify", "prepare",
               "selecting", "retire", "select", "commit"}
RecoverSteps == {"check", "rollback", "park", "putback", "clean", "cleanBackup", "unlock"}
Step == ChangeSteps \cup ApplySteps \cup RecoverSteps
        \cup {"idle", "except", "finally", "release", "done", "crashed"}

Live(p) == pc[p] \notin {"idle", "done", "crashed"}

Goto(p, step) == pc' = [pc EXCEPT ![p] = step]

StoreInit ==
    /\ canonical = [g \in Garden |-> {Seed}]
    /\ lock = [g \in Garden |-> Free]
    /\ journal = [d \in Route |-> NoJournal]
    /\ stage = [p \in Proc |-> [g \in Garden |-> Missing]]
    /\ backup = [p \in Proc |-> [g \in Garden |-> Missing]]
    /\ vault = {}
    /\ bindings = 0
    /\ pc = [p \in Proc |-> "idle"]
    /\ todo = [p \in Proc |-> {}]
    /\ held = [p \in Proc |-> {}]
    /\ mem = [p \in Proc |-> NoJournal]
    /\ ctx = [p \in Proc |-> "cli"]
    /\ ret = [p \in Proc |-> "none"]
    /\ edits = {} /\ crashes = 0 /\ faults = 0

\* Every variable has the values its file or Python object can have.
TypeOK ==
    /\ canonical \in [Garden -> Tree]
    /\ lock \in [Garden -> Plan \cup {Free, Blank}]
    /\ journal \in [Route -> Journal]
    /\ stage \in [Proc -> [Garden -> Tree]]
    /\ backup \in [Proc -> [Garden -> Tree]]
    /\ vault \subseteq Change
    /\ bindings \in Nat
    /\ pc \in [Proc -> Step]
    /\ todo \in [Proc -> SUBSET Garden]
    /\ held \in [Proc -> SUBSET Garden]
    /\ mem \in [Proc -> Journal]
    /\ ctx \in [Proc -> {"commit", "except", "cli"}]
    /\ ret \in [Proc -> {"none", "applied", "unchanged"}]
    /\ edits \subseteq Edit
    /\ crashes \in Nat /\ faults \in Nat

\* The tree that readers find at garden g, or the displaced one when none is in place.
Surviving(g) ==
    IF canonical[g] # Missing THEN canonical[g]
    ELSE UNION {backup[p][g] : p \in Proc}

=============================================================================

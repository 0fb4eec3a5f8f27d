---------------------------- MODULE PublicOutputs ----------------------------
(***************************************************************************)
(* Public outputs that are created once and never replaced: a site, or a   *)
(* federation bundle, that is written from reviewed inputs (write_site of  *)
(* adapters/site_files.py, write_bundle of adapters/federation_files.py),  *)
(* and the portal that mounts a copy of a site and then says so in a       *)
(* receipt (application/portal.py).                                        *)
(*                                                                         *)
(* One command publishes and one composes; each is alone at its output     *)
(* (write_bundle: single-writer baseline).  Commands are killed, writes    *)
(* fail, authority ends, inputs change, and the owner has files of their   *)
(* own in the directories.                                                 *)
(*                                                                         *)
(* A directory is NoDir or a function from names to what the file holds: a *)
(* revision, nothing, a part of it, or something of the owner.             *)
(***************************************************************************)
EXTENDS Naturals, SequencesExt

CONSTANTS
    Page,           \* members of an output beside its manifest
    Revision,       \* what reviewed inputs may be
    MaxUpsets,      \* kills and failing writes
    MaxEdits        \* steps of the owner

VARIABLES
    dir,            \* the output of each command
    receipt,        \* of the portal
    inputs,         \* the revision of what is published
    live,           \* authority to publish it
    task,           \* the private state of each command
    upsets, edits

vars == <<dir, receipt, inputs, live, task, upsets, edits>>

Command == {"publish", "compose"}
Manifest == "manifest"
Members == Page \cup {Manifest}
Names == Members \cup {"own"}
Order == Append(SetToSeq(Page), Manifest)

NoDir == [none |-> TRUE]
Holding(content) == [text |-> content]
Nothing == Holding("")
Partly == Holding("part")
Mine == Holding("mine")

Idle == [pc |-> "idle", want |-> "none", todo |-> <<>>, created |-> <<>>]

\* What a file may hold besides a revision is not a revision.
ASSUME OutputsAssumption ==
    /\ IsFiniteSet(Page) /\ Page \cap {Manifest, "none"} = {}
    /\ Revision \cap {"", "part", "mine", "none"} = {}

Init ==
    /\ dir = [p \in Command |-> NoDir]
    /\ receipt = Holding("none")
    /\ inputs \in Revision
    /\ live = TRUE
    /\ task = [p \in Command |-> Idle]
    /\ upsets = 0
    /\ edits = 0

Has(p, n) == dir[p] # NoDir /\ n \in DOMAIN dir[p]

\* read_site: the complete membership, each with its content.
Complete(p, v) ==
    /\ dir[p] # NoDir
    /\ DOMAIN dir[p] = Members
    /\ \A n \in Members : dir[p][n] = Holding(v)

\* check_live of a site and of a portal.
Live(p) ==
    IF p = "publish" THEN live
    ELSE Has("publish", Manifest) /\ dir["publish"][Manifest] = Holding(task[p].want)

\* verify_inputs: nothing of what the output is made from has changed.
Current(p) ==
    IF p = "publish" THEN live /\ inputs = task[p].want
    ELSE Complete("publish", task[p].want)

Goto(p, pc) == task' = [task EXCEPT ![p].pc = pc]
End(p) == task' = [task EXCEPT ![p] = Idle]
Write(p, n, content) ==
    dir' = [dir EXCEPT ![p] = [m \in DOMAIN @ \cup {n} |-> IF m = n THEN content ELSE @[m]]]
Unlink(p, n) == dir' = [dir EXCEPT ![p] = [m \in DOMAIN @ \ {n} |-> @[m]]]

Upset == upsets < MaxUpsets /\ upsets' = upsets + 1
world == <<inputs, live, edits>>

(***************************************************************************)
(* Create or verify                                                        *)
(***************************************************************************)
Planned(p, v) ==
    IF p = "publish" THEN live /\ v = inputs
    ELSE Complete("publish", v) /\ receipt \in {Holding("none"), Holding(v)}

\* An output that is there is verified, and left alone if it differs.
Start(p) ==
    /\ task[p].pc = "idle"
    /\ \E v \in Revision :
          /\ Planned(p, v)
          /\ \/ /\ dir[p] = NoDir
                /\ task' = [task EXCEPT ![p] = [pc |-> "mkdir", want |-> v, todo |-> Order,
                                                created |-> <<>>]]
             \/ /\ p = "compose" /\ Complete(p, v)
                /\ task' = [task EXCEPT ![p] = [Idle EXCEPT !.pc = "copied", !.want = v]]
    /\ UNCHANGED <<dir, receipt, world, upsets>>

MakeDirectory(p) ==
    /\ task[p].pc = "mkdir"
    /\ IF dir[p] = NoDir THEN dir' = [dir EXCEPT ![p] = <<>>] /\ Goto(p, "writing")
       ELSE End(p) /\ UNCHANGED dir
    /\ UNCHANGED <<receipt, world, upsets>>

Name(p) == Head(task[p].todo)

\* The manifest is the last, and inputs are verified once more before it.
Permitted(p) == Live(p) /\ (Name(p) = Manifest => Current(p))

\* open("xb"): a file that is there already ends the command.
Create(p) ==
    /\ task[p].pc = "writing"
    /\ task[p].todo # <<>>
    /\ IF Permitted(p) /\ ~Has(p, Name(p))
       THEN /\ Write(p, Name(p), Nothing)
            /\ task' = [task EXCEPT ![p].pc = "filling", ![p].created = Append(@, Name(p))]
       ELSE Goto(p, "undoing") /\ UNCHANGED dir
    /\ UNCHANGED <<receipt, world, upsets>>

Fill(p) ==
    /\ task[p].pc = "filling"
    /\ Write(p, Name(p), Holding(task[p].want))
    /\ task' = [task EXCEPT ![p].pc = "writing", ![p].todo = Tail(@)]
    /\ UNCHANGED <<receipt, world, upsets>>

FailToFill(p) ==
    /\ task[p].pc = "filling"
    /\ Write(p, Name(p), Partly)
    /\ Goto(p, "undoing")
    /\ Upset
    /\ UNCHANGED <<receipt, world>>

Conclude(p) ==
    /\ task[p].pc = "writing"
    /\ task[p].todo = <<>>
    /\ CASE ~Current(p) -> Goto(p, "undoing")
         [] Current(p) /\ p = "publish" -> End(p)
         [] OTHER -> Goto(p, "copied")
    /\ UNCHANGED <<dir, receipt, world, upsets>>

\* (mutant of Removable: whatever is there under the name)
RemovableAnyhow(p, n) == Has(p, n)

\* Only what this command wrote, and nobody has changed.
Removable(p, n) == Has(p, n) /\ dir[p][n] \in {Nothing, Holding(task[p].want)}

\* (mutant of Undo: in the order in which they were created)
UndoForward(p) ==
    /\ task[p].pc = "undoing"
    /\ task[p].created # <<>>
    /\ LET n == Head(task[p].created)
       IN  IF Removable(p, n) THEN Unlink(p, n) ELSE UNCHANGED dir
    /\ task' = [task EXCEPT ![p].created = Tail(@)]
    /\ UNCHANGED <<receipt, world, upsets>>

Undo(p) ==
    /\ task[p].pc = "undoing"
    /\ task[p].created # <<>>
    /\ LET n == Last(task[p].created)
       IN  IF Removable(p, n) THEN Unlink(p, n) ELSE UNCHANGED dir
    /\ task' = [task EXCEPT ![p].created = Front(@)]
    /\ UNCHANGED <<receipt, world, upsets>>

\* rmdir, which fails while anything is left.
RemoveDirectory(p) ==
    /\ task[p].pc = "undoing"
    /\ task[p].created = <<>>
    /\ dir' = IF dir[p] = <<>> THEN [dir EXCEPT ![p] = NoDir] ELSE dir
    /\ End(p)
    /\ UNCHANGED <<receipt, world, upsets>>

(***************************************************************************)
(* PortalComposition.apply, after its copy                                 *)
(***************************************************************************)
\* (mutant of Recheck: the copy is not read again)
TrustCopy(p) ==
    /\ task[p].pc = "copied"
    /\ IF Current(p) THEN Goto(p, "receipt") ELSE End(p)
    /\ UNCHANGED <<dir, receipt, world, upsets>>

Recheck(p) ==
    /\ task[p].pc = "copied"
    /\ IF Current(p) /\ Complete(p, task[p].want) THEN Goto(p, "receipt") ELSE End(p)
    /\ UNCHANGED <<dir, receipt, world, upsets>>

OpenReceipt(p) ==
    /\ task[p].pc = "receipt"
    /\ IF receipt = Holding("none") THEN receipt' = Nothing /\ Goto(p, "signing")
       ELSE End(p) /\ UNCHANGED receipt
    /\ UNCHANGED <<dir, world, upsets>>

FillReceipt(p) ==
    /\ task[p].pc = "signing"
    /\ receipt' = Holding(task[p].want)
    /\ End(p)
    /\ UNCHANGED <<dir, world, upsets>>

Kill(p) ==
    /\ task[p].pc # "idle"
    /\ End(p)
    /\ Upset
    /\ UNCHANGED <<dir, receipt, world>>

(***************************************************************************)
(* The owner                                                               *)
(***************************************************************************)
Edit == edits < MaxEdits /\ edits' = edits + 1

ChangeInputs ==
    /\ inputs' \in Revision \ {inputs}
    /\ Edit
    /\ UNCHANGED <<dir, receipt, live, task, upsets>>

ChangeAuthority ==
    /\ live' = ~live
    /\ Edit
    /\ UNCHANGED <<dir, receipt, inputs, task, upsets>>

\* The owner uses the place of an output for a directory of their own.
TakePlace(p) ==
    /\ dir[p] = NoDir
    /\ dir' = [dir EXCEPT ![p] = [n \in {"own"} |-> Mine]]
    /\ Edit
    /\ UNCHANGED <<receipt, inputs, live, task, upsets>>

\* A file of the owner, except while a member is being filled, and in the
\* mount while its receipt is written: nothing in the code looks then.
PutOwnFile(p) ==
    /\ dir[p] # NoDir
    /\ task[p].pc \notin {"filling", "receipt", "signing"}
    /\ \E n \in Names : Write(p, n, Mine)
    /\ Edit
    /\ UNCHANGED <<receipt, inputs, live, task, upsets>>

\* An output that no command is at is taken away, and with a mount its receipt.
Retire(p) ==
    /\ task[p].pc = "idle"
    /\ dir' = [dir EXCEPT ![p] = NoDir]
    /\ receipt' = IF p = "compose" THEN Holding("none") ELSE receipt
    /\ dir[p] # NoDir \/ receipt # receipt'
    /\ Edit
    /\ UNCHANGED <<inputs, live, task, upsets>>

Run(p) ==
    \/ Start(p) \/ MakeDirectory(p) \/ Create(p) \/ Fill(p) \/ FailToFill(p) \/ Conclude(p)
    \/ Undo(p) \/ RemoveDirectory(p) \/ Recheck(p) \/ OpenReceipt(p) \/ FillReceipt(p)

Next ==
    \/ \E p \in Command : Run(p) \/ Kill(p) \/ TakePlace(p) \/ PutOwnFile(p) \/ Retire(p)
    \/ ChangeInputs
    \/ ChangeAuthority

Spec == Init /\ [][Next]_vars

(***************************************************************************)
(* Properties                                                              *)
(***************************************************************************)
\* An output that has its manifest has all it names, whatever was killed or
\* failed: the manifest comes last and is the first to be removed again
\* (write_bundle: the descriptor is the last commit marker).  The owner may
\* have changed a member; readers see that from its digest.
ManifestMeansComplete ==
    \A p \in Command, v \in Revision :
        Has(p, Manifest) /\ dir[p][Manifest] = Holding(v) =>
            \A n \in Page : Has(p, n) /\ dir[p][n] \in {Holding(v), Mine}

\* No command replaces or removes what the owner has put into an output
\* (site_files.py: without replacing caller-owned files).
CallersFilesKept ==
    [][task' # task =>
          \A p \in Command : \A n \in Names :
              Has(p, n) /\ dir[p][n] = Mine => Has(p, n)' /\ dir'[p][n] = Mine]_vars

\* A receipt is given for a mount that is complete to the last member, of the
\* revision it names (portal.py: a complete garden is committed before the
\* final portal receipt).
ReceiptNamesComplete ==
    [][receipt' # receipt /\ receipt' \in {Holding(v) : v \in Revision} =>
          \A n \in Members : Has("compose", n) /\ dir["compose"][n] = receipt']_vars

=============================================================================

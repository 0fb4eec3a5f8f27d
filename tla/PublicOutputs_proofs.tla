------------------------ MODULE PublicOutputs_proofs ------------------------
(***************************************************************************)
(* The safety properties of PublicOutputs for any number of members and    *)
(* revisions, kills, failing writes and steps of the owner.                *)
(*                                                                         *)
(* A command has created the first members in the order of Order, and      *)
(* those before the one it is at hold its revision or something of the     *)
(* owner (Progress).  The manifest, the last of them, holds a revision     *)
(* only when all others are there and nothing has been undone (Crowned).   *)
(***************************************************************************)
EXTENDS PublicOutputs, SequenceTheorems, FiniteSetTheorems, TLAPS

Places == {"idle", "mkdir", "writing", "filling", "undoing", "copied", "receipt", "signing"}
AtWork(p) == task[p].pc \in {"writing", "filling", "undoing"}

Typed(p) ==
    /\ task[p] \in [pc : Places, want : Revision \cup {"none"},
                    todo : Seq(Members), created : Seq(Members)]
    /\ task[p].pc # "idle" => task[p].want \in Revision
    /\ dir[p] # NoDir => DOMAIN dir[p] \subseteq Names
    /\ AtWork(p) => dir[p] # NoDir

\* The first k members are there.
Written(p, k) ==
    \A i \in 1..k : Has(p, Order[i]) /\ dir[p][Order[i]] \in {Holding(task[p].want), Mine}

\* Created so far is the beginning of Order, and to do, from k on, its end.
Beginning(p) ==
    /\ Len(task[p].created) <= Len(Order)
    /\ \A i \in 1..Len(task[p].created) : task[p].created[i] = Order[i]
Ending(p, k) ==
    /\ k + Len(task[p].todo) = Len(Order)
    /\ \A i \in 1..Len(task[p].todo) : task[p].todo[i] = Order[k + i]

Progress(p) ==
    LET k == Len(task[p].created) IN
    /\ task[p].pc = "mkdir" => task[p].todo = Order /\ task[p].created = <<>>
    /\ AtWork(p) => Beginning(p)
    /\ task[p].pc = "writing" => Ending(p, k) /\ Written(p, k)
    /\ task[p].pc = "filling" =>
          /\ k # 0 /\ Ending(p, k - 1) /\ Written(p, k - 1) /\ task[p].todo # <<>>
          /\ Has(p, Name(p)) /\ dir[p][Name(p)] = Nothing
    /\ task[p].pc = "undoing" /\ k = Len(Order) => Written(p, k - 1)

\* Where the manifest holds a revision.
Crowned(p) ==
    \A v \in Revision : Has(p, Manifest) /\ dir[p][Manifest] = Holding(v) =>
        /\ \A n \in Page : Has(p, n) /\ dir[p][n] \in {Holding(v), Mine}
        /\ AtWork(p) =>
              /\ v = task[p].want /\ task[p].pc # "filling"
              /\ Len(task[p].created) = Len(Order)

Copied(p) ==
    /\ task[p].pc \in {"copied", "receipt", "signing"} => p = "compose"
    /\ task[p].pc \in {"receipt", "signing"} => Complete(p, task[p].want)

At(p) == Typed(p) /\ Progress(p) /\ Crowned(p) /\ Copied(p)

Functional == task = [p \in Command |-> task[p]] /\ dir = [p \in Command |-> dir[p]]
OutputsInv == Functional /\ \A p \in Command : At(p)

-----------------------------------------------------------------------------
(***************************************************************************)
(* The order of the members.                                               *)
(***************************************************************************)
LEMMA AllPages ==
    /\ SetToSeq(Page) \in [1..Cardinality(Page) -> Page]
    /\ Cardinality(Page) \in Nat
    /\ \A n \in Page : \E i \in 1..Cardinality(Page) : SetToSeq(Page)[i] = n
<1> DEFINE c == Cardinality(Page)
<1>1. IsFiniteSet(Page)
  BY OutputsAssumption
<1>2. c \in Nat /\ ExistsBijection(1..c, Page)
  BY <1>1, FS_CardinalityType
<1>3. \E f \in [1..c -> Page] : IsInjective(f)
  BY <1>2 DEF ExistsBijection, Bijection, Injection, IsInjective
<1>4. SetToSeq(Page) \in [1..c -> Page] /\ IsInjective(SetToSeq(Page))
  BY <1>3 DEF SetToSeq
<1>5. SetToSeq(Page) \in Injection(1..c, Page)
  BY <1>4 DEF Injection, IsInjective
<1>6. Cardinality(1..c) = c
  BY <1>2, FS_Interval
<1>7. SetToSeq(Page) \in Surjection(1..c, Page)
  BY <1>1, <1>5, <1>6, FS_Injection
<1> QED
  BY <1>2, <1>4, <1>7 DEF Surjection

\* All pages, each before the manifest.
LEMMA ManifestIsLast ==
    /\ Order \in Seq(Members) /\ Len(Order) \in Nat \ {0}
    /\ Order[Len(Order)] = Manifest
    /\ \A i \in 1..(Len(Order) - 1) : Order[i] \in Page
    /\ \A n \in Page : \E i \in 1..(Len(Order) - 1) : Order[i] = n
<1> DEFINE s == SetToSeq(Page)
<1>1. s \in Seq(Members) /\ Len(s) = Cardinality(Page) /\ s \in [1..Len(s) -> Page] /\ Len(s) \in Nat
  BY AllPages, LenProperties DEF Members
<1>2. Manifest \in Members
  BY DEF Members
<1>3. /\ Order \in Seq(Members) /\ Len(Order) = Len(s) + 1
      /\ \A i \in 1..Len(s) : Order[i] = s[i]
      /\ Order[Len(s) + 1] = Manifest
  BY <1>1, <1>2, AppendProperties DEF Order
<1> QED
  BY <1>1, <1>3, AllPages

LEMMA Distinct ==
    /\ Members \subseteq Names /\ "none" \notin Names /\ Manifest \notin Page
    /\ \A v \in Revision :
          /\ Holding(v) \notin {Nothing, Partly, Mine, Holding("none")}
          /\ \A w \in Revision : Holding(v) = Holding(w) => v = w
    /\ Mine \notin {Nothing, Partly}
<1>1. \A v, w : Holding(v) = Holding(w) => v = w
  BY DEF Holding
<1> QED
  BY <1>1, OutputsAssumption DEF Members, Names, Manifest, Nothing, Partly, Mine

-----------------------------------------------------------------------------
(***************************************************************************)
(* A step concerns one command.                                            *)
(***************************************************************************)
LEMMA OtherCommand ==
    ASSUME NEW p \in Command, At(p), dir'[p] = dir[p], task'[p] = task[p]
    PROVE  At(p)'
  BY DEF At, Typed, Progress, Crowned, Copied, AtWork, Beginning, Ending, Written, Has,
         Complete, Name

LEMMA OneCommand ==
    ASSUME OutputsInv, NEW p \in Command, Functional', At(p)',
           \A q \in Command \ {p} : dir'[q] = dir[q] /\ task'[q] = task[q]
    PROVE  OutputsInv'
  BY OtherCommand DEF OutputsInv

\* What is in a directory after a file has been written, or removed.
LEMMA Writes ==
    ASSUME OutputsInv, NEW p \in Command, NEW n \in Names, NEW c, dir[p] # NoDir, Write(p, n, c)
    PROVE  /\ dir' = [q \in Command |-> dir'[q]]
           /\ \A q \in Command \ {p} : dir'[q] = dir[q]
           /\ dir'[p] # NoDir /\ DOMAIN dir'[p] \subseteq Names
           /\ \A m : Has(p, m)' <=> Has(p, m) \/ m = n
           /\ dir'[p][n] = c
           /\ \A m : Has(p, m) /\ m # n => dir'[p][m] = dir[p][m]
<1>1. /\ dir' = [q \in Command |-> dir'[q]]
      /\ \A q \in Command \ {p} : dir'[q] = dir[q]
      /\ dir'[p] = [m \in DOMAIN dir[p] \cup {n} |-> IF m = n THEN c ELSE dir[p][m]]
  BY DEF OutputsInv, Functional, Write
<1>2. DOMAIN dir[p] \subseteq Names
  BY DEF OutputsInv, At, Typed
<1>3. DOMAIN dir'[p] = DOMAIN dir[p] \cup {n}
  BY <1>1
<1>4. DOMAIN NoDir = {"none"}
  BY DEF NoDir
<1>5. dir'[p] # NoDir
  BY <1>3, <1>4, Distinct
<1> QED
  BY <1>1, <1>2, <1>3, <1>5 DEF Has

LEMMA Unlinks ==
    ASSUME OutputsInv, NEW p \in Command, NEW n, dir[p] # NoDir, Unlink(p, n)
    PROVE  /\ dir' = [q \in Command |-> dir'[q]]
           /\ \A q \in Command \ {p} : dir'[q] = dir[q]
           /\ dir'[p] # NoDir /\ DOMAIN dir'[p] \subseteq Names
           /\ \A m : Has(p, m)' <=> Has(p, m) /\ m # n
           /\ \A m : Has(p, m) /\ m # n => dir'[p][m] = dir[p][m]
<1>1. /\ dir' = [q \in Command |-> dir'[q]]
      /\ \A q \in Command \ {p} : dir'[q] = dir[q]
      /\ dir'[p] = [m \in DOMAIN dir[p] \ {n} |-> dir[p][m]]
  BY DEF OutputsInv, Functional, Unlink
<1>2. DOMAIN dir[p] \subseteq Names
  BY DEF OutputsInv, At, Typed
<1>3. DOMAIN dir'[p] = DOMAIN dir[p] \ {n}
  BY <1>1
<1>4. DOMAIN NoDir = {"none"}
  BY DEF NoDir
<1>5. dir'[p] # NoDir
  BY <1>2, <1>3, <1>4, Distinct
<1> QED
  BY <1>1, <1>2, <1>3, <1>5 DEF Has

\* A command that has nothing more to do with its output.
LEMMA Goes ==
    ASSUME OutputsInv, NEW p \in Command, NEW pc \in Places, Goto(p, pc)
    PROVE  /\ task' = [q \in Command |-> task'[q]]
           /\ \A q \in Command \ {p} : task'[q] = task[q]
           /\ task'[p] = [task[p] EXCEPT !.pc = pc]
           /\ task'[p] \in [pc : Places, want : Revision \cup {"none"},
                            todo : Seq(Members), created : Seq(Members)]
           /\ task'[p].pc = pc /\ task'[p].want = task[p].want
           /\ task'[p].todo = task[p].todo /\ task'[p].created = task[p].created
<1>1. /\ task' = [q \in Command |-> task'[q]]
      /\ \A q \in Command \ {p} : task'[q] = task[q]
      /\ task'[p] = [task[p] EXCEPT !.pc = pc]
  BY DEF OutputsInv, Functional, Goto
<1>2. task[p] \in [pc : Places, want : Revision \cup {"none"},
                   todo : Seq(Members), created : Seq(Members)]
  BY DEF OutputsInv, At, Typed
<1> QED
  BY <1>1, <1>2

LEMMA Ends ==
    ASSUME OutputsInv, NEW p \in Command, End(p)
    PROVE  /\ task' = [q \in Command |-> task'[q]]
           /\ \A q \in Command \ {p} : task'[q] = task[q]
           /\ task'[p] \in [pc : Places, want : Revision \cup {"none"},
                            todo : Seq(Members), created : Seq(Members)]
           /\ task'[p].pc = "idle"
  BY DEF OutputsInv, Functional, End, Idle, Places

\* A command that has nothing more to do with its output, or not yet.
LEMMA AtRest ==
    ASSUME OutputsInv, NEW p \in Command, Functional',
           \A q \in Command \ {p} : dir'[q] = dir[q] /\ task'[q] = task[q],
           task'[p] \in [pc : Places, want : Revision \cup {"none"},
                         todo : Seq(Members), created : Seq(Members)],
           \/ task'[p].pc = "idle"
           \/ /\ task'[p].want \in Revision
              /\ \/ task'[p].pc = "mkdir" /\ task'[p].todo = Order /\ task'[p].created = <<>>
                 \/ task'[p].pc = "copied" /\ p = "compose",
           \/ dir'[p] = dir[p]
           \/ /\ dir'[p] # NoDir => DOMAIN dir'[p] \subseteq Names
              /\ \A v \in Revision : ~(Has(p, Manifest)' /\ dir'[p][Manifest] = Holding(v))
    PROVE  OutputsInv'
<1>1. ~AtWork(p)' /\ Typed(p)'
  BY DEF OutputsInv, At, Typed, AtWork
<1>2. Progress(p)' /\ Copied(p)'
  BY <1>1 DEF Progress, Copied
<1>3. Crowned(p)'
  BY <1>1 DEF OutputsInv, At, Crowned, Has
<1> QED
  BY <1>1, <1>2, <1>3, OneCommand DEF At

LEMMA ResultOfStart ==
    ASSUME OutputsInv, NEW p \in Command, Start(p)
    PROVE  OutputsInv'
<1>1. PICK v \in Revision :
        \/ task' = [task EXCEPT ![p] = [pc |-> "mkdir", want |-> v, todo |-> Order, created |-> <<>>]]
        \/ p = "compose" /\ task' = [task EXCEPT ![p] = [Idle EXCEPT !.pc = "copied", !.want = v]]
  BY DEF Start
<1>2. UNCHANGED dir
  BY DEF Start
<1>3. Functional' /\ \A q \in Command \ {p} : dir'[q] = dir[q] /\ task'[q] = task[q]
  BY <1>1, <1>2 DEF OutputsInv, Functional
<1>4. CASE task' = [task EXCEPT ![p] = [pc |-> "mkdir", want |-> v, todo |-> Order, created |-> <<>>]]
  <2>1. task'[p] = [pc |-> "mkdir", want |-> v, todo |-> Order, created |-> <<>>]
    BY <1>4 DEF OutputsInv, Functional
  <2>2. <<>> \in Seq(Members) /\ Order \in Seq(Members)
    BY ManifestIsLast
  <2>3. /\ task'[p] \in [pc : Places, want : Revision \cup {"none"},
                         todo : Seq(Members), created : Seq(Members)]
        /\ task'[p].want \in Revision /\ task'[p].pc = "mkdir"
        /\ task'[p].todo = Order /\ task'[p].created = <<>>
    BY <2>1, <2>2 DEF Places
  <2> QED
    BY <2>3, <1>2, <1>3, AtRest
<1>5. CASE p = "compose" /\ task' = [task EXCEPT ![p] = [Idle EXCEPT !.pc = "copied", !.want = v]]
  <2>1. task'[p] = [pc |-> "copied", want |-> v, todo |-> <<>>, created |-> <<>>]
    BY <1>5 DEF OutputsInv, Functional, Idle
  <2>2. /\ task'[p] \in [pc : Places, want : Revision \cup {"none"},
                         todo : Seq(Members), created : Seq(Members)]
        /\ task'[p].want \in Revision /\ task'[p].pc = "copied"
    BY <2>1 DEF Places
  <2> QED
    BY <2>2, <1>2, <1>3, <1>5, AtRest
<1> QED
  BY <1>1, <1>4, <1>5

LEMMA ResultOfMakeDirectory ==
    ASSUME OutputsInv, NEW p \in Command, MakeDirectory(p)
    PROVE  OutputsInv'
<1>1. task[p].pc = "mkdir" /\ At(p)
  BY DEF MakeDirectory, OutputsInv
<1>2. CASE dir[p] # NoDir
  <2>1. End(p) /\ UNCHANGED dir
    BY <1>2 DEF MakeDirectory
  <2> QED
    BY <2>1, Ends, AtRest DEF OutputsInv, Functional
<1>3. CASE dir[p] = NoDir
  <2>1. dir' = [dir EXCEPT ![p] = <<>>] /\ Goto(p, "writing")
    BY <1>3 DEF MakeDirectory
  <2>2. /\ dir' = [q \in Command |-> dir'[q]] /\ dir'[p] = <<>>
        /\ \A q \in Command \ {p} : dir'[q] = dir[q]
    BY <2>1 DEF OutputsInv, Functional
  <2>3. DOMAIN dir'[p] = {} /\ dir'[p] # NoDir
    BY <2>2 DEF NoDir
  <2>4. /\ task'[p].pc = "writing" /\ task'[p].want \in Revision
        /\ task'[p].todo = Order /\ task'[p].created = <<>>
        /\ Functional' /\ \A q \in Command \ {p} : task'[q] = task[q]
    BY <1>1, <2>1, <2>2, Goes DEF At, Typed, Progress, Places, Functional
  <2>5. Typed(p)'
    BY <2>1, <2>3, <2>4, Goes DEF Typed, Places
  <2>6. Progress(p)'
    BY <2>4, ManifestIsLast DEF Progress, Beginning, Ending, Written
  <2>7. Crowned(p)' /\ Copied(p)'
    BY <2>3, <2>4 DEF Crowned, Copied, Has
  <2> QED
    BY <2>2, <2>4, <2>5, <2>6, <2>7, OneCommand DEF At
<1> QED
  BY <1>2, <1>3

LEMMA ResultOfCreate ==
    ASSUME OutputsInv, NEW p \in Command, Create(p)
    PROVE  OutputsInv'
<1> DEFINE k == Len(task[p].created)
<1>1. task[p].pc = "writing" /\ task[p].todo # <<>> /\ At(p) /\ AtWork(p)
  BY DEF Create, OutputsInv, AtWork
<1>2. /\ task[p].todo \in Seq(Members) /\ task[p].created \in Seq(Members)
      /\ k \in Nat /\ Len(task[p].todo) \in Nat \ {0}
      /\ Beginning(p) /\ Ending(p, k) /\ Written(p, k) /\ k < Len(Order)
      /\ task[p].want \in Revision /\ dir[p] # NoDir
  <2>1. task[p].todo \in Seq(Members) /\ task[p].created \in Seq(Members)
    BY <1>1 DEF At, Typed
  <2>2. k \in Nat /\ Len(task[p].todo) \in Nat \ {0}
    BY <1>1, <2>1, LenProperties, EmptySeq
  <2>3. Beginning(p) /\ Ending(p, k) /\ Written(p, k)
    BY <1>1 DEF At, Progress
  <2>4. k < Len(Order)
    <3>1. k + Len(task[p].todo) = Len(Order)
      BY <2>3 DEF Ending
    <3>2. Len(Order) \in Nat
      BY ManifestIsLast
    <3> HIDE DEF k
    <3> QED
      BY <2>2, <3>1, <3>2
  <2> QED
    BY <1>1, <2>1, <2>2, <2>3, <2>4 DEF At, Typed
<1>3. Name(p) = Order[k + 1] /\ Name(p) \in Members
  BY <1>2, HeadTailProperties DEF Ending, Name
<1>4. \A v \in Revision : ~(Has(p, Manifest) /\ dir[p][Manifest] = Holding(v))
  BY <1>1, <1>2 DEF At, Crowned
<1>5. CASE Goto(p, "undoing") /\ UNCHANGED dir
  <2>1. /\ Functional' /\ \A q \in Command \ {p} : dir'[q] = dir[q] /\ task'[q] = task[q]
        /\ task'[p].pc = "undoing" /\ task'[p].want = task[p].want
        /\ task'[p].created = task[p].created
    BY <1>5, Goes DEF Places, OutputsInv, Functional
  <2>2. Typed(p)'
    BY <1>1, <1>2, <1>5, Goes DEF At, Typed, Places
  <2>3. Progress(p)'
    BY <1>2, <2>1 DEF Progress, Beginning
  <2>4. Crowned(p)' /\ Copied(p)'
    BY <1>4, <1>5, <2>1 DEF Crowned, Copied, Has
  <2> QED
    BY <2>1, <2>2, <2>3, <2>4, OneCommand DEF At
<1>6. CASE /\ ~Has(p, Name(p)) /\ Write(p, Name(p), Nothing)
           /\ task' = [task EXCEPT ![p].pc = "filling", ![p].created = Append(@, Name(p))]
  <2>1. /\ task' = [q \in Command |-> task'[q]]
        /\ \A q \in Command \ {p} : task'[q] = task[q]
        /\ task'[p] = [task[p] EXCEPT !.pc = "filling", !.created = Append(@, Name(p))]
    BY <1>6 DEF OutputsInv, Functional
  <2>2. /\ task'[p].pc = "filling" /\ task'[p].want = task[p].want
        /\ task'[p].todo = task[p].todo /\ task'[p].created = Append(task[p].created, Name(p))
        /\ task'[p] \in [pc : Places, want : Revision \cup {"none"},
                         todo : Seq(Members), created : Seq(Members)]
    <3>1. /\ Append(task[p].created, Name(p)) \in Seq(Members)
          /\ task[p] \in [pc : Places, want : Revision \cup {"none"},
                         todo : Seq(Members), created : Seq(Members)]
      BY <1>1, <1>2, <1>3, AppendProperties DEF At, Typed
    <3> QED
      BY <2>1, <3>1 DEF Places
  <2>3. /\ Len(task'[p].created) = k + 1 /\ task'[p].created[k + 1] = Order[k + 1]
        /\ \A i \in 1..k : task'[p].created[i] = task[p].created[i]
    BY <1>2, <1>3, <2>2, AppendProperties
  <2>4. Name(p)' = Name(p) /\ Name(p) \in Names
    BY <1>3, <2>2, Distinct DEF Name
  <2>5. /\ dir' = [q \in Command |-> dir'[q]]
        /\ \A q \in Command \ {p} : dir'[q] = dir[q]
        /\ dir'[p] # NoDir /\ DOMAIN dir'[p] \subseteq Names
        /\ \A m : Has(p, m)' <=> Has(p, m) \/ m = Name(p)
        /\ dir'[p][Name(p)] = Nothing
        /\ \A m : Has(p, m) /\ m # Name(p) => dir'[p][m] = dir[p][m]
    BY <1>2, <1>6, <2>4, Writes
  <2>6. Typed(p)'
    BY <1>2, <2>2, <2>5 DEF Typed
  <2>7. /\ Beginning(p)'
        /\ k + Len(task'[p].todo) = Len(Order)
        /\ \A i \in 1..Len(task'[p].todo) : task'[p].todo[i] = Order[k + i]
    <3>1. \A i \in 1..(k + 1) : task'[p].created[i] = Order[i]
      BY <1>2, <2>3 DEF Beginning
    <3>2. Len(task'[p].created) <= Len(Order)
      BY <1>2, <2>3, ManifestIsLast
    <3>3. Beginning(p)'
      BY <1>2, <2>3, <3>1, <3>2 DEF Beginning
    <3> QED
      BY <1>2, <2>2, <3>3 DEF Ending
  <2>8. \A i \in 1..k :
          Has(p, Order[i])' /\ dir'[p][Order[i]] \in {Holding(task'[p].want), Mine}
    BY <1>2, <1>6, <2>2, <2>5 DEF Written
  <2>9. Progress(p)'
    <3>1. Len(task'[p].created) - 1 = k /\ Len(task'[p].created) # 0
      BY <1>2, <2>3
    <3>2. Ending(p, Len(task[p].created) - 1)' /\ Written(p, Len(task[p].created) - 1)'
      BY <2>7, <2>8, <3>1 DEF Ending, Written
    <3>3. task'[p].todo # <<>> /\ Has(p, Name(p))' /\ dir'[p][Name(p)'] = Nothing
      BY <1>1, <2>2, <2>4, <2>5
    <3> QED
      BY <2>2, <2>7, <3>1, <3>2, <3>3 DEF Progress
  <2>10. Crowned(p)' /\ Copied(p)'
    BY <1>4, <2>2, <2>5, Distinct DEF Crowned, Copied
  <2> QED
    BY <2>1, <2>5, <2>6, <2>9, <2>10, OneCommand DEF At, Functional
<1> QED
  BY <1>5, <1>6 DEF Create

\* A file that has been created is the last of those created, and not a page of
\* the owner.
LEMMA AtFilling ==
    ASSUME OutputsInv, NEW p \in Command, task[p].pc = "filling"
    PROVE  \E k \in Nat \ {0} :
             /\ Len(task[p].created) = k /\ k <= Len(Order) /\ Name(p) = Order[k]
             /\ Name(p) \in Members /\ (Name(p) = Manifest => k = Len(Order))
             /\ task[p].todo \in Seq(Members) /\ task[p].todo # <<>>
             /\ Beginning(p) /\ Ending(p, k - 1) /\ Written(p, k - 1)
             /\ Has(p, Name(p)) /\ dir[p][Name(p)] = Nothing
             /\ dir[p] # NoDir /\ task[p].want \in Revision
             /\ \A v \in Revision : ~(Has(p, Manifest) /\ dir[p][Manifest] = Holding(v))
<1>1. At(p) /\ AtWork(p)
  BY DEF OutputsInv, AtWork
<1>2. /\ task[p].todo \in Seq(Members) /\ task[p].created \in Seq(Members)
      /\ dir[p] # NoDir /\ task[p].want \in Revision
  BY <1>1 DEF At, Typed
<1>3. PICK k \in Nat : Len(task[p].created) = k
  BY <1>2, LenProperties
<1>4. /\ k # 0 /\ Beginning(p) /\ Ending(p, k - 1) /\ Written(p, k - 1) /\ task[p].todo # <<>>
      /\ Has(p, Name(p)) /\ dir[p][Name(p)] = Nothing
  BY <1>1, <1>3 DEF At, Progress
<1>5. k <= Len(Order)
  BY <1>3, <1>4 DEF Beginning
<1>6. Len(task[p].todo) \in Nat \ {0} /\ Name(p) = task[p].todo[1] /\ Name(p) \in Members
  BY <1>2, <1>4, LenProperties, EmptySeq, HeadTailProperties DEF Name
<1>7. Name(p) = Order[k]
  BY <1>4, <1>6 DEF Ending
<1>8. Name(p) = Manifest => k = Len(Order)
  <2>1. k # Len(Order) => k \in 1..(Len(Order) - 1)
    BY <1>4, <1>5, ManifestIsLast
  <2> QED
    BY <1>7, <2>1, ManifestIsLast, Distinct
<1>9. \A v \in Revision : ~(Has(p, Manifest) /\ dir[p][Manifest] = Holding(v))
  BY <1>1 DEF At, Crowned
<1> QED
  BY <1>2, <1>3, <1>4, <1>5, <1>6, <1>7, <1>8, <1>9

LEMMA ResultOfFill ==
    ASSUME OutputsInv, NEW p \in Command, Fill(p)
    PROVE  OutputsInv'
<1> DEFINE n == Name(p)
<1>1. task[p].pc = "filling"
  BY DEF Fill
<1>2. PICK k \in Nat \ {0} :
        /\ Len(task[p].created) = k /\ k <= Len(Order) /\ n = Order[k]
        /\ n \in Members /\ (n = Manifest => k = Len(Order))
        /\ task[p].todo \in Seq(Members) /\ task[p].todo # <<>>
        /\ Beginning(p) /\ Ending(p, k - 1) /\ Written(p, k - 1)
        /\ Has(p, n) /\ dir[p][n] = Nothing
        /\ dir[p] # NoDir /\ task[p].want \in Revision
        /\ \A v \in Revision : ~(Has(p, Manifest) /\ dir[p][Manifest] = Holding(v))
  BY <1>1, AtFilling
<1>3. n \in Names
  BY <1>2, Distinct
<1>4. /\ dir' = [q \in Command |-> dir'[q]]
      /\ \A q \in Command \ {p} : dir'[q] = dir[q]
      /\ dir'[p] # NoDir /\ DOMAIN dir'[p] \subseteq Names
      /\ \A m : Has(p, m)' <=> Has(p, m) \/ m = n
      /\ dir'[p][n] = Holding(task[p].want)
      /\ \A m : Has(p, m) /\ m # n => dir'[p][m] = dir[p][m]
  BY <1>2, <1>3, Writes DEF Fill
<1>5. /\ task' = [q \in Command |-> task'[q]]
      /\ \A q \in Command \ {p} : task'[q] = task[q]
      /\ task'[p] = [task[p] EXCEPT !.pc = "writing", !.todo = Tail(@)]
  BY DEF OutputsInv, Functional, Fill
<1>6. Tail(task[p].todo) \in Seq(Members)
  BY <1>2, HeadTailProperties
<1>7. /\ task'[p].pc = "writing" /\ task'[p].want = task[p].want
      /\ task'[p].todo = Tail(task[p].todo) /\ task'[p].created = task[p].created
      /\ task'[p] \in [pc : Places, want : Revision \cup {"none"},
                       todo : Seq(Members), created : Seq(Members)]
  BY <1>5, <1>6 DEF OutputsInv, At, Typed, Places
<1>8. Typed(p)'
  BY <1>2, <1>4, <1>7 DEF Typed
<1>9. Beginning(p)' /\ Ending(p, k)'
  <2>1. Beginning(p)'
    BY <1>2, <1>7 DEF Beginning
  <2>2. /\ Len(Tail(task[p].todo)) = Len(task[p].todo) - 1
        /\ Len(task[p].todo) \in Nat \ {0}
        /\ \A i \in 1..Len(Tail(task[p].todo)) : Tail(task[p].todo)[i] = task[p].todo[i + 1]
    BY <1>2, HeadTailProperties, LenProperties, EmptySeq
  <2>3. k - 1 + Len(task[p].todo) = Len(Order)
    BY <1>2 DEF Ending
  <2>4. k + Len(Tail(task[p].todo)) = Len(Order)
    BY <1>2, <2>2, <2>3
  <2>5. \A i \in 1..Len(Tail(task[p].todo)) : Tail(task[p].todo)[i] = Order[k + i]
    <3> SUFFICES ASSUME NEW i \in 1..Len(Tail(task[p].todo))
                 PROVE  Tail(task[p].todo)[i] = Order[k + i]
      OBVIOUS
    <3> DEFINE l == Len(task[p].todo)
    <3>1. i + 1 \in 1..l /\ k - 1 + (i + 1) = k + i
      <4>1. l \in Nat /\ k \in Nat /\ i \in 1..(l - 1)
        BY <2>2
      <4> HIDE DEF l
      <4> QED
        BY <4>1
    <3> QED
      BY <1>2, <2>2, <3>1 DEF Ending
  <2> QED
    BY <1>7, <2>1, <2>4, <2>5 DEF Ending
<1>10. Written(p, k)'
  <2> SUFFICES ASSUME NEW i \in 1..k
               PROVE  Has(p, Order[i])' /\ dir'[p][Order[i]] \in {Holding(task[p].want), Mine}
    BY <1>7 DEF Written
  <2>1. CASE Order[i] = n
    BY <2>1, <1>4
  <2>2. CASE Order[i] # n
    <3>1. i \in 1..(k - 1)
      BY <2>2, <1>2
    <3> QED
      BY <2>2, <3>1, <1>2, <1>4 DEF Written
  <2> QED
    BY <2>1, <2>2
<1>11. Progress(p)'
  BY <1>2, <1>7, <1>9, <1>10 DEF Progress
<1>12. Crowned(p)'
  <2> SUFFICES ASSUME NEW v \in Revision, Has(p, Manifest)', dir'[p][Manifest] = Holding(v)
               PROVE  /\ \A m \in Page : Has(p, m)' /\ dir'[p][m] \in {Holding(v), Mine}
                      /\ v = task'[p].want /\ task'[p].pc # "filling"
                      /\ Len(task'[p].created) = Len(Order)
    BY DEF Crowned
  <2>1. n = Manifest
    BY <1>2, <1>4
  <2>2. v = task[p].want /\ k = Len(Order)
    BY <2>1, <1>2, <1>4, Distinct
  <2>3. \A m \in Page : Has(p, m)' /\ dir'[p][m] \in {Holding(v), Mine}
    BY <2>2, <1>7, <1>10, ManifestIsLast DEF Written
  <2> QED
    BY <2>2, <2>3, <1>2, <1>7
<1>13. Copied(p)'
  BY <1>7 DEF Copied
<1> QED
  BY <1>4, <1>5, <1>8, <1>11, <1>12, <1>13, OneCommand DEF At, Functional

LEMMA ResultOfFailToFill ==
    ASSUME OutputsInv, NEW p \in Command, FailToFill(p)
    PROVE  OutputsInv'
<1> DEFINE n == Name(p)
<1>1. task[p].pc = "filling"
  BY DEF FailToFill
<1>2. PICK k \in Nat \ {0} :
        /\ Len(task[p].created) = k /\ k <= Len(Order) /\ n = Order[k]
        /\ n \in Members /\ (n = Manifest => k = Len(Order))
        /\ task[p].todo \in Seq(Members) /\ task[p].todo # <<>>
        /\ Beginning(p) /\ Ending(p, k - 1) /\ Written(p, k - 1)
        /\ Has(p, n) /\ dir[p][n] = Nothing
        /\ dir[p] # NoDir /\ task[p].want \in Revision
        /\ \A v \in Revision : ~(Has(p, Manifest) /\ dir[p][Manifest] = Holding(v))
  BY <1>1, AtFilling
<1>3. n \in Names
  BY <1>2, Distinct
<1>4. /\ dir' = [q \in Command |-> dir'[q]]
      /\ \A q \in Command \ {p} : dir'[q] = dir[q]
      /\ dir'[p] # NoDir /\ DOMAIN dir'[p] \subseteq Names
      /\ \A m : Has(p, m)' <=> Has(p, m) \/ m = n
      /\ dir'[p][n] = Partly
      /\ \A m : Has(p, m) /\ m # n => dir'[p][m] = dir[p][m]
  BY <1>2, <1>3, Writes DEF FailToFill
<1>5. /\ task' = [q \in Command |-> task'[q]]
      /\ \A q \in Command \ {p} : task'[q] = task[q]
      /\ task'[p] \in [pc : Places, want : Revision \cup {"none"},
                       todo : Seq(Members), created : Seq(Members)]
      /\ task'[p].pc = "undoing" /\ task'[p].want = task[p].want
      /\ task'[p].created = task[p].created
  BY Goes DEF FailToFill, Places
<1>6. Typed(p)' /\ Beginning(p)'
  BY <1>2, <1>4, <1>5 DEF Typed, Beginning
<1>7. ASSUME k = Len(Order)
      PROVE  Written(p, k - 1)'
  <2> SUFFICES ASSUME NEW i \in 1..(k - 1)
               PROVE  Has(p, Order[i])' /\ dir'[p][Order[i]] \in {Holding(task[p].want), Mine}
    BY <1>5 DEF Written
  <2>1. Order[i] # n
    BY <1>2, <1>7, ManifestIsLast, Distinct
  <2> QED
    BY <2>1, <1>2, <1>4 DEF Written
<1>8. Progress(p)'
  BY <1>2, <1>5, <1>6, <1>7 DEF Progress
<1>9. Crowned(p)' /\ Copied(p)'
  BY <1>2, <1>4, <1>5, Distinct DEF Crowned, Copied
<1> QED
  BY <1>4, <1>5, <1>6, <1>8, <1>9, OneCommand DEF At, Functional

LEMMA ResultOfConclude ==
    ASSUME OutputsInv, NEW p \in Command, Conclude(p)
    PROVE  OutputsInv'
<1>1. /\ task[p].pc = "writing" /\ task[p].todo = <<>> /\ UNCHANGED dir
      /\ At(p) /\ AtWork(p) /\ task[p].want \in Revision /\ dir[p] # NoDir
  BY DEF Conclude, OutputsInv, AtWork, At, Typed
<1>2. CASE p = "publish" /\ End(p)
  BY <1>1, <1>2, Ends, AtRest DEF OutputsInv, Functional
<1>3. CASE p # "publish" /\ Goto(p, "copied")
  <2>1. p = "compose"
    BY <1>3 DEF Command
  <2> QED
    <3>1. /\ Functional' /\ \A q \in Command \ {p} : dir'[q] = dir[q] /\ task'[q] = task[q]
          /\ task'[p].pc = "copied" /\ task'[p].want = task[p].want
          /\ task'[p] \in [pc : Places, want : Revision \cup {"none"},
                           todo : Seq(Members), created : Seq(Members)]
      BY <1>1, <1>3, Goes DEF Places, OutputsInv, Functional
    <3> QED
      BY <1>1, <2>1, <3>1, AtRest
<1>4. CASE Goto(p, "undoing")
  <2>1. /\ Functional' /\ \A q \in Command \ {p} : dir'[q] = dir[q] /\ task'[q] = task[q]
        /\ task'[p].pc = "undoing" /\ task'[p].want = task[p].want
        /\ task'[p].created = task[p].created
        /\ task'[p] \in [pc : Places, want : Revision \cup {"none"},
                         todo : Seq(Members), created : Seq(Members)]
    BY <1>1, <1>4, Goes DEF Places, OutputsInv, Functional
  <2>2. Typed(p)' /\ Copied(p)'
    BY <1>1, <2>1 DEF At, Typed, Copied
  <2>3. /\ Beginning(p) /\ Written(p, Len(task[p].created))
        /\ Len(task[p].created) = Len(Order)
    <3>1. task[p].created \in Seq(Members) /\ Len(task[p].todo) = 0
      BY <1>1 DEF At, Typed
    <3>2. Len(task[p].created) \in Nat
      BY <3>1, LenProperties
    <3>3. /\ Beginning(p) /\ Written(p, Len(task[p].created))
          /\ Len(task[p].created) + Len(task[p].todo) = Len(Order)
      BY <1>1 DEF At, Progress, Ending
    <3> QED
      BY <3>1, <3>2, <3>3
  <2>4. Progress(p)'
    <3>1. Len(Order) \in Nat
      BY ManifestIsLast
    <3>2. \A i \in 1..(Len(Order) - 1) :
            Has(p, Order[i])' /\ dir'[p][Order[i]] \in {Holding(task'[p].want), Mine}
      BY <1>1, <2>1, <2>3, <3>1 DEF Written, Has
    <3> QED
      BY <2>1, <2>3, <3>2 DEF Progress, Beginning, Written
  <2>5. Crowned(p)'
    BY <1>1, <2>1, <2>3 DEF At, Crowned, AtWork, Has
  <2> QED
    BY <2>1, <2>2, <2>4, <2>5, OneCommand DEF At
<1> QED
  BY <1>2, <1>3, <1>4 DEF Conclude

LEMMA ResultOfUndo ==
    ASSUME OutputsInv, NEW p \in Command, Undo(p)
    PROVE  OutputsInv'
<1> DEFINE n == Last(task[p].created)
<1>1. /\ task[p].pc = "undoing" /\ task[p].created # <<>>
      /\ At(p) /\ AtWork(p) /\ task[p].want \in Revision /\ dir[p] # NoDir
  BY DEF Undo, OutputsInv, AtWork, At, Typed
<1>2. task[p].created \in Seq(Members)
  BY <1>1 DEF At, Typed
<1>3. PICK k \in Nat \ {0} : Len(task[p].created) = k
  BY <1>1, <1>2, LenProperties, EmptySeq
<1>4. /\ k <= Len(Order) /\ \A i \in 1..k : task[p].created[i] = Order[i]
      /\ n = Order[k]
  BY <1>1, <1>3 DEF At, Progress, Beginning, Last
<1>5. /\ Front(task[p].created) \in Seq(Members)
      /\ Len(Front(task[p].created)) = k - 1
      /\ \A i \in 1..(k - 1) : Front(task[p].created)[i] = Order[i]
  <2>1. \A i \in 1..(k - 1) : task[p].created[i] \in Members
    BY <1>2, <1>3, ElementOfSeq
  <2>2. /\ SubSeq(task[p].created, 1, k - 1) \in Seq(Members)
        /\ Len(SubSeq(task[p].created, 1, k - 1)) =
              IF 1 <= k - 1 THEN (k - 1) - 1 + 1 ELSE 0
        /\ \A i \in 1..((k - 1) - 1 + 1) :
              SubSeq(task[p].created, 1, k - 1)[i] = task[p].created[1 + i - 1]
    BY <2>1, SubSeqProperties
  <2>3. Front(task[p].created) = SubSeq(task[p].created, 1, k - 1)
    BY <1>3 DEF Front
  <2>4. \A i \in 1..(k - 1) : i \in 1..k /\ i \in 1..((k - 1) - 1 + 1) /\ 1 + i - 1 = i
    OBVIOUS
  <2>5. \A i \in 1..(k - 1) : SubSeq(task[p].created, 1, k - 1)[i] = Order[i]
    BY <1>4, <2>2, <2>4
  <2> QED
    BY <2>2, <2>3, <2>5
<1>6. /\ task' = [q \in Command |-> task'[q]]
      /\ \A q \in Command \ {p} : task'[q] = task[q]
      /\ task'[p] = [task[p] EXCEPT !.created = Front(@)]
  BY DEF OutputsInv, Functional, Undo
<1>7. /\ task'[p] \in [pc : Places, want : Revision \cup {"none"},
                       todo : Seq(Members), created : Seq(Members)]
      /\ task'[p].pc = "undoing" /\ task'[p].want = task[p].want
      /\ task'[p].created = Front(task[p].created)
  BY <1>1, <1>5, <1>6 DEF At, Typed
<1>8. /\ dir' = [q \in Command |-> dir'[q]]
      /\ \A q \in Command \ {p} : dir'[q] = dir[q]
      /\ dir'[p] # NoDir /\ DOMAIN dir'[p] \subseteq Names
      /\ \A m : Has(p, m)' => Has(p, m) /\ dir'[p][m] = dir[p][m]
  BY <1>1, Unlinks DEF Undo, OutputsInv, Functional, At, Typed, Has
<1>9. Typed(p)' /\ Copied(p)'
  BY <1>1, <1>7, <1>8 DEF Typed, Copied
<1>10. k - 1 # Len(Order) /\ k - 1 <= Len(Order)
  BY <1>4, ManifestIsLast
<1>11. Progress(p)'
  BY <1>5, <1>7, <1>10 DEF Progress, Beginning
<1>12. Crowned(p)'
  <2> SUFFICES ASSUME NEW v \in Revision, Has(p, Manifest)', dir'[p][Manifest] = Holding(v)
               PROVE  FALSE
    BY DEF Crowned
  <2>1. Has(p, Manifest) /\ dir[p][Manifest] = Holding(v)
    BY <1>8
  <2>2. v = task[p].want /\ k = Len(Order)
    BY <1>1, <1>3, <2>1 DEF At, Crowned
  <2>3. n = Manifest
    BY <1>4, <2>2, ManifestIsLast
  <2>4. Unlink(p, Manifest)
    BY <2>1, <2>2, <2>3 DEF Undo, Removable
  <2> QED
    BY <2>4, <1>1, Unlinks
<1> QED
  BY <1>6, <1>8, <1>9, <1>11, <1>12, OneCommand DEF At, Functional

LEMMA ResultOfRemoveDirectory ==
    ASSUME OutputsInv, NEW p \in Command, RemoveDirectory(p)
    PROVE  OutputsInv'
<1>1. /\ dir' = [q \in Command |-> dir'[q]]
      /\ \A q \in Command \ {p} : dir'[q] = dir[q]
      /\ dir'[p] = dir[p] \/ dir'[p] = NoDir
  BY DEF OutputsInv, Functional, RemoveDirectory
<1>2. End(p)
  BY DEF RemoveDirectory
<1>3. dir'[p] = NoDir => ~Has(p, Manifest)'
  BY DEF Has
<1> QED
  BY <1>1, <1>2, <1>3, Ends, AtRest DEF Functional

\* The receipt is written about a mount that is complete.
LEMMA ResultOfReceiptSteps ==
    ASSUME OutputsInv, NEW p \in Command, Recheck(p) \/ OpenReceipt(p) \/ FillReceipt(p)
    PROVE  OutputsInv'
<1>1. /\ task[p].pc \in {"copied", "receipt", "signing"} /\ UNCHANGED dir
      /\ At(p) /\ task[p].want \in Revision
  BY DEF Recheck, OpenReceipt, FillReceipt, OutputsInv, At, Typed
<1>2. CASE End(p)
  BY <1>1, <1>2, Ends, AtRest DEF OutputsInv, Functional
<1>3. ASSUME NEW pc \in {"receipt", "signing"}, Goto(p, pc), Complete(p, task[p].want)
      PROVE  OutputsInv'
  <2>1. /\ Functional' /\ \A q \in Command \ {p} : dir'[q] = dir[q] /\ task'[q] = task[q]
        /\ task'[p].pc = pc /\ task'[p].want = task[p].want
        /\ task'[p] \in [pc : Places, want : Revision \cup {"none"},
                         todo : Seq(Members), created : Seq(Members)]
    BY <1>1, <1>3, Goes DEF Places, OutputsInv, Functional
  <2>2. ~AtWork(p)' /\ Typed(p)'
    BY <1>1, <2>1 DEF At, Typed, AtWork
  <2>3. Progress(p)' /\ Copied(p)'
    BY <1>1, <1>3, <2>1, <2>2 DEF At, Progress, Copied, Complete
  <2>4. Crowned(p)'
    BY <1>1, <2>2 DEF At, Crowned, Has
  <2> QED
    BY <2>1, <2>2, <2>3, <2>4, OneCommand DEF At
<1>4. task[p].pc = "receipt" => Complete(p, task[p].want)
  BY <1>1 DEF At, Copied
<1> QED
  BY <1>2, <1>3, <1>4 DEF Recheck, OpenReceipt, FillReceipt

LEMMA ResultOfPutOwnFile ==
    ASSUME OutputsInv, NEW p \in Command, PutOwnFile(p)
    PROVE  OutputsInv'
<1>1. /\ dir[p] # NoDir /\ UNCHANGED task /\ At(p)
      /\ task[p].pc \notin {"filling", "receipt", "signing"}
  BY DEF PutOwnFile, OutputsInv
<1>2. PICK n \in Names : Write(p, n, Mine)
  BY DEF PutOwnFile
<1>3. /\ dir' = [q \in Command |-> dir'[q]]
      /\ \A q \in Command \ {p} : dir'[q] = dir[q]
      /\ dir'[p] # NoDir /\ DOMAIN dir'[p] \subseteq Names
      /\ \A m : Has(p, m) => Has(p, m)' /\ dir'[p][m] \in {Mine, dir[p][m]}
      /\ \A m, v : Has(p, m)' /\ dir'[p][m] # Mine => Has(p, m) /\ dir'[p][m] = dir[p][m]
  BY <1>1, <1>2, Writes
<1>4. Typed(p)' /\ Copied(p)'
  BY <1>1, <1>3 DEF At, Typed, Copied, AtWork
<1>5. \A k : Written(p, k) => Written(p, k)'
  BY <1>1, <1>3 DEF Written
<1>6. Progress(p)'
  BY <1>1, <1>5 DEF At, Progress, Beginning, Ending, AtWork
<1>7. Crowned(p)'
  BY <1>1, <1>3, Distinct DEF At, Crowned, AtWork
<1> QED
  BY <1>1, <1>3, <1>4, <1>6, <1>7, OneCommand DEF At, OutputsInv, Functional

LEMMA ResultOfTakePlace ==
    ASSUME OutputsInv, NEW p \in Command, TakePlace(p)
    PROVE  OutputsInv'
<1>1. /\ dir[p] = NoDir /\ UNCHANGED task /\ At(p)
      /\ dir' = [dir EXCEPT ![p] = [n \in {"own"} |-> Mine]]
  BY DEF TakePlace, OutputsInv
<1>2. /\ dir' = [q \in Command |-> dir'[q]] /\ dir'[p] = [n \in {"own"} |-> Mine]
      /\ \A q \in Command \ {p} : dir'[q] = dir[q]
  BY <1>1 DEF OutputsInv, Functional
<1>3. DOMAIN dir'[p] = {"own"} /\ DOMAIN NoDir = {"none"}
  BY <1>2 DEF NoDir
<1>4. dir'[p] # NoDir /\ DOMAIN dir'[p] \subseteq Names
  BY <1>3 DEF Names
<1>5. ~AtWork(p) /\ task[p].pc \notin {"receipt", "signing"}
  BY <1>1 DEF At, Typed, Copied, Complete
<1>6. ~AtWork(p)' /\ Typed(p)' /\ Progress(p)' /\ Copied(p)'
  BY <1>1, <1>4, <1>5 DEF At, Typed, Progress, Copied, AtWork
<1>7. \A m : Has(p, m)' => dir'[p][m] = Mine
  BY <1>2, <1>3 DEF Has
<1>8. Crowned(p)'
  BY <1>7, Distinct DEF Crowned
<1> QED
  BY <1>1, <1>2, <1>6, <1>8, OneCommand DEF At, OutputsInv, Functional

LEMMA ResultOfRetire ==
    ASSUME OutputsInv, NEW p \in Command, Retire(p)
    PROVE  OutputsInv'
<1>1. task[p].pc = "idle" /\ UNCHANGED task /\ dir' = [dir EXCEPT ![p] = NoDir] /\ At(p)
  BY DEF Retire, OutputsInv
<1>2. /\ dir' = [q \in Command |-> dir'[q]] /\ dir'[p] = NoDir
      /\ \A q \in Command \ {p} : dir'[q] = dir[q]
  BY <1>1 DEF OutputsInv, Functional
<1>3. ~Has(p, Manifest)'
  BY <1>2 DEF Has
<1> QED
  BY <1>1, <1>2, <1>3, AtRest DEF At, Typed, OutputsInv, Functional

-----------------------------------------------------------------------------
LEMMA OutputsStart == Init => OutputsInv
<1> SUFFICES ASSUME Init PROVE OutputsInv
  OBVIOUS
<1>1. Functional
  BY DEF Init, Functional
<1>2. ASSUME NEW p \in Command PROVE At(p)
  <2>1. dir[p] = NoDir /\ task[p] = Idle
    BY DEF Init
  <2>2. task[p].pc = "idle" /\ Typed(p)
    BY <2>1 DEF Typed, AtWork, Idle, Places
  <2> QED
    BY <2>1, <2>2 DEF At, Progress, Crowned, Copied, AtWork, Has
<1> QED
  BY <1>1, <1>2 DEF OutputsInv

LEMMA OutputsStep ==
    ASSUME OutputsInv, [Next]_vars
    PROVE  OutputsInv'
<1>1. ASSUME NEW p \in Command, Run(p)
      PROVE  OutputsInv'
  BY <1>1, ResultOfStart, ResultOfMakeDirectory, ResultOfCreate, ResultOfFill,
     ResultOfFailToFill, ResultOfConclude, ResultOfUndo, ResultOfRemoveDirectory,
     ResultOfReceiptSteps DEF Run
<1>2. ASSUME NEW p \in Command, Kill(p)
      PROVE  OutputsInv'
  BY <1>2, Ends, AtRest DEF Kill, OutputsInv, Functional
<1>3. ASSUME NEW p \in Command, TakePlace(p) \/ PutOwnFile(p) \/ Retire(p)
      PROVE  OutputsInv'
  BY <1>3, ResultOfTakePlace, ResultOfPutOwnFile, ResultOfRetire
<1>4. CASE UNCHANGED <<dir, task>>
  BY <1>4, OtherCommand DEF OutputsInv, Functional
<1> QED
  BY <1>1, <1>2, <1>3, <1>4 DEF Next, ChangeInputs, ChangeAuthority, vars

\* An output that has its manifest has all its members, wherever a command was
\* killed or failed (site_files.py:147-160, federation_files.py write_bundle).
THEOREM ManifestsAreComplete == Spec => []ManifestMeansComplete
<1>1. OutputsInv => ManifestMeansComplete
  BY DEF OutputsInv, At, Crowned, ManifestMeansComplete
<1> QED
  BY OutputsStart, OutputsStep, <1>1, PTL DEF Spec

\* Nothing the owner has put into an output is replaced or removed by a command
\* (site_files.py: open("xb"), and the cleanup's comparison).
THEOREM OwnersFilesStay == Spec => CallersFilesKept
<1>1. ASSUME OutputsInv, [Next]_vars
      PROVE  [task' # task =>
                \A p \in Command : \A n \in Names :
                    Has(p, n) /\ dir[p][n] = Mine => Has(p, n)' /\ dir'[p][n] = Mine]_vars
  <2> SUFFICES ASSUME task' # task, NEW p \in Command, NEW n \in Names,
                      Has(p, n), dir[p][n] = Mine
               PROVE  Has(p, n)' /\ dir'[p][n] = Mine
    OBVIOUS
  <2>1. PICK q \in Command : Run(q) \/ Kill(q)
    BY <1>1 DEF Next, TakePlace, PutOwnFile, Retire, ChangeInputs, ChangeAuthority, vars
  <2>2. CASE dir'[p] = dir[p]
    BY <2>2 DEF Has
  <2>3. ASSUME dir' # dir
        PROVE  MakeDirectory(q) \/ Create(q) \/ Fill(q) \/ FailToFill(q) \/ Undo(q) \/ RemoveDirectory(q)
    BY <2>1, <2>3 DEF Run, Start, Conclude, Recheck, OpenReceipt, FillReceipt, Kill
  <2>4. ASSUME MakeDirectory(q) \/ RemoveDirectory(q)
        PROVE  dir'[p] = dir[p]
    <3>1. dir' = dir \/ (dir[q] \in {NoDir, <<>>} /\ \E d : dir' = [dir EXCEPT ![q] = d])
      BY <2>4 DEF MakeDirectory, RemoveDirectory
    <3>2. DOMAIN <<>> = {}
      OBVIOUS
    <3>3. p # q \/ dir' = dir
      BY <3>1, <3>2 DEF Has
    <3> QED
      BY <1>1, <3>1, <3>3 DEF OutputsInv, Functional
  <2>5. CASE Create(q) /\ dir' # dir
    <3>1. ~Has(q, Name(q)) /\ Write(q, Name(q), Nothing)
      BY <2>5 DEF Create
    <3>2. p = q => n # Name(q)
      BY <3>1
    <3>3. /\ \A r \in Command \ {q} : dir'[r] = dir[r]
          /\ dir'[q] = [m \in DOMAIN dir[q] \cup {Name(q)} |->
                          IF m = Name(q) THEN Nothing ELSE dir[q][m]]
      BY <3>1, <1>1 DEF Write, OutputsInv, Functional
    <3>4. p = q => n \in DOMAIN dir'[p] /\ dir'[p][n] = Mine
      BY <3>2, <3>3 DEF Has
    <3>5. dir'[p] = NoDir => DOMAIN dir'[p] = {"none"}
      BY DEF NoDir
    <3> QED
      BY <2>2, <3>3, <3>4, <3>5, Distinct DEF Has
  <2>6. CASE Fill(q) \/ FailToFill(q)
    <3>1. Has(q, Name(q)) /\ dir[q][Name(q)] = Nothing
      BY <2>6, <1>1, AtFilling DEF Fill, FailToFill
    <3>2. \E c : Write(q, Name(q), c)
      BY <2>6 DEF Fill, FailToFill
    <3>3. dir[q] # NoDir /\ Name(q) \in Names
      BY <2>6, <1>1, AtFilling, Distinct DEF Fill, FailToFill
    <3> QED
      BY <1>1, <2>2, <3>1, <3>2, <3>3, Writes, Distinct
  <2>7. CASE Undo(q) /\ dir' # dir
    <3>1. Removable(q, Last(task[q].created)) /\ Unlink(q, Last(task[q].created))
      BY <2>7 DEF Undo
    <3>2. dir[q] # NoDir /\ task[q].want \in Revision
      BY <1>1, <2>7 DEF Undo, OutputsInv, At, Typed, AtWork
    <3>3. p = q => n # Last(task[q].created)
      BY <3>1, <3>2, Distinct DEF Removable
    <3> QED
      BY <1>1, <2>2, <3>1, <3>2, <3>3, Unlinks
  <2> QED
    BY <2>2, <2>3, <2>4, <2>5, <2>6, <2>7
<1>2. OutputsInv /\ [Next]_vars =>
        [task' # task =>
            \A p \in Command : \A n \in Names :
                Has(p, n) /\ dir[p][n] = Mine => Has(p, n)' /\ dir'[p][n] = Mine]_vars
  BY <1>1
<1> QED
  BY OutputsStart, OutputsStep, <1>2, PTL DEF Spec, CallersFilesKept

\* A portal's receipt is given for a mount that is complete to the last member
\* (portal.py PortalComposition.apply).
THEOREM ReceiptsAreTrue == Spec => ReceiptNamesComplete
<1>1. OutputsInv /\ [Next]_vars =>
        [receipt' # receipt /\ receipt' \in {Holding(v) : v \in Revision} =>
            \A n \in Members : Has("compose", n) /\ dir["compose"][n] = receipt']_vars
  <2> SUFFICES ASSUME OutputsInv, [Next]_vars, receipt' # receipt,
                      receipt' \in {Holding(v) : v \in Revision}
               PROVE  \A n \in Members : Has("compose", n) /\ dir["compose"][n] = receipt'
    OBVIOUS
  <2>1. receipt' \notin {Nothing, Holding("none")}
    BY Distinct
  <2>2. PICK p \in Command : FillReceipt(p)
    BY <2>1 DEF Next, Run, Start, MakeDirectory, Create, Fill, FailToFill, Conclude, Undo,
       RemoveDirectory, Recheck, OpenReceipt, Kill, TakePlace, PutOwnFile, Retire,
       ChangeInputs, ChangeAuthority, vars
  <2>3. p = "compose" /\ Complete(p, task[p].want) /\ receipt' = Holding(task[p].want)
    BY <2>2 DEF FillReceipt, OutputsInv, At, Copied
  <2> QED
    BY <2>3 DEF Complete, Has
<1> QED
  BY OutputsStart, OutputsStep, <1>1, PTL DEF Spec, ReceiptNamesComplete

=============================================================================

----------------------------- MODULE ScopedQuery -----------------------------
(***************************************************************************)
(* A query against gardens that are written, rolled back and closed to it  *)
(* meanwhile (application/query.py).  The query reads nothing at once: the *)
(* metadata of each garden in turn, then the bodies of each, and before it *)
(* returns it asks its authority and every garden again.                   *)
(*                                                                         *)
(* The writer is a group apply (GroupApply) reduced to what a reader can   *)
(* see of it: locks, trees that go away and come back, and a roll-back.  A *)
(* writer that is killed and recovered later looks to it like a slow one.  *)
(***************************************************************************)
EXTENDS Retrieval

CONSTANTS
    Gardens,            \* how many gardens the session can read: 1..Gardens
    World,              \* what the gardens may hold, and the session of each
    Records(_, _, _),   \* the table of a garden in a world, before or after the write
    Session(_),         \* the session of a world
    Operation,          \* the projections that can be asked for
    Target,             \* the sets of gardens a group apply may be about
    Checks              \* how often authority is asked again after the bodies are read

Garden == 1..Gardens

ASSUME SomeGardens == Gardens \in Nat \ {0}
ASSUME TargetsAreGardens == Target \subseteq SUBSET Garden
ASSUME SomeChecks == Checks \in Nat \ {0}

Tree == {"before", "after", "gone"}

ASSUME ProjectionsAreKnown ==
    Operation \subseteq {"index", "search", "unreviewed", "graph", "backlinks", "outbound",
                        "context", "llms", "evidence"}

\* A record is in one garden and says which; its scope, if it has one, is valid, and
\* its identity, its score and its size are numbers.
ASSUME RecordsAreOwned ==
    \A w \in World : \A g, h \in Garden : \A t, u \in {"before", "after"} :
        LET R == Records(w, g, t)
        IN  /\ IsFiniteSet(DOMAIN R)
            /\ DOMAIN R \subseteq Nat
            /\ \A i \in DOMAIN R : /\ R[i].garden = g
                                   /\ R[i].own \in Scopes \cup {NoScope}
                                   /\ {R[i].score, R[i].size} \subseteq Nat
            /\ g # h => DOMAIN R \cap DOMAIN Records(w, h, u) = {}

\* A session reads registered gardens; its scopes and the registry's are valid, and
\* its budgets are numbers.
ASSUME SessionsAreValid ==
    \A w \in World : LET session == Session(w)
                     IN  /\ session.readable \subseteq Garden
                         /\ session.scopes \in [Garden -> Scopes]
                         /\ session.request \in Scopes
                         /\ session.publication \in Level
                         /\ session.execution \in Level
                         /\ {session.budget, session.depth, session.results, session.bytes,
                             session.profile.candidates, session.profile.items,
                             session.profile.bytes} \subseteq Nat
                         /\ session.profile.include \in Seq(Nat)

VARIABLES
    store,      \* the table of every garden, before and after the write; fixed
    S,          \* the session; fixed
    pinned,     \* the view the session was made for; fixed
    tree,       \* which .garden of each root is in place
    locks,      \* the gardens with a .mindgarden-write.lock
    writer,     \* the group apply
    query,      \* the query in progress
    withdrawn,  \* the session has expired, been revoked, edited, or its garden rebound
    warned,     \* ghost: it was withdrawn before the query asked for the last time
    undone,     \* ghost: a tree that was in place has been rolled back
    due         \* ghost: what the session promises, by definition; fixed

fixed == <<store, S, pinned, due>>
vars == <<store, S, pinned, tree, locks, writer, query, withdrawn, warned, undone, due>>

\* The table a reader gets who finds these trees in place.
TableOf(trees) ==
    LET here == [g \in Garden |-> store[g][trees[g]]]
    IN  [i \in UNION {DOMAIN here[g] : g \in Garden} |->
            here[CHOOSE g \in Garden : i \in DOMAIN here[g]][i]]

Reading == SelectedGardens(S)

NextGarden(g) == IF \E h \in Reading : h > g
                 THEN Min({h \in Reading : h > g}) ELSE Gardens + 1
FirstGarden == NextGarden(0)

Original == [g \in Garden |-> "before"]
Unread == [g \in Garden |-> "gone"]

NoQuery == [pc |-> "idle", garden |-> 0, seen |-> Unread, opened |-> Unread,
            again |-> Unread, checks |-> 0, view |-> <<>>, answer |-> <<>>]

(***************************************************************************)
(* What is answered: a function of the view and of what could be opened.   *)
(***************************************************************************)
Held(view, seen, opened) == {i \in view.ids : i \in DOMAIN opened /\ opened[i] = seen[i]}

\* (mutant of OutputScope: what contributes is left out)
RequestScope(session, contributing) == session.request

\* output_scope: the request and the session's authority join what contributes.
OutputScope(session, contributing) ==
    Inherit({session.request, [session.request EXCEPT !.publication = session.publication,
                                                      !.execution = session.execution]}
            \cup contributing)

AnswerOf(session, view, R, held, entries, wider, edges) ==
    LET reversed == {[e EXCEPT !.from = e.to, !.to = e.from] : e \in edges}
        best == IF session.limit < session.results THEN session.limit ELSE session.results
        ids == [op \in Operation |->
                  CASE op = "index"      -> entries
                    [] op = "search"     -> FirstRanked(R, entries, best)
                    [] op = "unreviewed" -> FirstRanked(R, wider, best)
                    [] op = "graph"      -> Traverse(session, entries, edges, session.start,
                                                     session.depth)
                    [] op = "backlinks"  -> FirstOf(Neighbours(reversed, session.start),
                                                    session.results)
                    [] op = "outbound"   -> FirstOf(Neighbours(edges, session.start),
                                                    session.results)
                    [] op = "context"    -> Pack(session, session.profile, R,
                                                 entries).selected
                    [] op = "llms"       -> Entrypoint(session, R, entries)
                    [] op = "evidence"   -> Citing(R, entries, session.source)]
    IN  [held   |-> held,
         ids    |-> ids,
         cited  |-> UNION {Citations(R, i) : i \in UNION {ids[op] : op \in Operation}},
         pack   |-> Pack(session, session.profile, R, entries),
         scope  |-> OutputScope(session, {EntryScope(view, R, i) : i \in entries \cup wider}
                                         \cup {e.scope : e \in edges})]

AnswerWith(session, view, R, held, entries) ==
    AnswerOf(session, view, R, held, entries, Entries(session, view, R, held, TRUE),
             Edges(session, view, R, held, entries))

\* Of the tables only the records of the view are looked at.
Answer(session, view, R, held) ==
    LET known == Restrict(R, view.ids)
    IN  AnswerWith(session, view, known, held, Entries(session, view, known, held, FALSE))

Answered == query.pc \in {"answered", "written"}
Returned == query.pc \in {"answered", "written", "refused"}

\* Who may see what, said without the algorithm: a record is authorized when
\* everything it leads to exists and is permitted, and all of their scopes joined
\* are allowed.
Ancestry(A, i) ==
    LET found[n \in 0..Cardinality(DOMAIN A)] ==
            IF n = 0 THEN {i}
            ELSE LET now == found[n - 1]
                 IN  now \cup UNION {Dependencies(A[j]) : j \in now \cap DOMAIN A}
    IN  found[Cardinality(DOMAIN A)]

MayBeShown(session, A, i) ==
    /\ Ancestry(A, i) \subseteq Public(session, A)
    /\ AllowsScope(session, Inherit({DeclaredScope(session, A[j]) : j \in Ancestry(A, i)}))

\* bind_session_revisions: the session pins the view it was made for.
Init ==
    /\ \E w \in World :
          /\ S = Session(w)
          /\ store = [g \in Garden |-> [t \in Tree |->
                        IF t = "gone" THEN <<>> ELSE Records(w, g, t)]]
    /\ \E R \in {TableOf(Original)} : \E A \in {Admitted(S, R)} :
          /\ pinned = View(S, R)
          /\ ~ pinned.broken
          /\ due = [shown |-> {i \in DOMAIN A : MayBeShown(S, A, i)},
                    answer |-> Answer(S, pinned, R, pinned.ids)]
    /\ tree = Original
    /\ locks = {}
    /\ writer = [pc |-> "idle", targets |-> {}, committed |-> FALSE]
    /\ query = NoQuery
    /\ withdrawn = FALSE
    /\ warned = FALSE
    /\ undone = FALSE

(***************************************************************************)
(* The query.                                                              *)
(***************************************************************************)

\* (mutant of Live: only locks are looked at)
NoLocks == locks \cap Reading = {}

\* check_live up to the views: authority, bindings and locks.
Live == ~ withdrawn /\ locks \cap Reading = {}

Refuse == query' = [NoQuery EXCEPT !.pc = "refused"]

\* QueryContext.load and require: authority first, and every root bound.
Open ==
    /\ query.pc = "idle"
    /\ IF Live /\ \A g \in Reading : tree[g] # "gone"
       THEN query' = [query EXCEPT !.pc = "viewing", !.garden = FirstGarden]
       ELSE Refuse
    /\ UNCHANGED <<fixed, tree, locks, writer, withdrawn, warned, undone>>

\* metadata_view, one garden: a tree that is away is an integrity error.
ReadMetadata ==
    /\ query.pc = "viewing"
    /\ query.garden \in Garden
    /\ IF tree[query.garden] = "gone" THEN Refuse
       ELSE query' = [query EXCEPT !.seen[query.garden] = tree[query.garden],
                                   !.garden = NextGarden(query.garden)]
    /\ UNCHANGED <<fixed, tree, locks, writer, withdrawn, warned, undone>>

\* snapshots: the view must be the one the session pins.
CheckPins ==
    /\ query.pc = "viewing"
    /\ query.garden \notin Garden
    /\ \E R \in {TableOf(query.seen)} : \E view \in {View(S, R)} :
          IF view.broken \/ view.revision # pinned.revision THEN Refuse
          ELSE query' = [query EXCEPT
                            !.pc = IF FirstGarden \in Garden THEN "opening" ELSE "checking",
                            !.garden = FirstGarden, !.checks = Checks, !.view = view]
    /\ UNCHANGED <<fixed, tree, locks, writer, withdrawn, warned, undone>>

\* snapshots, one garden of the second pass: only records still equal to the
\* view's are opened; the others are left out without a word.
ReadBodies ==
    /\ query.pc = "opening"
    /\ IF tree[query.garden] = "gone" THEN Refuse
       ELSE LET next == NextGarden(query.garden)
            IN  query' = [query EXCEPT
                            !.opened[query.garden] = tree[query.garden],
                            !.garden = next,
                            !.pc = IF next \in Garden THEN "opening" ELSE "checking"]
    /\ UNCHANGED <<fixed, tree, locks, writer, withdrawn, warned, undone>>

\* check_live, its first half.
CheckLive ==
    /\ query.pc = "checking"
    /\ IF Live THEN query' = [query EXCEPT !.pc = "rechecking", !.garden = FirstGarden]
       ELSE Refuse
    /\ UNCHANGED <<fixed, tree, locks, writer, withdrawn, warned, undone>>

\* check_live, its second half, one garden.
ReadAgain ==
    /\ query.pc = "rechecking"
    /\ query.garden \in Garden
    /\ IF tree[query.garden] = "gone" THEN Refuse
       ELSE query' = [query EXCEPT !.again[query.garden] = tree[query.garden],
                                   !.garden = NextGarden(query.garden)]
    /\ UNCHANGED <<fixed, tree, locks, writer, withdrawn, warned, undone>>

\* (mutant of Conclude: the views are read again but not compared)
ConcludeUnread ==
    /\ query.pc = "rechecking"
    /\ query.garden \notin Garden
    /\ \E R \in {TableOf(query.again)} : \E again \in {View(S, R)} :
          IF again.broken THEN Refuse
          ELSE IF query.checks > 1
          THEN query' = [query EXCEPT !.pc = "checking", !.again = Unread, !.checks = @ - 1]
          ELSE \E seen \in {TableOf(query.seen)}, opened \in {TableOf(query.opened)},
                  end \in {"answered", "writing"} :
                 query' = [query EXCEPT
                             !.pc = end, !.again = Unread, !.checks = 0,
                             !.answer = Answer(S, query.view, seen,
                                               Held(query.view, seen, opened))]
    /\ UNCHANGED <<fixed, tree, locks, writer, withdrawn, warned, undone>>

\* The views are as they were: go on, and after the last time print the answer or
\* write it to the projection cache.
Conclude ==
    /\ query.pc = "rechecking"
    /\ query.garden \notin Garden
    /\ \E R \in {TableOf(query.again)} : \E again \in {View(S, R)} :
          IF again.broken \/ again.revision # pinned.revision THEN Refuse
          ELSE IF query.checks > 1
          THEN query' = [query EXCEPT !.pc = "checking", !.again = Unread, !.checks = @ - 1]
          ELSE \E seen \in {TableOf(query.seen)}, opened \in {TableOf(query.opened)},
                  end \in {"answered", "writing"} :
                 query' = [query EXCEPT
                             !.pc = end, !.again = Unread, !.checks = 0,
                             !.answer = Answer(S, query.view, seen,
                                               Held(query.view, seen, opened))]
    /\ UNCHANGED <<fixed, tree, locks, writer, withdrawn, warned, undone>>

\* write_projection: the cache is in a garden, and takes only what its scope carries.
WriteProjection ==
    /\ query.pc = "writing"
    /\ LET view == query.view
           output == OutputScope(S, {S.scopes[g] : g \in Reading}
                                    \cup {view.scopes[i] : i \in view.ids})
       IN  IF /\ Live
              /\ S.writable \in Reading
              /\ Decide("write", {output}, S.scopes[S.writable], FALSE) = "allow"
           THEN query' = [query EXCEPT !.pc = "written"]
           ELSE Refuse
    /\ UNCHANGED <<fixed, tree, locks, writer, withdrawn, warned, undone>>

(***************************************************************************)
(* The writer, as a reader can see it.                                     *)
(***************************************************************************)
BeginWrite(targets) ==
    /\ writer.pc = "idle"
    /\ writer' = [writer EXCEPT !.pc = "locking", !.targets = targets]
    /\ UNCHANGED <<fixed, tree, locks, query, withdrawn, warned, undone>>

LockGarden ==
    /\ writer.pc = "locking"
    /\ LET free == writer.targets \ locks
       IN  IF free = {}
           THEN writer' = [writer EXCEPT !.pc = "selecting"] /\ UNCHANGED locks
           ELSE locks' = locks \cup {Min(free)} /\ UNCHANGED writer
    /\ UNCHANGED <<fixed, tree, query, withdrawn, warned, undone>>

\* One rename of the selection: the old tree away, or the staged one in.
SelectTree ==
    /\ writer.pc = "selecting"
    /\ LET left == {g \in writer.targets : tree[g] # "after"}
       IN  IF left = {}
           THEN /\ writer' = [writer EXCEPT !.pc = "unlocking", !.committed = TRUE]
                /\ UNCHANGED tree
           ELSE /\ tree' = [tree EXCEPT ![Min(left)] =
                              IF tree[Min(left)] = "before" THEN "gone" ELSE "after"]
                /\ UNCHANGED writer
    /\ UNCHANGED <<fixed, locks, query, withdrawn, warned, undone>>

\* A selection fails: everything that was selected goes back.
FailWrite ==
    /\ writer.pc = "selecting"
    /\ writer' = [writer EXCEPT !.pc = "undoing"]
    /\ UNCHANGED <<fixed, tree, locks, query, withdrawn, warned, undone>>

UndoTree ==
    /\ writer.pc = "undoing"
    /\ LET left == {g \in writer.targets : tree[g] # "before"}
       IN  IF left = {}
           THEN writer' = [writer EXCEPT !.pc = "unlocking"] /\ UNCHANGED <<tree, undone>>
           ELSE /\ tree' = [tree EXCEPT ![Min(left)] =
                              IF tree[Min(left)] = "after" THEN "gone" ELSE "before"]
                /\ undone' = (undone \/ (tree[Min(left)] = "after"))
                /\ UNCHANGED writer
    /\ UNCHANGED <<fixed, locks, query, withdrawn, warned>>

UnlockGarden ==
    /\ writer.pc = "unlocking"
    /\ LET held == writer.targets \cap locks
       IN  IF held = {}
           THEN writer' = [writer EXCEPT !.pc = "done"] /\ UNCHANGED locks
           ELSE locks' = locks \ {Min(held)} /\ UNCHANGED writer
    /\ UNCHANGED <<fixed, tree, query, withdrawn, warned, undone>>

\* The owner revokes, rebinds or edits; or the session expires.
Withdraw ==
    /\ ~ withdrawn
    /\ withdrawn' = TRUE
    /\ warned' = \/ query.pc \in {"idle", "viewing", "opening", "checking"}
                 \/ query.pc = "rechecking" /\ query.checks > 1
    /\ UNCHANGED <<fixed, tree, locks, writer, query, undone>>

QueryStep ==
    \/ Open \/ ReadMetadata \/ CheckPins \/ ReadBodies
    \/ CheckLive \/ ReadAgain \/ Conclude \/ WriteProjection

WriterStep ==
    \/ \E targets \in Target : BeginWrite(targets)
    \/ LockGarden \/ SelectTree \/ FailWrite \/ UndoTree \/ UnlockGarden

\* The world is followed until the query has returned.
Next == QueryStep \/ (~ Returned /\ (WriterStep \/ Withdraw))

Spec == Init /\ [][Next]_vars

(***************************************************************************)
(* Properties.                                                             *)
(***************************************************************************)
\* Whatever interleaving of the reads with writes and roll-backs, nothing is
\* answered, cited or held open that the table the session was made for does not
\* authorize with all its evidence (query_view.py, retrieval.py: build_index).
AnswersAreAuthorized ==
    Answered =>
        /\ query.answer.held \subseteq due.shown
        /\ query.answer.cited \subseteq query.answer.held
        /\ \A op \in Operation : query.answer.ids[op] \subseteq query.answer.held

\* A write that changes no more of some record than links the session does not see.
Relinks ==
    LET seen(r) == [r EXCEPT !.links = @ \cap pinned.ids]
    IN  \E g \in Reading : \E i \in pinned.ids \cap DOMAIN store[g]["before"]
                                              \cap DOMAIN store[g]["after"] :
            /\ store[g]["before"][i] # store[g]["after"][i]
            /\ seen(store[g]["before"][i]) = seen(store[g]["after"][i])

\* An answer is the whole answer of the revisions it names, with two exceptions that
\* pass every check and leave records out, since the second reading keeps those alone
\* that are equal as a whole to the first (query.py: snapshots): a writer rolled a tree
\* back that was in place while the query ran, or changed hidden links of a visible
\* record, of which no revision tells.
AnswersAreComplete ==
    Answered /\ ~ undone /\ ~ Relinks => query.answer = due.answer

\* No answer is given whose authority was withdrawn before it was last asked for
\* (query.py: check_live after serialization).
AnswersStand == Answered => ~ warned

\* Records the session may not read, or may not read all evidence of, change nothing
\* it sees: not the view, not a revision, not what fits in a budget (query_view.py).
\* A permitted transition is the exception: it retires its original, and must find
\* it intact, even when the successor is denied.
DeniedLeaveNoTrace ==
    query.pc = "idle" /\ writer.pc \in {"idle", "done"} /\ ~ withdrawn =>
        \A R \in {TableOf(tree)} : \A readable \in {Admitted(S, R)} : \A view \in {View(S, R)} :
            LET moves == {i \in DOMAIN readable : R[i].moved # NoMove}
                kept == {i \in DOMAIN readable : MayBeShown(S, readable, i)} \cup moves
                          \cup {R[i].moved.from : i \in moves}
            IN  /\ View(S, readable) = view
                /\ View(S, Restrict(readable, kept \cap DOMAIN readable)).ids = view.ids

\* The scope of an answer is at least as strict as that of everything that took part
\* in it, and a projection is never written where its restrictions are not carried
\* (scope.py: inherit_scope; scope_policy.py; retrieval.py: write_projection).
ScopesDominate ==
    /\ query.pc = "idle" =>
          \A R \in {TableOf(tree)} : \A view \in {View(S, R)} :
              \A i \in view.ids : \A j \in Ancestry(R, i) :
                  AtLeast(view.scopes[i], DeclaredScope(S, R[j]))
    /\ Answered =>
          \A i \in query.answer.cited \cup UNION {query.answer.ids[op] : op \in Operation} :
              AtLeast(query.answer.scope, query.view.scopes[i])
    /\ query.pc = "written" =>
          \A R \in {TableOf(query.seen)} : \A i \in query.view.ids :
              LET home == S.scopes[S.writable]
                  declared == DeclaredScope(S, R[i])
              IN  /\ home.persistence >= declared.persistence
                  /\ home.execution >= declared.execution
                  /\ home.visibility = "public" => declared.visibility = "public"

\* A context pack and an entry point respect their byte ceiling, a pack selects
\* nothing the profile excludes, and it accounts once for each candidate of the longest
\* prefix whose ledger fits, taken or not, if its metadata fits at all; otherwise there
\* is none (retrieval.py: render_context).
PacksFit ==
    Answered /\ Bytes(S, S.profile) >= 1 =>
        LET R == TableOf(query.seen)
            pack == query.answer.pack
            ordered == Considered(S, S.profile, R, query.answer.ids["index"])
        IN  /\ PackSize(R, pack) <= Bytes(S, S.profile)
            /\ pack.selected \cap (DOMAIN pack.reason \cup S.profile.exclude) = {}
            /\ Cardinality(pack.selected) <= S.results
            /\ \E n \in 0..Len(ordered) :
                  /\ PackSize(R, Reserved(SubSeq(ordered, 1, n))) <= Bytes(S, S.profile)
                  /\ pack.selected \cup DOMAIN pack.reason = ToSet(SubSeq(ordered, 1, n))
                  /\ n < Len(ordered) =>
                        PackSize(R, Reserved(SubSeq(ordered, 1, n + 1))) > Bytes(S, S.profile)
            /\ PackSize(R, [selected |-> query.answer.ids["llms"], reason |-> <<>>]) <= S.bytes

=============================================================================

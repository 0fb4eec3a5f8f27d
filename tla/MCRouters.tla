----------------------------- MODULE MCRouters -----------------------------
(***************************************************************************)
(* Two personal gardens and a public one; a note that prefers one garden,  *)
(* a public selection, and a note made of others; and moves and a merge.   *)
(***************************************************************************)
EXTENDS Routers, TLC

Open == [visibility |-> "public", publication |-> 0, execution |-> 0, persistence |-> 0]
Personal == [LocalScope("personal") EXCEPT !.publication = 1]
Stricter == [Personal EXCEPT !.publication = 2]

MCManifest == [g \in {"p", "q", "w"} |->
    [domains |-> IF g = "q" THEN {"d"} ELSE {"d", "e"},
     contracts |-> {"knowledge", "receipt", "synapse"},
     publishes |-> IF g = "w" THEN {"e"} ELSE {}]]

Source(g, n, scope, eligible) ==
    [Blank EXCEPT !.garden = g, !.id = <<n>>, !.kind = "source", !.body = n,
                  !.scope = scope, !.eligible = eligible]
Note(g, n) ==
    [Blank EXCEPT !.garden = g, !.id = <<n>>, !.kind = "knowledge", !.body = n,
                  !.scope = Personal, !.approved = TRUE]

SP == Ref("p", <<"s">>, "s")
SW == Ref("w", <<"s">>, "s")
MCGardens == {[g \in {"p", "q", "w"} |->
    CASE g = "p" -> {Source("p", "s", Personal, FALSE), Note("p", "z")}
      [] g = "q" -> {}
      [] g = "w" -> {Source("w", "s", Open, TRUE)}]}

MCBindings ==
    {[g \in bound |-> IF g = "w" THEN Open ELSE Personal] :
        bound \in {{"p", "w"}, {"p", "q", "w"}}}

Entry(g) == [scope |-> IF g = "w" THEN Open ELSE Personal,
             domains |-> MCManifest[g].domains, contracts |-> MCManifest[g].contracts]
Catalog(digest, gardens, fallback) ==
    [digest |-> digest, entries |-> [g \in gardens |-> Entry(g)], fallback |-> fallback]

\* All gardens, or q is not offered.
MCCatalogs == {Catalog("all", {"p", "q", "w"}, "p"), Catalog("less", {"p", "w"}, "p")}

Out(n, domain, approved) ==
    [id |-> <<n>>, body |-> n, domains |-> {domain}, approved |-> approved]
Candidate(id, sources, merge, output) ==
    [id |-> id, sources |-> sources, merge |-> merge, output |-> output]
Route(preferred, relevant, public) ==
    [preferred |-> preferred, relevant |-> relevant, public |-> public]
Request(id, digest, candidates, routes) ==
    [id |-> id, digest |-> digest, controller |-> "p", human |-> TRUE,
     candidates |-> candidates, routes |-> routes]

QX == Ref("q", <<"x">>, "x")
PZ == Ref("p", <<"z">>, "z")
X == Candidate("k", {SP}, {}, Out("x", "d", TRUE))

\* x prefers q; revised, it prefers p.  y is for the public; v is made of public
\* evidence but for p; u is not approved.  m is made of x and z.
MCRequests == {
    Request("a", "a1", {X}, "k" :> Route({"q"}, {"w"}, FALSE)),
    Request("a", "a2", {X}, "k" :> Route({"p"}, {"q"}, FALSE)),
    Request("b", "b1",
        {Candidate("k", {SW}, {}, Out("y", "e", TRUE)), Candidate("l", {SW}, {}, Out("v", "e", TRUE)),
         Candidate("n", {SW}, {}, Out("u", "e", FALSE))},
        "k" :> Route({"w"}, {"p"}, TRUE) @@ "l" :> Route({"p"}, {"w"}, TRUE)
        @@ "n" :> Route({"w"}, {}, TRUE)),
    Request("c", "c1", {Candidate("k", {}, {QX, PZ}, Out("m", "d", TRUE))},
        "k" :> Route({"p", "q"}, {"q"}, FALSE))}

Transition(id, operation, from, to) ==
    [id |-> id, digest |-> id, operation |-> operation, from |-> from, to |-> to,
     human |-> TRUE, approved |-> TRUE]

\* x moves from p to q and within q; x and z retire in favour of m.
MCTransitions == {
    Transition("t1", "move", {QX}, Ref("q", <<"o">>, "x")),
    Transition("t2", "move", {Ref("p", <<"x">>, "x")}, Ref("q", <<"x">>, Unpinned)),
    Transition("t3", "merge", {QX, PZ}, Ref("p", <<"m">>, "m"))}

AnyRouter == Permutations(Router)

=============================================================================

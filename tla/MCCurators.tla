----------------------------- MODULE MCCurators -----------------------------
(***************************************************************************)
(* A garden with three sources and two notes, and proposals that keep,       *)
(* merge, supersede each other, conflict and defer.                        *)
(***************************************************************************)
EXTENDS Curators

Personal == [LocalScope("personal") EXCEPT !.execution = 1]
PersonalOffline == LocalScope("personal")
MCBindings == {Personal, PersonalOffline}

Text(t) == [text |-> t]
Says(who, caveats) ==
    [attribution |-> who, authors |-> {who}, caveats |-> caveats, contradictions |-> {}]

MCSource(id, scope) ==
    [Blank EXCEPT !.id = id, !.kind = "source", !.status = "active", !.own = scope,
                  !.legacy = LegacyVisibility(scope.visibility), !.body = Text(Head(id))]
MCNote(id, scope, marks, cites) ==
    [Blank EXCEPT !.id = id, !.kind = "knowledge", !.status = "proposed", !.own = scope,
                  !.legacy = LegacyVisibility(scope.visibility), !.body = Text(Head(id)), !.marks = marks, !.refs = cites]

S(n) == Ref("evidence", <<n>>, Text(n))
K(n) == Ref("inputs", <<n>>, Text(n))

MCRecords ==
    {MCSource(<<"s">>, Personal), MCSource(<<"t">>, PersonalOffline), MCSource(<<"u">>, Personal),
     MCNote(<<"k">>, Personal, Says("user-report", {"k"}), {S("s")}),
     MCNote(<<"l">>, PersonalOffline, Says("none", {}), {S("t")})}
MCGardens ==
    {[visibility |-> "private", records |-> MCRecords,
      bodies |-> [id \in {<<n>> : n \in {"s", "t", "u", "k", "l"}} |-> Text(Head(id))]]}

Out(n, body) ==
    [id |-> <<n>>, body |-> Text(body), status |-> "proposed", review |-> "unreviewed",
     reference |-> FALSE, supersedes |-> {}, claims |-> {}, synapses |-> {},
     marks |-> Says("assistant-suggestion", {})]
Keep(id, sources, output) ==
    [id |-> id, action |-> "keep", sources |-> sources, merge |-> <<>>, output |-> output]
Merge(id, sources, merge, output) ==
    [Keep(id, sources, output) EXCEPT !.action = "merge", !.merge = merge]
Defer(id, sources) == [id |-> id, action |-> "defer", sources |-> sources, merge |-> <<>>]

Proposal(n, human, candidates) == [id |-> <<n>>, human |-> human, candidates |-> candidates]

About(n, revision) == Ref("about", <<n>>, revision)
SynapseTo(id, n, revision) ==
    [id |-> <<id>>, type |-> "related", directed |-> FALSE, review |-> "unreviewed",
     target |-> Ref("target", <<n>>, revision)]

\* x, with a claim and a relation to y, which the same plan makes of k and l;
\* then z, made of y and k, which replaces y; and an x of another text,
\* made of the source that the owner may reclassify.
MCProposals == {
    Proposal("one", TRUE, <<
        Keep("c", {S("s")}, [Out("x", "x") EXCEPT !.status = "active", !.review = "approved",
            !.claims = {[id |-> <<"claim">>, review |-> "approved",
                         evidence |-> {S("s"), About("k", Text("k"))}]},
            !.synapses = {SynapseTo("syn", "y", Unpinned)}]),
        Merge("d", {S("s")}, <<K("k"), K("l")>>, Out("y", "y")), Defer("e", {S("t")})>>),
    Proposal("two", FALSE, <<
        Merge("c", {S("s")}, <<K("y"), K("k")>>,
              [Out("z", "z") EXCEPT !.supersedes = {Ref("supersedes", <<"y">>, Text("y"))}])>>),
    Proposal("three", TRUE, <<
        Merge("c", {S("u")}, <<K("k")>>,
              [Out("x", "other") EXCEPT !.status = "active", !.review = "approved"])>>)}

AnyCurator == Permutations(Curator)

=============================================================================

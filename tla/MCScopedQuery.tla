---------------------------- MODULE MCScopedQuery ----------------------------
(***************************************************************************)
(* Two gardens, a personal one and one whose scope the world chooses.      *)
(*   garden 1: 1 knowledge, 2 a claim about it, 3 the source it cites,     *)
(*             4 its provenance, 8 a note the session may never see        *)
(*   garden 2: 5 the note's successor, 6 knowledge, 7 a synapse of 1 and 6 *)
(* (identities are sorted within what a budget or a rank compares.)        *)
(***************************************************************************)
EXTENDS ScopedQuery, TLC

Scoped(v) == LocalScope(v)

\* source: the scope of record 3; second: garden 2; moved: record 4 retires 1
\* in favour of 6; change: what the write does; session: an ample one, a tight
\* one (small budgets, unreviewed claim), or one for public output.
W(source, second, moved, change, session) ==
    [source |-> source, second |-> second, moved |-> moved, change |-> change,
     session |-> session]

MCWorld ==
    {W("personal", "personal", FALSE, c, s) :
        c \in {"body", "source", "hidden"}, s \in {"ample", "tight"}}
    \cup {W("personal", "personal", TRUE, c, "ample") : c \in {"body", "source", "hidden"}}
    \cup {W("personal", "personal", FALSE, "link", "ample")}
    \cup {W("organization", "personal", FALSE, "source", "tight"),
          W("personal", "organization", FALSE, "source", "ample"),
          W("personal", "public", FALSE, "hidden", "tight"),
          W("personal", "public", FALSE, "body", "public")}

MCTarget == {{1}, {1, 2}}

Blank == [garden |-> 1, kind |-> "knowledge", status |-> "active",
          review |-> "approved", own |-> NoScope, legacy |-> "private",
          revision |-> 1, eligible |-> TRUE, provenance |-> {}, evidence |-> {},
          ends |-> <<>>, links |-> {}, moved |-> NoMove, asset |-> FALSE,
          directed |-> FALSE, score |-> 1, size |-> 1]

GardenOne(w) ==
    1 :> [Blank EXCEPT !.provenance = {4}, !.evidence = {3}, !.links = {2, 6, 8}]
 @@ 2 :> [Blank EXCEPT !.kind = "claim", !.review = IF w.session = "tight" THEN "unreviewed" ELSE "approved", !.ends = <<1>>,
                       !.evidence = {3}, !.score = 2]
 @@ 3 :> [Blank EXCEPT !.kind = "source", !.own = Scoped(w.source)]
 @@ 4 :> [Blank EXCEPT !.kind = "provenance", !.legacy = "none", !.ends = <<1>>,
                       !.evidence = IF w.moved THEN {6} ELSE {3}, !.asset = TRUE,
                       !.moved = IF w.moved THEN [from |-> 1, to |-> 6, revision |-> 1]
                                 ELSE NoMove]
 @@ 8 :> [Blank EXCEPT !.own = Restricted, !.links = {1}, !.score = 2]

GardenTwo(w) ==
    LET visible == LegacyVisibility(w.second)
    IN  5 :> [Blank EXCEPT !.garden = 2, !.legacy = visible, !.eligible = FALSE,
                           !.status = IF w.session = "public" THEN "active" ELSE "archived"]
     @@ 6 :> [Blank EXCEPT !.garden = 2, !.legacy = visible, !.links = {5}, !.size = 2]
     @@ 7 :> [Blank EXCEPT !.garden = 2, !.legacy = visible, !.kind = "synapse",
                           !.ends = <<1, 6>>]

\* The write gives 1 another body, another scope to its source, changes only 8, or
\* only that 1 names it.
Changed(w, t) ==
    CASE w.change = "body"   -> [t EXCEPT ![1].revision = 2]
      [] w.change = "source" -> [t EXCEPT ![3].revision = 2, ![3].own = NoScope]
      [] w.change = "link"   -> [t EXCEPT ![1].links = @ \ {8}]
      [] w.change = "hidden" -> [t EXCEPT ![8].revision = 2, ![8].links = {2}]

MCRecords(w, g, v) ==
    IF g = 1 THEN IF v = "after" THEN Changed(w, GardenOne(w)) ELSE GardenOne(w)
    ELSE IF v = "after" THEN [i \in {5, 6, 7} |->
                                [GardenTwo(w)[i] EXCEPT !.revision = 2]]
         ELSE GardenTwo(w)

SecondScope(w) == IF w.session = "public" THEN [Scoped("public") EXCEPT !.publication = 0]
                  ELSE Scoped(w.second)

MCSession(w) ==
    LET tight == w.session = "tight"
        public == w.session = "public"
    IN  [scopes |-> <<Scoped("personal"), SecondScope(w)>>, readable |-> {1, 2},
         allowed |-> IF public THEN {"public"} ELSE {"personal", "public", w.second},
         reviews |-> {"approved", "unreviewed"}, execution |-> Offline,
         request |-> IF public THEN SecondScope(w) ELSE Scoped("personal"),
         publication |-> IF public THEN 0 ELSE 1, assets |-> ~ tight,
         budget |-> IF tight THEN 2 ELSE 5, results |-> 2, limit |-> 2,
         bytes |-> IF tight THEN 4 ELSE 7, start |-> 1, depth |-> 2, source |-> 3,
         writable |-> IF w.second = "public" THEN 2 ELSE 1,
         profile |-> [include |-> <<6>>, exclude |-> {2}, stale |-> {}, kinds |-> {},
                      bytes |-> 5, items |-> 2, candidates |-> 3]]

=============================================================================

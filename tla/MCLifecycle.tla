----------------------------- MODULE MCLifecycle -----------------------------
(***************************************************************************)
(* Every v0 garden of two notes, where the first may also name sources,    *)
(* among them some that v0 or v1 validation refuses.                       *)
(***************************************************************************)
EXTENDS Lifecycle

MCNote(id, other, kind, visibility, reviewed, sources, related, supersedes) ==
    [kind |-> kind, visibility |-> visibility, reviewed |-> reviewed,
     status |-> IF reviewed THEN "reviewed" ELSE "draft",
     sources |-> sources, body |-> [text |-> Head(id)],
     sidecar |-> IF kind = "source" THEN [text |-> Head(id)] ELSE Unpinned,
     related |-> IF related THEN {other} ELSE {},
     supersedes |-> IF supersedes THEN {other} ELSE {}]

MCGarden(visibility, notes) ==
    [visibility |-> visibility, manifest |-> [text |-> visibility], notes |-> notes]

MCKinds == {"source", "concept"}
MCVisible == {"public", "private"}

MCNoteA == {MCNote(<<"a">>, <<"b">>, k, v, r, s, rel, sup) :
    k \in MCKinds, v \in MCVisible, r \in {TRUE}, s \in {{}, {<<"b">>, Elsewhere}, {Missing}},
    rel \in BOOLEAN, sup \in BOOLEAN}
MCNoteB == {MCNote(<<"b">>, <<"a">>, k, v, r, {}, rel, sup) :
    k \in MCKinds, v \in {"public", "internal"}, r \in {FALSE},
    rel \in BOOLEAN, sup \in BOOLEAN}

MCV0Gardens ==
    {MCGarden(v, (<<"a">> :> a) @@ (<<"b">> :> b)) :
        v \in {"public", "internal"}, a \in MCNoteA, b \in MCNoteB}

=============================================================================

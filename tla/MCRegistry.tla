----------------------------- MODULE MCRegistry -----------------------------
(***************************************************************************)
(* Small instances of RegistryWriters: the bindings file that exists       *)
(* before the registry does.                                               *)
(***************************************************************************)
EXTENDS RegistryWriters

\* The owner's own bindings: garden "a" in folder "x", and a source vault.
MCHandwritten ==
    {[EmptyBindings EXCEPT !.root = [g \in Garden |-> IF g = "a" THEN "x" ELSE Unbound],
                           !.vault = "near"]}

\* Folder "x" holds garden "a", folder "y" garden "b".
MCFirstDisk == [r \in Root |->
    [garden |-> IF r = "x" THEN "a" ELSE "b", version |-> "m1"]]
=============================================================================

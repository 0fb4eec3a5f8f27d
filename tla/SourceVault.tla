----------------------------- MODULE SourceVault -----------------------------
(***************************************************************************)
(* One directory of immutable objects named by their digests               *)
(* (adapters/filesystem.py) and its portable backup (vault_bundle.py).     *)
(* A vault v has: there (the directory exists), manifest, objects (what is *)
(* found under each name) and litter (a .put- file was left in it).        *)
(* A bundle is the set of the objects it holds.                            *)
(***************************************************************************)
EXTENDS Naturals, FiniteSets

CONSTANTS
    Blob,           \* contents, which stand for their digests
    MaxObjects      \* how many objects a bundle may have

ASSUME BundlesBounded == MaxObjects \in Nat

Manifest == {"none", "torn", "whole"}
Found == {"absent", "whole", "bad"}
Vault == [there : BOOLEAN, manifest : Manifest, objects : [Blob -> Found],
          litter : BOOLEAN]

Nowhere == [there |-> FALSE, manifest |-> "none",
            objects |-> [b \in Blob |-> "absent"], litter |-> FALSE]

\* The directory is missing or empty.
Clean(v) ==
    /\ v.manifest = "none"
    /\ ~ v.litter
    /\ \A b \in Blob : v.objects[b] = "absent"

\* _check_root: a torn manifest cannot be verified.
Usable(v) == v.there /\ v.manifest = "whole"

\* state
ContentState(v, b) ==
    CASE ~ v.there -> "unavailable"
      [] v.there /\ v.manifest # "whole" -> "corrupted"
      [] Usable(v) /\ v.objects[b] = "absent" -> "missing"
      [] Usable(v) /\ v.objects[b] = "bad" -> "corrupted"
      [] Usable(v) /\ v.objects[b] = "whole" -> "available"

Held(v) == {b \in Blob : ContentState(v, b) = "available"}

\* audit: everything in the directory is recognized and verifies, and what is
\* expected is there.  Litter has no content identity and is unsupported.
Verified(v, expected) ==
    /\ Usable(v)
    /\ ~ v.litter
    /\ \A b \in Blob : v.objects[b] # "bad"
    /\ expected \subseteq Held(v)

\* pack_bundle
Packable(objects) == Cardinality(objects) <= MaxObjects

\* unpack_bundle: every member is checked against the inventory.
Unpackable(file) == file.there /\ file.whole

\* _export_bundle succeeds, with Held(v) as the bundle.
Exportable(v) == Verified(v, {}) /\ Packable(Held(v))

\* What a target of restore_bundle may be: clean, or this very backup already.
Receives(v, bundle) == Clean(v) \/ (Exportable(v) /\ Held(v) = bundle)

\* _initialize: the manifest is created, then written.
Begun(v) == [Nowhere EXCEPT !.there = TRUE, !.manifest = "torn"]
Initialized(v) == [v EXCEPT !.manifest = "whole"]

\* _put: a temporary beside the target, a link that replaces nothing, and the
\* temporary removed.
Staged(v) == [v EXCEPT !.litter = TRUE]
Linked(v, b) == [v EXCEPT !.objects[b] = IF @ = "absent" THEN "whole" ELSE @]
Unstaged(v) == [v EXCEPT !.litter = FALSE]

\* restore_bundle: a staged vault with exactly the objects of the bundle, renamed
\* into place; what unpack_bundle returned was put object by object and exported
\* again before.
Restored(bundle) ==
    [there |-> TRUE, manifest |-> "whole", litter |-> FALSE,
     objects |-> [b \in Blob |-> IF b \in bundle THEN "whole" ELSE "absent"]]

=============================================================================

------------------------------ MODULE Ingestion ------------------------------
(***************************************************************************)
(* From a captured file to records and contents (application/ingestion.py, *)
(* domain/sources.py).  A capture has a source, an original, a media type  *)
(* and a remark: all the metadata that goes into its records but not into  *)
(* their identities.                                                       *)
(*                                                                         *)
(* A garden's records are a function from identities to the capture whose  *)
(* words the record carries.  Identities are                               *)
(*   <<"captured", source, original>>,                                     *)
(*   <<"normalized", identity, content, adapter>> and                      *)
(*   <<"provenance", artifact, original>>, which is longer by the capture  *)
(* when the short one is taken.                                            *)
(***************************************************************************)
EXTENDS Naturals, Sequences, FiniteSets

CONSTANTS
    Capture,        \* the captures that people supply
    Adapter,        \* the registered adapters
    Accepts(_),     \* the media types of an adapter
    Units(_, _),    \* what an adapter makes of an original: a sequence of units
    MaxUnits        \* how many units an adapter declares at most

ASSUME UnitsBounded == MaxUnits \in Nat

\* AdapterRegistry.select: exactly one adapter must match.
Matching(c) == {a \in Adapter : c.media \in Accepts(a)}

\* normalize_source: bounded, and no identity twice.
Normalizes(c) ==
    \E a \in Adapter :
        /\ Matching(c) = {a}
        /\ Len(Units(a, c.original)) <= MaxUnits
        /\ \A m, n \in DOMAIN Units(a, c.original) :
              Units(a, c.original)[m].identity = Units(a, c.original)[n].identity => m = n

SelectedAdapter(c) == CHOOSE a \in Matching(c) : TRUE

NormalizedUnits(c) ==
    LET units == Units(SelectedAdapter(c), c.original)
    IN  {units[n] : n \in DOMAIN units}

CaptureId(c) == <<"captured", c.source, c.original>>
NormalizedId(c, u) == <<"normalized", u.identity, u.content, SelectedAdapter(c)>>

\* (mutant of Observation: two observations of one artifact share a name)
OneObservation(G, artifact, c) == <<"provenance", artifact, c.original>>

\* observation: an event of its own when another one has the name already.
Observation(G, artifact, c) ==
    LET name == <<"provenance", artifact, c.original>>
    IN  IF name \in DOMAIN G /\ G[name] # c THEN <<"provenance", artifact, c.original, c>>
        ELSE name

\* The records of the capture and its units that are not there yet, and their events.
IngestedFiles(G, c) ==
    LET artifacts == {CaptureId(c)} \cup {NormalizedId(c, u) : u \in NormalizedUnits(c)}
    IN  [i \in (artifacts \ DOMAIN G) \cup {Observation(G, a, c) : a \in artifacts} |-> c]

IngestedBlobs(c) == {c.original} \cup {u.content : u \in NormalizedUnits(c)}

\* The stage of an apply: the garden, and the files that it does not have.
WithFiles(G, files) ==
    [i \in DOMAIN G \cup DOMAIN files |-> IF i \in DOMAIN G THEN G[i] ELSE files[i]]

\* referenced_content: the contents that records of sources name.
References(G) == {i[3] : i \in {j \in DOMAIN G : j[1] # "provenance"}}

=============================================================================

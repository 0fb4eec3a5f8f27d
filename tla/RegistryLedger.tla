--------------------------- MODULE RegistryLedger ---------------------------
(***************************************************************************)
(* What the registry promises, without files, leases or processes: one     *)
(* document that changes by whole operations, each applied to the document *)
(* that is current, after that document has been kept; an owner who only   *)
(* revokes; and sessions that pin a view.                                  *)
(***************************************************************************)
EXTENDS Registry

CONSTANT Handwritten   \* bindings files the owner may have before `registry init'

VARIABLES
    registry,   \* the document, or Absent
    read,       \* documents that plans have been made for
    kept,       \* documents kept as snapshots
    pin         \* pin[s]: what session s was made for, or NoView

vars == <<registry, read, kept, pin>>

TypeOK ==
    /\ registry \in Registry \cup {Absent}
    /\ read \subseteq Registry \cup {Absent}
    /\ kept \subseteq Registry
    /\ pin \in [Session -> Pin \cup {NoView}]

Init ==
    /\ registry \in Handwritten \cup {Absent}
    /\ read = {} /\ kept = {}
    /\ pin = [s \in Session |-> NoView]

\* A plan is made for the present document; other plans may be given up.
Read ==
    /\ \E still \in SUBSET read : read' = still \cup {registry}
    /\ UNCHANGED <<registry, kept, pin>>

Keep ==
    /\ \E d \in read \ {Absent} : kept' = kept \cup {d}
    /\ UNCHANGED <<registry, read, pin>>

\* One operation, on the present document and the manifests seen on some disk.
Change ==
    /\ registry = Absent \/ registry \in kept
    /\ \E req \in Request(kept), disk \in Disk :
          /\ Buildable(Document(registry), req, disk)
          /\ registry' = After(Document(registry), req, disk)
    /\ UNCHANGED <<read, kept, pin>>

\* The owner adds an identity to revoked_sessions.
Revoke ==
    /\ registry # Absent
    /\ \E s \in Session :
          registry' = [registry EXCEPT !.revoked = registry.revoked \cup {s}]
    /\ UNCHANGED <<read, kept, pin>>

\* A vault relocation binds the vault to another folder.
Relocate ==
    /\ registry # Absent
    /\ \E q \in Place : registry' = [registry EXCEPT !.vault = q]
    /\ UNCHANGED <<read, kept, pin>>

\* A session is made for a view; its authority is explicit and is made once.
MakeSession ==
    /\ registry # Absent
    /\ \E s \in Session, v \in View :
          /\ pin[s] = NoView /\ s \notin registry.revoked
          /\ registry.views[v] # NoView
          /\ pin' = [pin EXCEPT ![s] = [view |-> v, selection |-> registry.views[v]]]
    /\ UNCHANGED <<registry, read, kept>>

Next == Read \/ Keep \/ Change \/ Revoke \/ Relocate \/ MakeSession

Spec == Init /\ [][Next]_vars

Live(s) == registry # Absent /\ pin[s] # NoView /\ Authorized(registry, s, pin[s])

(***************************************************************************)
(* Generations are spent, revocations stay.                                *)
(***************************************************************************)

\* A session that has stopped being valid - its view changed or was removed,
\* or it was revoked - never becomes valid again, whatever is applied or
\* restored afterwards (domain/registry.py: verify_session_view).
NoRevival ==
    [][\A s \in Session : pin[s] # NoView /\ ~ Live(s) => ~ Live(s)']_vars

\* What the owner has revoked stays revoked through every later operation,
\* the restore of an older configuration included.
RevocationsKept ==
    [][registry # Absent =>
          registry' # Absent /\ registry.revoked \subseteq registry'.revoked]_vars

=============================================================================

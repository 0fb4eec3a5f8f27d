----------------------------- MODULE ScopePolicy -----------------------------
(***************************************************************************)
(* The local scope policy (domain/scope.py, domain/scope_policy.py): the   *)
(* scopes it accepts, the join a derived value inherits, the scope of a    *)
(* record under its garden's mapping, and the decision about an output.    *)
(*                                                                         *)
(* The three ordered requirements are levels, 0 the weakest, as the        *)
(* *_ORDER tables of the code number them.  Labels and digests are left    *)
(* out: a scope of another policy revision is simply not in Scopes.        *)
(***************************************************************************)
EXTENDS Naturals

Visibility == {"public", "organization", "personal", "restricted"}
Level == 0..2

\* Names of the levels the code compares with.
Publishable    == 0     \* publication: then review-required, never-exportable
Offline        == 2     \* execution: networked, controlled-import, offline
MachineLocal   == 1     \* persistence: git-tracked, machine-local,
EncryptedVault == 2     \* encrypted-vault

ScopeFields == [visibility : Visibility, publication : Level,
                execution : Level, persistence : Level]

\* local_scope("restricted"): every requirement at its strictest.
Restricted == [visibility |-> "restricted", publication |-> 2,
               execution |-> Offline, persistence |-> EncryptedVault]

\* validate_scope: a restricted scope has all the processing requirements.
Scopes == {s \in ScopeFields : s.visibility = "restricted" => s = Restricted}

\* local_scope(v): the defaults a session's request has when it names none.
LocalScope(v) ==
    IF v = "restricted" THEN Restricted
    ELSE [visibility |-> v, publication |-> 1, execution |-> Offline,
          persistence |-> MachineLocal]

\* No scope at all: the code raises, and the caller treats it as a denial.
NoScope == [visibility |-> "none", publication |-> 2,
            execution |-> 2, persistence |-> 2]

Strictest(levels) == CHOOSE l \in levels : \A m \in levels : m <= l

\* Organization and personal are no order: together they are restricted.
Classification(labels) ==
    LET private == labels \ {"public"}
    IN  IF private = {} THEN "public"
        ELSE IF \E v \in private : private = {v}
             THEN CHOOSE v \in private : private = {v}
             ELSE "restricted"

\* inherit_scope: the join of what a derived value is made from.
Inherit(scopes) ==
    LET class == Classification({s.visibility : s \in scopes})
    IN  IF class = "restricted" THEN Restricted
        ELSE [visibility  |-> class,
              publication |-> Strictest({s.publication : s \in scopes}),
              execution   |-> Strictest({s.execution : s \in scopes}),
              persistence |-> Strictest({s.persistence : s \in scopes})]

LegacyVisibility(v) ==
    CASE v = "public"       -> "public"
      [] v = "organization" -> "internal"
      [] OTHER              -> "private"

(***************************************************************************)
(* record_scope: a record says its scope, or only a legacy visibility,     *)
(* which its garden's scope completes when the two agree.                  *)
(***************************************************************************)
RecordScope(own, legacy, garden) ==
    CASE own # NoScope ->
            IF legacy \in {"none", LegacyVisibility(own.visibility)}
            THEN Inherit({garden, own}) ELSE NoScope
      [] own = NoScope /\ legacy = "public" ->
            Inherit({garden, [garden EXCEPT !.visibility = "public"]})
      [] own = NoScope /\ legacy # "public" ->
            IF legacy = LegacyVisibility(garden.visibility)
            THEN Inherit({garden}) ELSE NoScope

(***************************************************************************)
(* decide_scope: an output (write, route, export) is allowed only when its *)
(* destination already carries every restriction of what flows into it;    *)
(* no review declassifies anything here.                                   *)
(***************************************************************************)
Decide(operation, scopes, destination, reviewed) ==
    LET joined == Inherit({Inherit(scopes), destination})
        carried == /\ joined.persistence = destination.persistence
                   /\ joined.execution = destination.execution
                   /\ destination.visibility = "public"
                        => joined.publication = Publishable
    IN  CASE operation \in {"read", "query"} -> "allow"
          [] operation = "declassify" ->
                IF reviewed THEN "unavailable" ELSE "review-required"
          [] operation \in {"write", "route", "export"} ->
                IF joined.visibility # destination.visibility THEN "deny"
                ELSE IF joined.persistence = EncryptedVault THEN "unavailable"
                ELSE IF carried THEN "allow" ELSE "deny"
          [] OTHER -> "deny"

\* What a scope demands of whoever holds the value: the order Inherit joins in.
AtLeast(s, t) ==
    /\ t.visibility = "public" \/ s.visibility \in {t.visibility, "restricted"}
    /\ t.publication <= s.publication
    /\ t.execution <= s.execution
    /\ t.persistence <= s.persistence

=============================================================================

----------------------------- MODULE MCVaultLife -----------------------------
(***************************************************************************)
(* One supplied file twice, with other remarks and another adapter, and    *)
(* two captures that no plan can be made for: an adapter that repeats an   *)
(* identity, and a media type that two adapters claim.                     *)
(***************************************************************************)
EXTENDS VaultLife

Supplied(media, remark) ==
    [source |-> "s", original |-> "o", media |-> media, remark |-> remark]

MCCapture == {Supplied("text", 1), Supplied("page", 2), Supplied("echo", 1),
              Supplied("both", 1)}

MCAdapter == {"text", "page", "echo"}
MCAccepts(a) == IF a = "page" THEN {a} ELSE {a, "both"}

Unit(identity, content) == [identity |-> identity, content |-> content]
MCUnits(a, original) ==
    CASE a = "text" -> <<Unit("u", "n")>>
      [] a = "page" -> <<Unit("u", "m")>>
      [] a = "echo" -> <<Unit("u", "n"), Unit("u", "m")>>

=============================================================================

----------------------------- MODULE MCPurchases ------------------------------
(* Small instances of Purchases. *)
EXTENDS Purchases, TLC

CONSTANTS d1, v1

OneOwner == v1 :> d1

AllOps == Ops
LiveOps == {"subscribe", "callback", "adminSubscribe", "payEvp", "issue", "revoke"}
===============================================================================

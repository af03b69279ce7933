---------------------------- MODULE MCBridgeClient ----------------------------
(* A small instance of BridgeClient for TLC.                               *)
EXTENDS BridgeClient, TLC

CONSTANTS c1, c2, x1, ch

MCKindOf == c1 :> "flow" @@ c2 :> "request"
=============================================================================

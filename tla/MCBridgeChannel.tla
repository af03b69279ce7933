--------------------------- MODULE MCBridgeChannel ---------------------------
(* Small instances of BridgeChannel for TLC.                               *)
EXTENDS BridgeChannel, TLC

CONSTANTS c1, c2, s1, s2, alice, bob, k1, e1, e2

(* Two identities that share one key: the identity compared is uuid and key. *)
MCKeyOf == alice :> k1 @@ bob :> k1

MCSameEndpoint == s1 :> e1 @@ s2 :> e1

MCOneSession == s1 :> e1

(* A wall clock set back or set forward by most of a channel's lifetime.   *)
MCClockSteps == {-2, 3}
=============================================================================

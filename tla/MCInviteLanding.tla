--------------------------- MODULE MCInviteLanding ---------------------------
(* A small instance of InviteLanding for TLC.                              *)
EXTENDS InviteLanding, TLC

CONSTANTS t1, t2, r1, r2, r3, r4, k1, code

(* Two tickets with one code, two good replies and a forged one to the     *)
(* first, one to the second, which names no contact endpoint.              *)
MCCodeOf == t1 :> code @@ t2 :> code

MCTicketOf == r1 :> t1 @@ r2 :> t1 @@ r3 :> t1 @@ r4 :> t2
=============================================================================

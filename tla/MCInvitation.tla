----------------------------- MODULE MCInvitation ----------------------------
(* Small instances of Invitation for TLC.                                  *)
EXTENDS Invitation, TLC

CONSTANTS b1, b2, t1, t2, r1, r2, r3, code, someone

(* A primary landing and a fallback.                                       *)
MCTwoBases == {<<b1, b2>>}

MCOnlyBase == {<<b1>>}

MCAudienceOf == [t \in Tickets |-> someone]

MCSameCode == [t \in Tickets |-> code]

MCTicketOf == [r \in Requests |-> t1]
=============================================================================

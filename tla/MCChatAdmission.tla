--------------------------- MODULE MCChatAdmission ---------------------------
(* Small instances of ChatAdmission for TLC.                               *)
EXTENDS ChatAdmission, TLC

CONSTANTS u1, u2, k1, k2, x1, x2

(* Invitees, keys and acceptances are told apart by nothing but equality.  *)
MCSymmetry ==
    Permutations({u1, u2}) \cup Permutations({k1, k2}) \cup Permutations({x1, x2})
=============================================================================

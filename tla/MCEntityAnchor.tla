---------------------------- MODULE MCEntityAnchor ----------------------------
(* A small instance of EntityAnchor for TLC.                               *)
EXTENDS EntityAnchor, TLC

CONSTANTS owner, laptop, r1, r2, j1, j2, read, write

(* Two requests of one new key, one of them for more.                      *)
MCSubjectOf == [r \in Requests |-> laptop]

MCRequestedOf == r1 :> {read} @@ r2 :> {read, write}

(* j1 and j2 differ in a character that safe_record_key replaces.          *)
MCSafeRecordKey == [j \in ApprovalIds \cup Jtis |-> IF j \in Jtis THEN j1 ELSE j]

MCScopeSets == {{read}, {read, write}}
=============================================================================

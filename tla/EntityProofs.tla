---------------------------- MODULE EntityProofs -----------------------------
(* Theorems about EntityAnchor and about EntityExtension, the two ways in  *)
(* which an identity becomes part of an entity; they share no state.  For  *)
(* any identities, scopes and places and any number of requests, approvals *)
(* and direct writes.                                                      *)
EXTENDS EntityAnchor, EntityExtension, TLAPS

(* ------------------- The anchor Cell (EntityAnchor) -------------------- *)

(* Ids of packages are never given twice.                                  *)
IdsAreFresh ==
    /\ \A a \in packages : a.id <= drawn
    /\ \A a, b \in packages : a.id = b.id => a = b

(* The approval of every recorded link is used up.                         *)
LinkedAreUsed ==
    writes = 0 /\ KeysApart => \A k \in Linked : \E a \in packages : a.id = k /\ a.jti \in used

IInv ==
    /\ TypeOK /\ IdsAreFresh /\ LinkedAreUsed
    /\ LinksAreSigned /\ OneLinkPerJti /\ ProofsFollowRecords

LEMMA InitInv == Init => IInv
  <1> SUFFICES ASSUME Init PROVE IInv
    OBVIOUS
  <1>1. TypeOK
    <2>1. NoRecords \in [ApprovalIds -> Records \cup {NoValue}]
      BY DEF NoRecords
    <2>2. 0 \in 0..MaxApprovals /\ 0 \in 0..MaxWrites
      BY BoundAssumption
    <2> QED
      BY <2>1, <2>2 DEF Init, TypeOK
  <1>2. Linked = {}
    BY DEF Init, Linked, NoRecords
  <1> QED
    BY <1>1, <1>2 DEF Init, IInv, IdsAreFresh, LinkedAreUsed, LinksAreSigned,
       OneLinkPerJti, ProofsFollowRecords

(* What stands behind a record goes on doing so when more is signed, and   *)
(* behind any record that says the same of the link.                       *)
LEMMA StillSigned ==
    ASSUME NEW x, NEW y, NEW a, NEW c, SignedFor(x, a, c),
           requested \subseteq requested', presented \subseteq presented',
           y.subject = x.subject, y.issuer = x.issuer, y.scopes = x.scopes
    PROVE  SignedFor(y, a, c)'
  BY DEF SignedFor

(* A step that signs something leaves the links alone: what backs them is  *)
(* still there.                                                            *)
LEMMA MoreSigned ==
    ASSUME IInv, TypeOK', IdsAreFresh', UNCHANGED <<records, proofs, used, writes>>,
           requested \subseteq requested', packages \subseteq packages',
           presented \subseteq presented'
    PROVE  IInv'
  <1> USE DEF IInv
  <1>0. Linked' = Linked
    BY DEF Linked
  <1>k. KeysApart' => KeysApart
    BY DEF KeysApart
  <1>1. LinkedAreUsed'
    BY <1>0, <1>k DEF LinkedAreUsed
  <1>2. LinksAreSigned'
    <2> SUFFICES ASSUME writes = 0, NEW k \in Linked
                 PROVE  \E a, c \in packages' : a.id = k /\ SignedFor(records[k], a, c)'
      BY <1>0 DEF LinksAreSigned
    <2>1. PICK a \in packages, c \in packages : a.id = k /\ SignedFor(records[k], a, c)
      BY DEF LinksAreSigned
    <2>2. SignedFor(records[k], a, c)'
      BY <2>1, StillSigned
    <2> QED
      BY <2>1, <2>2
  <1>3. OneLinkPerJti'
    <2> SUFFICES ASSUME writes' = 0, NEW a \in packages', NEW b \in packages',
                        KeysApart, a.id \in Linked, b.id \in Linked, a.jti = b.jti
                 PROVE  a.id = b.id
      BY <1>0, <1>k DEF OneLinkPerJti
    <2>1. a \in packages /\ b \in packages
      BY DEF LinkedAreUsed, IdsAreFresh
    <2> QED
      BY <2>1 DEF OneLinkPerJti
  <1>4. ProofsFollowRecords'
    BY DEF ProofsFollowRecords
  <1> QED
    BY <1>1, <1>2, <1>3, <1>4

LEMMA ApproveInv ==
    ASSUME IInv, NEW r \in Requests, NEW i \in Identities, NEW S \in ScopeSets,
           ApproveEnrollment(r, i, S)
    PROVE  IInv'
  <1> USE DEF IInv
  <1>1. drawn \in Nat /\ drawn < MaxApprovals /\ drawn + 1 \in ApprovalIds
    BY BoundAssumption DEF ApproveEnrollment, TypeOK, ApprovalIds
  <1>2. PICK new \in Packages :
            new.id = drawn + 1 /\ packages' = packages \cup {new} /\ drawn' = drawn + 1
    <2>1. NewPackages(r, i, S) \subseteq Packages
      BY <1>1 DEF NewPackages, Packages
    <2>2. \A x \in NewPackages(r, i, S) : x.id = drawn + 1
      BY DEF NewPackages
    <2> QED
      BY <2>1, <2>2 DEF ApproveEnrollment
  <1>4. TypeOK'
    BY <1>1, <1>2, BoundAssumption DEF TypeOK, ApproveEnrollment, entity
  <1>5. \A a \in packages : a.id \in Nat /\ a.id < drawn + 1
    BY <1>1, BoundAssumption DEF IdsAreFresh, TypeOK, Packages, ApprovalIds
  <1>6. IdsAreFresh'
    BY <1>1, <1>2, <1>5 DEF IdsAreFresh
  <1> QED
    BY <1>2, <1>4, <1>6, MoreSigned DEF ApproveEnrollment, entity

LEMMA SigningInv ==
    ASSUME IInv
    PROVE  /\ \A r \in Requests : SignRequest(r) => IInv'
           /\ \A h \in Identities, c \in packages : Present(h, c) => IInv'
           /\ \A r \in requested : ExpireRequest(r) => IInv'
           /\ \A a \in packages : ExpirePackage(a) => IInv'
  <1> USE DEF IInv
  <1>1. ASSUME NEW r \in Requests, SignRequest(r) PROVE IInv'
    <2>1. TypeOK' /\ IdsAreFresh'
      BY <1>1 DEF SignRequest, TypeOK, IdsAreFresh, entity
    <2> QED
      BY <1>1, <2>1, MoreSigned DEF SignRequest, entity
  <1>2. ASSUME NEW h \in Identities, NEW c \in packages, Present(h, c) PROVE IInv'
    <2>1. [holder |-> h, credential |-> c.id] \in Presentations
      BY <1>2 DEF TypeOK, Packages, Presentations
    <2>2. TypeOK' /\ IdsAreFresh'
      BY <1>2, <2>1 DEF Present, TypeOK, IdsAreFresh, entity
    <2> QED
      BY <1>2, <2>2, MoreSigned DEF Present, entity
  <1>3. ASSUME NEW r \in requested, ExpireRequest(r) PROVE IInv'
    <2>1. expired' \in [requests: SUBSET Requests, packages: SUBSET ApprovalIds]
      BY <1>3 DEF ExpireRequest, TypeOK
    <2>2. TypeOK' /\ IdsAreFresh'
      BY <1>3, <2>1 DEF ExpireRequest, TypeOK, IdsAreFresh, entity, pieces
    <2> QED
      BY <1>3, <2>2, MoreSigned DEF ExpireRequest, entity, pieces
  <1>4. ASSUME NEW a \in packages, ExpirePackage(a) PROVE IInv'
    <2>1. expired' \in [requests: SUBSET Requests, packages: SUBSET ApprovalIds]
      BY <1>4 DEF ExpirePackage, TypeOK, Packages
    <2>2. TypeOK' /\ IdsAreFresh'
      BY <1>4, <2>1 DEF ExpirePackage, TypeOK, IdsAreFresh, entity, pieces
    <2> QED
      BY <1>4, <2>2, MoreSigned DEF ExpirePackage, entity, pieces
  <1> QED
    BY <1>1, <1>2, <1>3, <1>4

LEMMA CompleteInv ==
    ASSUME IInv, NEW r \in Requests, NEW a \in packages, NEW c \in packages,
           NEW p \in presented, CompleteEnrollment(r, a, c, p)
    PROVE  IInv'
  <1> DEFINE new == NewRecord(r, a)
  <1> USE DEF IInv
  <1>1. a \in Packages /\ c \in Packages /\ p \in Presentations
    BY DEF TypeOK
  <1>2. new \in Records /\ new # NoValue
    BY <1>1, RequestAssumption, NoValueAssumption DEF Packages, Records, NewRecord
  <1>3. /\ records' = [records EXCEPT ![a.id] = new]
        /\ proofs' = [proofs EXCEPT ![a.id] = new]
        /\ used' = UsedWith(a.jti)
        /\ UNCHANGED <<requested, packages, drawn, presented, writes>>
    BY DEF CompleteEnrollment, pieces
  <1>4. a.id \in ApprovalIds /\ a.jti \in ApprovalIds \cup Jtis
    BY <1>1 DEF Packages
  <1>5. TypeOK'
    BY <1>2, <1>3, <1>4 DEF TypeOK, CompleteEnrollment, UsedWith, pieces
  <1>6. IdsAreFresh'
    BY <1>3 DEF IdsAreFresh
  <1>7. /\ Linked' = Linked \cup {a.id}
        /\ records'[a.id] = new
        /\ \A k \in Linked : k # a.id => records'[k] = records[k]
    BY <1>2, <1>3, <1>4 DEF Linked, TypeOK
  <1>k. KeysApart' = KeysApart
    BY <1>3 DEF KeysApart
  <1>8. LinkedAreUsed'
    <2> SUFFICES ASSUME writes = 0, KeysApart, NEW k \in Linked'
                 PROVE  \E x \in packages : x.id = k /\ x.jti \in used'
      BY <1>3, <1>k DEF LinkedAreUsed
    <2>1. CASE k = a.id
      BY <1>3, <2>1 DEF UsedWith
    <2>2. CASE k # a.id
      <3>1. PICK x \in packages : x.id = k /\ x.jti \in used
        BY <1>7, <2>2 DEF LinkedAreUsed
      <3>2. x.jti \in used'
        BY <1>3, <3>1 DEF KeysApart, UsedWith
      <3> QED
        BY <3>1, <3>2
    <2> QED
      BY <2>1, <2>2
  <1>9. LinksAreSigned'
    <2> SUFFICES ASSUME writes = 0, NEW k \in Linked'
                 PROVE  \E x, y \in packages : x.id = k /\ SignedFor(records[k], x, y)'
      BY <1>3 DEF LinksAreSigned
    <2>1. CASE k = a.id
      <3>1. /\ a.request = r /\ r \in requested /\ a.issuer # SubjectOf[r]
            /\ a.scopes \subseteq RequestedOf[r]
            /\ c.issuer = a.issuer /\ c.request = r /\ c.scopes = a.scopes
            /\ p.holder = SubjectOf[r] /\ p.credential = c.id
        BY DEF CompleteEnrollment, ValidRequest, ValidApproval, ValidCredential,
           ValidPresentation
      <3>2. p = [holder |-> SubjectOf[r], credential |-> c.id]
        BY <1>1, <3>1 DEF Presentations
      <3>3. SignedFor(new, a, c)
        BY <3>1, <3>2 DEF SignedFor, NewRecord
      <3>4. SignedFor(records[k], a, c)'
        BY <1>3, <1>7, <2>1, <3>3, StillSigned
      <3> QED
        BY <2>1, <3>4
    <2>2. CASE k # a.id
      <3>1. k \in Linked /\ records'[k] = records[k]
        BY <1>7, <2>2
      <3>2. PICK x \in packages, y \in packages : x.id = k /\ SignedFor(records[k], x, y)
        BY <3>1 DEF LinksAreSigned
      <3>3. SignedFor(records[k], x, y)'
        BY <1>3, <3>1, <3>2, StillSigned
      <3> QED
        BY <3>2, <3>3
    <2> QED
      BY <2>1, <2>2
  <1>10. OneLinkPerJti'
    <2> SUFFICES ASSUME writes = 0, NEW x \in packages, NEW y \in packages,
                        KeysApart, x.id \in Linked', y.id \in Linked', x.jti = y.jti
                 PROVE  x.id = y.id
      BY <1>3, <1>k DEF OneLinkPerJti
    <2>1. a.jti \notin used
      BY DEF CompleteEnrollment, ValidApproval
    <2>2. \A z \in packages : z.id \in Linked => z.jti \in used
      BY DEF LinkedAreUsed, IdsAreFresh
    <2>3. \A z \in packages : z.id = a.id => z.jti = a.jti
      BY DEF IdsAreFresh
    <2> QED
      BY <1>7, <2>1, <2>2, <2>3 DEF OneLinkPerJti
  <1>11. ProofsFollowRecords'
    BY <1>3 DEF ProofsFollowRecords
  <1> QED
    BY <1>5, <1>6, <1>8, <1>9, <1>10, <1>11

LEMMA RevokeInv ==
    ASSUME IInv, NEW k \in ApprovalIds, Revoke(k)
    PROVE  IInv'
  <1> DEFINE new == [records[k] EXCEPT !.status = "revoked"]
  <1> USE DEF IInv
  <1>1. records[k] \in Records /\ k \in Linked
    BY DEF Revoke, TypeOK, Linked
  <1>2. /\ new \in Records /\ new # NoValue /\ new.subject = records[k].subject
        /\ new.issuer = records[k].issuer /\ new.scopes = records[k].scopes
    BY <1>1, NoValueAssumption DEF Records
  <1>3. /\ records' = [records EXCEPT ![k] = new]
        /\ proofs' = [proofs EXCEPT ![k] = new]
        /\ UNCHANGED <<requested, packages, drawn, presented, used, writes>>
    BY DEF Revoke, pieces
  <1>4. TypeOK'
    BY <1>2, <1>3 DEF TypeOK, Revoke, pieces
  <1>5. /\ Linked' = Linked /\ records'[k] = new
        /\ \A j \in Linked : j # k => records'[j] = records[j]
    BY <1>1, <1>2, <1>3 DEF Linked, TypeOK
  <1>6. IdsAreFresh' /\ LinkedAreUsed' /\ OneLinkPerJti' /\ ProofsFollowRecords'
    BY <1>3, <1>5 DEF IdsAreFresh, LinkedAreUsed, OneLinkPerJti, KeysApart,
       ProofsFollowRecords
  <1>7. \A j \in Linked : /\ records'[j].subject = records[j].subject
                          /\ records'[j].issuer = records[j].issuer
                          /\ records'[j].scopes = records[j].scopes
    BY <1>2, <1>5
  <1>8. LinksAreSigned'
    <2> SUFFICES ASSUME writes = 0, NEW j \in Linked
                 PROVE  \E x, y \in packages : x.id = j /\ SignedFor(records[j], x, y)'
      BY <1>3, <1>5 DEF LinksAreSigned
    <2>1. PICK x \in packages, y \in packages : x.id = j /\ SignedFor(records[j], x, y)
      BY DEF LinksAreSigned
    <2>2. SignedFor(records[j], x, y)'
      BY <1>3, <1>7, <2>1, StillSigned
    <2> QED
      BY <2>1, <2>2
  <1> QED
    BY <1>4, <1>6, <1>8

(* After a direct write only the types and the ids are claimed.            *)
LEMMA WriteInv ==
    ASSUME IInv, TypeOK', CountWrite, UNCHANGED pieces
    PROVE  IInv'
  <1>1. writes' # 0
    BY DEF IInv, TypeOK, CountWrite
  <1>2. IdsAreFresh'
    BY DEF IInv, IdsAreFresh, pieces
  <1> QED
    BY <1>1, <1>2 DEF IInv, LinkedAreUsed, LinksAreSigned, OneLinkPerJti, ProofsFollowRecords

LEMMA WriteTypes ==
    ASSUME TypeOK, NEW seal \in BOOLEAN, NEW genesis \in {"none", "genuine", "replaced"},
           Write(seal, genesis)
    PROVE  /\ sealed' \in BOOLEAN /\ genesisRecord' \in {"none", "genuine", "replaced"}
           /\ records' \in [ApprovalIds -> Records \cup {NoValue}]
           /\ proofs' \in [ApprovalIds -> Records \cup {NoValue}]
           /\ used' \subseteq ApprovalIds \cup Jtis
           /\ CountWrite
  <1>1. NoRecords \in [ApprovalIds -> Records \cup {NoValue}]
    BY DEF NoRecords
  <1>2. \A k \in ApprovalIds : \A x \in Written(k) : x \in Records \cup {NoValue}
    <2> TAKE k \in ApprovalIds
    <2> TAKE x \in Written(k)
    <2>1. CASE x = NoValue
      BY <2>1
    <2>2. CASE x # NoValue
      <3>1. PICK s \in {"active", "revoked"} :
                records[k] # NoValue /\ x = [records[k] EXCEPT !.status = s]
        BY <2>2 DEF Written
      <3> QED
        BY <3>1 DEF TypeOK, Records
    <2> QED
      BY <2>1, <2>2
  <1> QED
    BY <1>1, <1>2 DEF Write, TypeOK

LEMMA CountType == TypeOK /\ CountWrite => writes' \in 0..MaxWrites
  BY BoundAssumption DEF TypeOK, CountWrite

LEMMA EntityInv ==
    ASSUME IInv, Genesis \/ SetEntity \/ BatchPersist
    PROVE  IInv'
  <1> USE DEF IInv
  <1>1. CASE Genesis
    <2>1. TypeOK' /\ IdsAreFresh'
      BY <1>1 DEF Genesis, TypeOK, IdsAreFresh, pieces
    <2> QED
      BY <1>1, <2>1, MoreSigned DEF Genesis, pieces
  <1>2. CASE SetEntity
    <2>1. TypeOK'
      BY <1>2, WriteTypes, CountType DEF SetEntity, TypeOK, pieces
    <2> QED
      BY <1>2, <2>1, WriteTypes, WriteInv DEF SetEntity, TypeOK
  <1>3. CASE BatchPersist
    <2> DEFINE genesis == IF sealed THEN genesisRecord ELSE "genuine"
    <2>0. genesis \in {"none", "genuine", "replaced"} /\ UNCHANGED pieces
      BY <1>3 DEF TypeOK, BatchPersist
    <2>1. CASE Write(TRUE, genesis)
      <3>1. TypeOK'
        BY <1>3, <2>0, <2>1, WriteTypes, CountType DEF BatchPersist, TypeOK, pieces
      <3> QED
        BY <2>0, <2>1, <3>1, WriteTypes, WriteInv
    <2>2. CASE sealed' = TRUE /\ genesisRecord' = genesis
               /\ UNCHANGED <<records, proofs, used, writes>>
      <3>1. TypeOK' /\ IdsAreFresh'
        BY <1>3, <2>0, <2>2 DEF BatchPersist, TypeOK, IdsAreFresh, pieces
      <3> QED
        BY <2>0, <2>2, <3>1, MoreSigned DEF pieces
    <2> QED
      BY <1>3, <2>1, <2>2 DEF BatchPersist
  <1> QED
    BY <1>1, <1>2, <1>3

LEMMA NextInv == IInv /\ [Next]_vars => IInv'
  <1> SUFFICES ASSUME IInv, [Next]_vars PROVE IInv'
    OBVIOUS
  <1>1. CASE UNCHANGED vars
    <2>1. TypeOK' /\ IdsAreFresh'
      BY <1>1 DEF IInv, TypeOK, IdsAreFresh, vars
    <2> QED
      BY <1>1, <2>1, MoreSigned DEF vars
  <1>2. CASE \E r \in Requests, i \in Identities, S \in ScopeSets : ApproveEnrollment(r, i, S)
    BY <1>2, ApproveInv
  <1>3. CASE \E r \in Requests, a, c \in packages, p \in presented :
                 CompleteEnrollment(r, a, c, p)
    BY <1>3, CompleteInv
  <1>4. CASE \E k \in ApprovalIds : Revoke(k)
    BY <1>4, RevokeInv
  <1>5. CASE Genesis \/ SetEntity \/ BatchPersist
    BY <1>5, EntityInv
  <1>6. CASE \/ \E r \in Requests : SignRequest(r)
             \/ \E h \in Identities, c \in packages : Present(h, c)
             \/ \E r \in requested : ExpireRequest(r)
             \/ \E a \in packages : ExpirePackage(a)
    BY <1>6, SigningInv
  <1> QED
    BY <1>1, <1>2, <1>3, <1>4, <1>5, <1>6 DEF Next

(* The invariant holds in every reachable state.                           *)
THEOREM AnchorInvariance == Spec => []IInv
  BY InitInv, NextInv, PTL DEF Spec

(* Every reachable state of the anchor is well typed.                      *)
THEOREM AnchorTypeCorrect == Spec => []TypeOK
  <1>1. IInv => TypeOK
    BY DEF IInv
  <1> QED
    BY <1>1, AnchorInvariance, PTL

(* Every link that completeEnrollment has recorded was asked for, approved *)
(* and presented, with the same request, issuer and scopes throughout.     *)
THEOREM SignedLinks == Spec => []LinksAreSigned
  <1>1. IInv => LinksAreSigned
    BY DEF IInv
  <1> QED
    BY <1>1, AnchorInvariance, PTL

(* The table of used approval ids lets each of them make one link.         *)
THEOREM SingleUse == Spec => []OneLinkPerJti
  <1>1. IInv => OneLinkPerJti
    BY DEF IInv
  <1> QED
    BY <1>1, AnchorInvariance, PTL

(* Completion and revocation write the record and its copy alike.          *)
THEOREM ProofsAgree == Spec => []ProofsFollowRecords
  <1>1. IInv => ProofsFollowRecords
    BY DEF IInv
  <1> QED
    BY <1>1, AnchorInvariance, PTL

(* What one step may do to a revoked link.                                 *)
LEMMA RevokedStep ==
    ASSUME IInv, [Next]_vars, NEW k \in Linked, records[k].status = "revoked",
           writes' = 0, KeysApart
    PROVE  records'[k] # NoValue /\ records'[k].status = "revoked"
  <1>0. records[k] # NoValue /\ k \in ApprovalIds /\ records[k] \in Records
    BY DEF Linked, IInv, TypeOK
  <1>1. CASE UNCHANGED records
    BY <1>0, <1>1
  <1>2. ~CountWrite
    BY DEF CountWrite, IInv, TypeOK
  <1>3. ASSUME NEW r \in Requests, NEW a \in packages, NEW c \in packages,
               NEW p \in presented, CompleteEnrollment(r, a, c, p)
        PROVE  records'[k] = records[k]
    <2>0. writes = 0
      BY <1>3 DEF CompleteEnrollment
    <2>1. a.id # k
      BY <1>3, <2>0 DEF CompleteEnrollment, ValidApproval, IInv, LinkedAreUsed, IdsAreFresh
    <2> QED
      BY <1>3, <2>1 DEF CompleteEnrollment, IInv, TypeOK
  <1>4. ASSUME NEW j \in ApprovalIds, Revoke(j)
        PROVE  records'[k] # NoValue /\ records'[k].status = "revoked"
    <2>1. CASE j = k
      <3>1. records'[k] = [records[k] EXCEPT !.status = "revoked"]
        BY <1>0, <1>4, <2>1 DEF Revoke, IInv, TypeOK
      <3> QED
        BY <1>0, <3>1, NoValueAssumption DEF Records
    <2>2. CASE j # k
      BY <1>0, <1>4, <2>2 DEF Revoke, IInv, TypeOK
    <2> QED
      BY <2>1, <2>2
  <1>5. CASE SetEntity \/ BatchPersist
    BY <1>1, <1>2, <1>5 DEF SetEntity, BatchPersist, Write
  <1> QED
    BY <1>0, <1>1, <1>3, <1>4, <1>5 DEF Next, vars, SignRequest, ApproveEnrollment,
       Present, Genesis, ExpireRequest, ExpirePackage, entity

(* A revoked link stays revoked as long as nobody writes to the store      *)
(* directly and no two jtis share a key: no envelope, old or new, makes    *)
(* its record active again.                                                *)
THEOREM RevokedForGood == Spec => RevocationLasts
  <1>1. IInv /\ [Next]_vars =>
            [\A k \in Linked :
                 records[k].status = "revoked" /\ writes' = 0 /\ KeysApart =>
                     records'[k] # NoValue /\ records'[k].status = "revoked"]_vars
    BY RevokedStep
  <1> QED
    BY <1>1, AnchorInvariance, PTL DEF Spec, RevocationLasts

(* Only a direct write touches the seal and the record it seals.           *)
THEOREM SealKept == Spec => SealIsKept
  <1>1. ASSUME TypeOK, [Next]_vars, sealed, writes' = writes
        PROVE  sealed' /\ genesisRecord' = genesisRecord
    <2>1. ~CountWrite
      BY <1>1 DEF CountWrite, TypeOK
    <2>2. ~SetEntity /\ ~Genesis
      BY <1>1, <2>1 DEF SetEntity, Write, Genesis
    <2>3. CASE BatchPersist
      BY <1>1, <2>1, <2>3 DEF BatchPersist, Write
    <2> QED
      BY <1>1, <2>2, <2>3 DEF Next, vars, SignRequest, ApproveEnrollment, Present,
         CompleteEnrollment, Revoke, ExpireRequest, ExpirePackage, entity
  <1>2. TypeOK /\ [Next]_vars =>
            [sealed /\ writes' = writes =>
                 sealed' /\ genesisRecord' = genesisRecord]_vars
    BY <1>1
  <1> QED
    BY <1>2, AnchorTypeCorrect, PTL DEF Spec, SealIsKept

(* ---------------- The extension Cells (EntityExtension) ---------------- *)

(* A place has a record of an identity, in force or revoked.               *)
Holds(q, x) == \E record \in links[q] : record.linked = x

(* What was approved was asked for, and its issuer has a record of it.     *)
ApprovalsAreBacked ==
    \A approval \in approvals :
        /\ Holds(approval.issuer, approval.subject)
        /\ \E request \in requests :
              request.id = approval.request /\ request.by = approval.subject

(* A place accepts approvals of its own identity only.                     *)
AcceptedIsOwn ==
    \A p \in Places : \A link \in links[p] : link.via # "approved" => link.linked = p

ExtensionIInv ==
    /\ ExtensionTypeOK /\ ApprovalsAreBacked /\ AcceptedIsOwn
    /\ OneLinkInForce /\ GrantedAndHeld /\ NewestRequestRules

(* ------------------------------- Operators ----------------------------- *)

LEMMA TtlNat ==
    ASSUME NEW minutes \in Nat
    PROVE  Ttl(minutes) \in Nat
  BY TimeAssumption DEF Ttl, Lesser, Greater

LEMMA GrantedScopes ==
    ASSUME NEW scopes \in ScopeChoices, NEW request \in EnrollmentRequests
    PROVE  Granted(scopes, request) \in SUBSET Scopes
  BY ScopeAssumption DEF Granted, EnrollmentRequests, Scopes

LEMMA AlteredApprovals ==
    ASSUME ExtensionTypeOK
    PROVE  approvals \cup Altered \subseteq Approvals
  <1>1. ASSUME NEW approval \in approvals, NEW scopes \in ScopeChoices
        PROVE  [approval EXCEPT !.scopes = scopes] \in Approvals
    BY <1>1, ScopeAssumption DEF ExtensionTypeOK, Approvals, Scopes
  <1> QED
    BY <1>1 DEF Altered, ExtensionTypeOK

(* Marking a record that is revoked already changes nothing, and marking   *)
(* any record changes nothing else of it.                                  *)
LEMMA Marked ==
    ASSUME NEW link \in Links
    PROVE  LET marked == [link EXCEPT !.status = "revoked"]
           IN  /\ marked \in Links
               /\ marked.status = "revoked"
               /\ marked.linked = link.linked /\ marked.issuer = link.issuer
               /\ marked.scopes = link.scopes /\ marked.request = link.request
               /\ marked.via = link.via
               /\ link.status = "revoked" => marked = link
  BY DEF Links

(* --------------------------- What a step stores ------------------------ *)

(* A record stored by _store_link: types, one link in force per identity,  *)
(* revoked records and, for each identity, some record stay.               *)
LEMMA Stored ==
    ASSUME ExtensionTypeOK, OneLinkInForce, NEW p \in Places, NEW record \in Links,
           record.status = "active",
           links' = [links EXCEPT ![p] = StoreLink(@, record)]
    PROVE  /\ links' \in [Places -> SUBSET Links]
           /\ \A q \in Places : q # p => links'[q] = links[q]
           /\ links'[p] = StoreLink(links[p], record)
           /\ OneLinkInForce'
           /\ \A q \in Places : \A x : Holds(q, x) => Holds(q, x)'
           /\ Holds(p, record.linked)'
           /\ \A q \in Places : \A link \in links[q] :
                 link.status = "revoked" => link \in links'[q]
  <1>1. /\ links' \in [Places -> SUBSET Links]
        /\ links'[p] = StoreLink(links[p], record)
        /\ \A q \in Places : q # p => links'[q] = links[q]
    BY DEF ExtensionTypeOK, StoreLink
  <1>2. OneLinkInForce'
    <2> SUFFICES ASSUME NEW q \in Places, NEW one \in links'[q], NEW other \in links'[q],
                        one.linked = other.linked,
                        one.status = "active", other.status = "active"
                 PROVE  one = other
      BY DEF OneLinkInForce
    <2>1. CASE q # p
      BY <2>1, <1>1 DEF OneLinkInForce
    <2>2. CASE q = p
      BY <2>2, <1>1 DEF OneLinkInForce, StoreLink
    <2> QED
      BY <2>1, <2>2
  <1>3. ASSUME NEW q \in Places, NEW x, Holds(q, x) PROVE Holds(q, x)'
    <2>1. PICK held \in links[q] : held.linked = x
      BY <1>3 DEF Holds
    <2>2. CASE held \in links'[q]
      BY <2>1, <2>2 DEF Holds
    <2>3. CASE held \notin links'[q]
      <3>1. q = p /\ held.linked = record.linked /\ record \in links'[p]
        BY <2>1, <2>3, <1>1 DEF StoreLink
      <3> QED
        BY <3>1, <2>1 DEF Holds
    <2> QED
      BY <2>2, <2>3
  <1>4. Holds(p, record.linked)'
    BY <1>1 DEF Holds, StoreLink
  <1>5. \A q \in Places : \A link \in links[q] :
            link.status = "revoked" => link \in links'[q]
    BY <1>1 DEF StoreLink
  <1> QED
    BY <1>1, <1>2, <1>3, <1>4, <1>5

(* What stands behind a verified link, at the place p.                     *)
Behind(p, link) ==
    /\ \E approval \in approvals : \E request \in requests :
          /\ approval.issuer = link.issuer
          /\ approval.scopes = link.scopes
          /\ approval.request = link.request
          /\ request.id = link.request
          /\ request.by = p
    /\ Holds(link.issuer, p)

(* It goes on doing so when more is signed and stored.                     *)
LEMMA StillBehind ==
    ASSUME NEW p \in Places, NEW link \in Links, Behind(p, link),
           approvals \subseteq approvals', requests \subseteq requests',
           \A q \in Places : \A x : Holds(q, x) => Holds(q, x)'
    PROVE  Behind(p, link)'
  BY DEF Behind, Links

LEMMA GrantedIsBehind ==
    GrantedAndHeld <=> \A p \in Places : \A link \in links[p] :
                           link.via = "verified" => Behind(p, link)
  BY DEF GrantedAndHeld, Behind, Holds

(* -------------------------------- Actions ------------------------------ *)

LEMMA ExtensionInitInv == ExtensionInit => ExtensionIInv
  <1> SUFFICES ASSUME ExtensionInit PROVE ExtensionIInv
    OBVIOUS
  <1>1. ExtensionTypeOK
    BY TimeAssumption DEF ExtensionInit, ExtensionTypeOK
  <1> QED
    BY <1>1 DEF ExtensionInit, ExtensionIInv, ApprovalsAreBacked, AcceptedIsOwn,
                 OneLinkInForce,
       GrantedAndHeld, NewestRequestRules

(* A step that leaves the links alone and takes back nothing that was      *)
(* signed leaves all that is said of links alone.                          *)
LEMMA LinksUntouched ==
    ASSUME ExtensionIInv, UNCHANGED <<links, approvals>>, requests \subseteq requests'
    PROVE  ApprovalsAreBacked' /\ AcceptedIsOwn' /\ OneLinkInForce' /\ GrantedAndHeld'
  <1> USE DEF ExtensionIInv
  <1>1. ApprovalsAreBacked'
    BY DEF ApprovalsAreBacked, Holds
  <1>2. AcceptedIsOwn' /\ OneLinkInForce'
    BY DEF AcceptedIsOwn, OneLinkInForce
  <1>3. GrantedAndHeld'
    BY DEF GrantedAndHeld
  <1> QED
    BY <1>1, <1>2, <1>3

LEMMA BeginInv ==
    ASSUME ExtensionIInv, NEW p \in NewPlaces, NEW scopes \in ScopeChoices,
           NEW minutes \in MinutesChoices, BeginRequest(p, scopes, minutes)
    PROVE  ExtensionIInv'
  <1> USE DEF ExtensionIInv
  <1> DEFINE request == [id |-> asked + 1, by |-> p,
                         scopes |-> IF scopes # {} THEN scopes ELSE DefaultOn,
                         expires |-> now + Ttl(minutes)]
             entry == [request |-> request, linkID |-> NoLink]
  <1>0. p \in Places /\ minutes \in Nat /\ now \in Nat /\ asked \in Nat
    BY PlaceAssumption, TimeAssumption DEF ExtensionTypeOK
  <1>1. asked + 1 \in RequestIds /\ asked' \in 0..MaxRequests
    BY <1>0, TimeAssumption DEF BeginRequest, RequestIds
  <1>2. request \in EnrollmentRequests
    <2>1. now + Ttl(minutes) \in Nat
      BY <1>0, TtlNat
    <2>2. (IF scopes # {} THEN scopes ELSE DefaultOn) \in SUBSET Scopes
      BY ScopeAssumption DEF Scopes
    <2> QED
      BY <1>0, <1>1, <2>1, <2>2 DEF EnrollmentRequests
  <1>3. entry \in Entries /\ entry.linkID = NoLink
    BY <1>2 DEF Entries
  <1>4. /\ requests' = requests \cup {request}
        /\ outgoing' = [outgoing EXCEPT ![p] = outgoing[p] \cup {entry}]
        /\ UNCHANGED <<links, now, recorded, approvals>>
    BY DEF BeginRequest
  <1> HIDE DEF request, entry
  <1>5. ExtensionTypeOK'
    BY <1>0, <1>1, <1>2, <1>3, <1>4 DEF ExtensionTypeOK
  <1>6. NewestRequestRules'
    BY <1>0, <1>3, <1>4 DEF NewestRequestRules, ExtensionTypeOK
  <1> QED
    BY <1>4, <1>5, <1>6, LinksUntouched

LEMMA ClearInv ==
    ASSUME ExtensionIInv, NEW p \in Places, ClearPending(p)
    PROVE  ExtensionIInv'
  <1> USE DEF ExtensionIInv
  <1>1. \A q \in Places : outgoing'[q] \subseteq outgoing[q]
    BY DEF ClearPending, ExtensionTypeOK
  <1>2. ExtensionTypeOK'
    BY <1>1 DEF ClearPending, ExtensionTypeOK
  <1>3. NewestRequestRules'
    BY <1>1 DEF NewestRequestRules, ClearPending
  <1> QED
    BY <1>2, <1>3, LinksUntouched DEF ClearPending

LEMMA TickInv ==
    ASSUME ExtensionIInv, Tick
    PROVE  ExtensionIInv'
  <1> USE DEF ExtensionIInv
  <1>1. ExtensionTypeOK'
    BY TimeAssumption DEF Tick, ExtensionTypeOK
  <1>2. NewestRequestRules'
    BY DEF NewestRequestRules, Tick
  <1> QED
    BY <1>1, <1>2, LinksUntouched DEF Tick

(* Storing a record keeps what was said of the links and of the packets.   *)
LEMMA StoredInv ==
    ASSUME ExtensionIInv, NEW p \in Places, NEW record \in Links, record.status = "active",
           links' = [links EXCEPT ![p] = StoreLink(@, record)],
           approvals \subseteq approvals', UNCHANGED requests,
           record.via # "approved" => record.linked = p,
           record.via = "verified" => Behind(p, record)
    PROVE  /\ links' \in [Places -> SUBSET Links]
           /\ AcceptedIsOwn' /\ OneLinkInForce' /\ GrantedAndHeld'
           /\ \A approval \in approvals :
                 /\ approval \in Approvals
                 /\ Holds(approval.issuer, approval.subject)'
  <1> USE DEF ExtensionIInv
  <1>1. /\ links' \in [Places -> SUBSET Links]
        /\ OneLinkInForce'
        /\ \A q \in Places : links'[q] \subseteq links[q] \cup {record}
        /\ \A q \in Places : q # p => links'[q] = links[q]
        /\ \A q \in Places : \A x : Holds(q, x) => Holds(q, x)'
    BY Stored DEF StoreLink
  <1>2. AcceptedIsOwn'
    BY <1>1 DEF AcceptedIsOwn
  <1>3. GrantedAndHeld'
    <2>1. ASSUME NEW q \in Places, NEW link \in links'[q], link.via = "verified"
          PROVE  Behind(q, link)'
      <3>1. Behind(q, link)
        BY <1>1, <2>1, GrantedIsBehind
      <3>2. link \in Links
        BY <1>1
      <3> QED
        BY <3>1, <3>2, <1>1, StillBehind
    <2>2. \A q \in Places : \A link \in links'[q] :
              link.via = "verified" => Behind(q, link)'
      BY <2>1
    <2> QED
      BY <2>2 DEF GrantedAndHeld, Behind, Holds
  <1>4. ASSUME NEW approval \in approvals
        PROVE  approval \in Approvals /\ Holds(approval.issuer, approval.subject)'
    <2>1. approval \in Approvals
      BY DEF ExtensionTypeOK
    <2>2. approval.issuer \in Places /\ Holds(approval.issuer, approval.subject)
      BY <2>1 DEF Approvals, ApprovalsAreBacked
    <2> QED
      BY <2>1, <2>2, <1>1
  <1> QED
    BY <1>1, <1>2, <1>3, <1>4

LEMMA ExtensionApproveInv ==
    ASSUME ExtensionIInv, NEW p \in Approvers, NEW request \in requests,
           NEW scopes \in ScopeChoices, NEW minutes \in MinutesChoices,
           ApproveRequest(p, request, scopes, minutes)
    PROVE  ExtensionIInv'
  <1> USE DEF ExtensionIInv
  <1> DEFINE granted == Granted(scopes, request)
             approval == [id |-> recorded + 1, request |-> request.id,
                          subject |-> request.by, issuer |-> p,
                          scopes |-> granted, expires |-> now + Ttl(minutes)]
             record == [id |-> recorded + 1, linked |-> request.by, issuer |-> p,
                        scopes |-> granted, status |-> "active",
                        request |-> request.id, via |-> "approved"]
  <1>0. /\ p \in Places /\ minutes \in Nat /\ now \in Nat /\ recorded \in Nat
        /\ request \in EnrollmentRequests
    BY PlaceAssumption, TimeAssumption DEF ExtensionTypeOK
  <1>1. recorded + 1 \in LinkIds /\ recorded' \in 0..MaxRecords
    BY <1>0, TimeAssumption DEF ApproveRequest, LinkIds
  <1>2. now + Ttl(minutes) \in Nat /\ granted \in SUBSET Scopes
    BY <1>0, TtlNat, GrantedScopes
  <1>3. /\ approval \in Approvals /\ approval.issuer = p
        /\ approval.subject = request.by /\ approval.request = request.id
    BY <1>0, <1>1, <1>2 DEF Approvals, EnrollmentRequests
  <1>4. /\ record \in Links /\ record.status = "active" /\ record.via = "approved"
        /\ record.linked = request.by
    BY <1>0, <1>1, <1>2 DEF Links, EnrollmentRequests
  <1>5. /\ approvals' = approvals \cup {approval}
        /\ links' = [links EXCEPT ![p] = StoreLink(@, record)]
        /\ UNCHANGED <<outgoing, now, asked, requests>>
    BY DEF ApproveRequest
  <1> HIDE DEF granted, approval, record
  <1>6. /\ links' \in [Places -> SUBSET Links]
        /\ AcceptedIsOwn' /\ OneLinkInForce' /\ GrantedAndHeld'
        /\ \A one \in approvals : Holds(one.issuer, one.subject)'
    BY <1>0, <1>4, <1>5, StoredInv
  <1>7. /\ Holds(p, request.by)'
        /\ \A q \in Places : links'[q] \subseteq links[q] \cup {record}
    BY <1>0, <1>4, <1>5, Stored DEF StoreLink
  <1>8. ExtensionTypeOK'
    BY <1>1, <1>3, <1>5, <1>6 DEF ExtensionTypeOK
  <1>9. ApprovalsAreBacked'
    BY <1>3, <1>5, <1>6, <1>7 DEF ApprovalsAreBacked
  <1>10. NewestRequestRules'
    BY <1>4, <1>5, <1>7 DEF NewestRequestRules
  <1> QED
    BY <1>6, <1>8, <1>9, <1>10

LEMMA AcceptInv ==
    ASSUME ExtensionIInv, NEW p \in Places, NEW approval \in approvals \cup Altered,
           NEW withKey \in BOOLEAN, AcceptApproval(p, approval, withKey)
    PROVE  ExtensionIInv'
  <1> USE DEF ExtensionIInv
  <1> DEFINE verified == SignatureVerified(approval, withKey)
             record == [id |-> recorded + 1, linked |-> approval.subject,
                        issuer |-> approval.issuer, scopes |-> approval.scopes,
                        status |-> "active", request |-> approval.request,
                        via |-> IF verified THEN "verified" ELSE "accepted"]
  <1>0. approval \in Approvals /\ recorded \in Nat
    BY AlteredApprovals DEF ExtensionTypeOK
  <1>1. recorded + 1 \in LinkIds /\ recorded' \in 0..MaxRecords
    BY <1>0, TimeAssumption DEF AcceptApproval, LinkIds
  <1>2. /\ record \in Links /\ record.status = "active" /\ record.linked = p
        /\ record.via # "approved" /\ record.request = approval.request
        /\ record.issuer = approval.issuer /\ record.scopes = approval.scopes
        /\ record.via = "verified" => approval \in approvals
    BY <1>0, <1>1 DEF Links, Approvals, AcceptApproval, SignatureVerified
  <1>3. PICK pending \in outgoing[p] :
            /\ IsNewest(pending, p)
            /\ pending.request.id = approval.request
            /\ outgoing' = [outgoing EXCEPT
                   ![p] = (@ \ {pending}) \cup {[pending EXCEPT !.linkID = recorded + 1]}]
    BY DEF AcceptApproval
  <1>4. /\ approval.subject = p
        /\ links' = [links EXCEPT ![p] = StoreLink(@, record)]
        /\ UNCHANGED <<now, asked, requests, approvals>>
    BY DEF AcceptApproval
  <1> HIDE DEF verified, record
  <1>5. record.via = "verified" => Behind(p, record)
    BY <1>2, <1>4 DEF Behind, ApprovalsAreBacked
  <1>6. /\ links' \in [Places -> SUBSET Links]
        /\ AcceptedIsOwn' /\ OneLinkInForce' /\ GrantedAndHeld'
        /\ \A one \in approvals : Holds(one.issuer, one.subject)'
    BY <1>2, <1>4, <1>5, StoredInv
  <1>7. /\ links'[p] = StoreLink(links[p], record)
        /\ \A q \in Places : q # p => links'[q] = links[q]
    BY <1>2, <1>4, Stored
  <1>8. PICK entry \in Entries :
            /\ entry.request = pending.request
            /\ outgoing' = [outgoing EXCEPT ![p] = (@ \ {pending}) \cup {entry}]
    <2>1. pending \in Entries
      BY DEF ExtensionTypeOK
    <2>2. /\ [pending EXCEPT !.linkID = recorded + 1] \in Entries
          /\ [pending EXCEPT !.linkID = recorded + 1].request = pending.request
      BY <2>1, <1>1 DEF Entries
    <2> QED
      BY <2>2, <1>3
  <1>9. ExtensionTypeOK'
    BY <1>1, <1>4, <1>6, <1>8 DEF ExtensionTypeOK
  <1>10. ApprovalsAreBacked'
    BY <1>4, <1>6 DEF ApprovalsAreBacked
  <1>11. NewestRequestRules'
    <2> SUFFICES ASSUME NEW q \in Places, NEW link \in links'[q], NEW e \in outgoing'[q],
                        link.via # "approved", link.status = "active", e.linkID # NoLink
                 PROVE  e.request.id <= link.request
      BY DEF NewestRequestRules
    <2>1. CASE q # p
      BY <2>1, <1>7, <1>8 DEF NewestRequestRules, ExtensionTypeOK
    <2>2. CASE q = p
      <3>1. link = record
        BY <2>2, <1>2, <1>7 DEF StoreLink, AcceptedIsOwn
      <3>2. e \in outgoing[p] \/ e.request = pending.request
        BY <2>2, <1>8 DEF ExtensionTypeOK
      <3>3. e.request.id <= pending.request.id
        BY <3>2, <1>3 DEF IsNewest
      <3> QED
        BY <3>1, <3>3, <1>2, <1>3
    <2> QED
      BY <2>1, <2>2
  <1> QED
    BY <1>6, <1>9, <1>10, <1>11

(* What revokeLink does to the links, however the call is made.            *)
LEMMA Revoked ==
    ASSUME ExtensionIInv, NEW p \in Places, NEW link \in links[p], RevokeLink(p, link)
    PROVE  \E marked \in Links :
              /\ marked.status = "revoked"
              /\ marked.linked = link.linked /\ marked.issuer = link.issuer
              /\ marked.scopes = link.scopes /\ marked.request = link.request
              /\ marked.via = link.via
              /\ link.status = "revoked" => marked = link
              /\ links' \in [Places -> SUBSET Links]
              /\ links'[p] = (links[p] \ {link}) \cup {marked}
              /\ \A q \in Places : q # p => links'[q] = links[q]
  <1>1. link \in Links
    BY DEF ExtensionIInv, ExtensionTypeOK
  <1>2. links' = [links EXCEPT
            ![p] = (@ \ {link}) \cup {[link EXCEPT !.status = "revoked"]}]
    BY DEF RevokeLink
  <1> DEFINE marked == [link EXCEPT !.status = "revoked"]
  <1>3. /\ marked \in Links /\ marked.status = "revoked"
        /\ marked.linked = link.linked /\ marked.issuer = link.issuer
        /\ marked.scopes = link.scopes /\ marked.request = link.request
        /\ marked.via = link.via
        /\ link.status = "revoked" => marked = link
    BY <1>1, Marked
  <1> HIDE DEF marked
  <1>4. links' = [links EXCEPT ![p] = (links[p] \ {link}) \cup {marked}]
    BY <1>2 DEF marked
  <1> QED
    BY <1>3, <1>4 DEF ExtensionIInv, ExtensionTypeOK

LEMMA ExtensionRevokeInv ==
    ASSUME ExtensionIInv, NEW p \in Places, NEW link \in links[p], RevokeLink(p, link)
    PROVE  ExtensionIInv'
  <1> USE DEF ExtensionIInv
  <1>1. PICK marked \in Links :
            /\ marked.status = "revoked"
            /\ marked.linked = link.linked /\ marked.issuer = link.issuer
            /\ marked.scopes = link.scopes /\ marked.request = link.request
            /\ marked.via = link.via
            /\ links' \in [Places -> SUBSET Links]
            /\ links'[p] = (links[p] \ {link}) \cup {marked}
            /\ \A q \in Places : q # p => links'[q] = links[q]
    BY Revoked
  <1>2. UNCHANGED <<outgoing, now, asked, recorded, requests, approvals>>
    BY DEF RevokeLink
  <1>3. \A q \in Places : \A x : Holds(q, x) => Holds(q, x)'
    BY <1>1 DEF Holds
  <1>4. ExtensionTypeOK'
    BY <1>1, <1>2 DEF ExtensionTypeOK
  <1>5. ApprovalsAreBacked'
    BY <1>2, <1>3 DEF ApprovalsAreBacked, ExtensionTypeOK, Approvals
  <1>6. AcceptedIsOwn' /\ OneLinkInForce' /\ NewestRequestRules'
    <2>1. AcceptedIsOwn'
      BY <1>1 DEF AcceptedIsOwn
    <2>2. OneLinkInForce'
      BY <1>1 DEF OneLinkInForce
    <2>3. NewestRequestRules'
      BY <1>1, <1>2 DEF NewestRequestRules
    <2> QED
      BY <2>1, <2>2, <2>3
  <1>7. GrantedAndHeld'
    <2>1. ASSUME NEW q \in Places, NEW new \in links'[q], new.via = "verified"
          PROVE  Behind(q, new)'
      <3>1. PICK old \in links[q] :
                /\ old.via = "verified" /\ old.issuer = new.issuer
                /\ old.scopes = new.scopes /\ old.request = new.request
        BY <1>1, <2>1
      <3>2. Behind(q, old)
        BY <3>1, GrantedIsBehind
      <3>3. Behind(q, new)
        BY <3>1, <3>2 DEF Behind
      <3>4. new \in Links
        BY <1>1
      <3> QED
        BY <3>3, <3>4, <1>2, <1>3, StillBehind
    <2>2. \A q \in Places : \A new \in links'[q] :
              new.via = "verified" => Behind(q, new)'
      BY <2>1
    <2> QED
      BY <2>2 DEF GrantedAndHeld, Behind, Holds
  <1> QED
    BY <1>4, <1>5, <1>6, <1>7

LEMMA ExtensionNextInv == ExtensionIInv /\ [ExtensionNext]_extensionVars => ExtensionIInv'
  <1> SUFFICES ASSUME ExtensionIInv, [ExtensionNext]_extensionVars PROVE ExtensionIInv'
    OBVIOUS
  <1>1. CASE UNCHANGED extensionVars
    BY <1>1 DEF extensionVars, ExtensionIInv, ExtensionTypeOK, ApprovalsAreBacked,
                 AcceptedIsOwn, Holds,
       OneLinkInForce, GrantedAndHeld, NewestRequestRules
  <1>2. CASE ExtensionNext
    BY <1>2, BeginInv, ExtensionApproveInv, AcceptInv, ExtensionRevokeInv, ClearInv,
       TickInv DEF ExtensionNext
  <1> QED
    BY <1>1, <1>2

(* ------------------------------- Theorems ------------------------------ *)

(* The invariant that the other theorems rest on: beside the properties,   *)
(* every approval has a record at its issuer and a request behind it, and  *)
(* a place accepts approvals of its own identity only.                     *)
THEOREM Invariance == ExtensionSpec => []ExtensionIInv
  BY ExtensionInitInv, ExtensionNextInv, PTL DEF ExtensionSpec

(* Every reachable state of the places is well typed.                      *)
THEOREM ExtensionTypeCorrect == ExtensionSpec => []ExtensionTypeOK
  <1>1. ExtensionIInv => ExtensionTypeOK
    BY DEF ExtensionIInv
  <1> QED
    BY <1>1, Invariance, PTL

(* _store_link never leaves two links in force to one identity.            *)
THEOREM SingleLink == ExtensionSpec => []OneLinkInForce
  <1>1. ExtensionIInv => OneLinkInForce
    BY DEF ExtensionIInv
  <1> QED
    BY <1>1, Invariance, PTL

(* A link accepted with its signature checked was granted by its issuer    *)
(* for a request of this place, and the issuer still has a record of it.   *)
THEOREM GrantedLinks == ExtensionSpec => []GrantedAndHeld
  <1>1. ExtensionIInv => GrantedAndHeld
    BY DEF ExtensionIInv
  <1> QED
    BY <1>1, Invariance, PTL

(* accept_approval never puts a link for an older request in force while a *)
(* newer one is listed as approved.                                        *)
THEOREM NewestRules == ExtensionSpec => []NewestRequestRules
  <1>1. ExtensionIInv => NewestRequestRules
    BY DEF ExtensionIInv
  <1> QED
    BY <1>1, Invariance, PTL

(* No handler changes or drops a revoked record.                           *)
THEOREM RevocationIsKept == ExtensionSpec => RevocationKept
  <1> DEFINE Kept == \A p \in Places : \A link \in links[p] :
                         link.status = "revoked" => link \in links'[p]
  <1>1. ASSUME ExtensionIInv, [ExtensionNext]_extensionVars PROVE Kept \/ UNCHANGED extensionVars
    <2>1. ASSUME NEW p \in Approvers, NEW request \in requests, NEW scopes \in ScopeChoices,
                 NEW minutes \in MinutesChoices, ApproveRequest(p, request, scopes, minutes)
          PROVE  Kept
      <3>1. PICK record : links' = [links EXCEPT ![p] = StoreLink(@, record)]
        BY <2>1 DEF ApproveRequest
      <3> QED
        BY <3>1, <1>1, PlaceAssumption DEF StoreLink, ExtensionIInv, ExtensionTypeOK
    <2>2. ASSUME NEW p \in Places, NEW approval, NEW withKey,
                 AcceptApproval(p, approval, withKey)
          PROVE  Kept
      <3>1. PICK record : links' = [links EXCEPT ![p] = StoreLink(@, record)]
        BY <2>2 DEF AcceptApproval
      <3> QED
        BY <3>1, <1>1 DEF StoreLink, ExtensionIInv, ExtensionTypeOK
    <2>3. ASSUME NEW p \in Places, NEW link \in links[p], RevokeLink(p, link)
          PROVE  Kept
      <3>1. PICK marked \in Links :
                /\ link.status = "revoked" => marked = link
                /\ links'[p] = (links[p] \ {link}) \cup {marked}
                /\ \A q \in Places : q # p => links'[q] = links[q]
        BY <1>1, <2>3, Revoked
      <3> QED
        BY <3>1
    <2>4. CASE UNCHANGED links
      BY <2>4
    <2>5. CASE ExtensionNext
      BY <2>5, <2>1, <2>2, <2>3, <2>4 DEF ExtensionNext, BeginRequest, ClearPending, Tick
    <2> QED
      BY <1>1, <2>5
  <1>2. ExtensionIInv /\ [ExtensionNext]_extensionVars => [Kept]_extensionVars
    BY <1>1
  <1> QED
    BY <1>2, Invariance, PTL DEF ExtensionSpec, RevocationKept
=============================================================================

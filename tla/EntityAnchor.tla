----------------------------- MODULE EntityAnchor -----------------------------
(***************************************************************************)
(* An entity and the keys linked to it: EntityAnchorCell with the signed   *)
(* chain of interop/identity_link.py.  A new key signs a request, a key of *)
(* the entity approves it and issues a credential, the new key presents    *)
(* the credential, and the anchor, given all four, records the link.       *)
(*                                                                         *)
(* A handler runs under the Cell's state lock, signing included, so it is  *)
(* one action; a call that is refused changes nothing.  Pieces travel      *)
(* outside the Cell: whoever completes an enrolment may put together any   *)
(* that were ever signed.  Audience, origin, challenge and domain are      *)
(* compared with values from the same caller and are left out, and so is   *)
(* an approval without fresh authentication, which is never taken.         *)
(***************************************************************************)
EXTENDS Naturals

CONSTANTS
    Identities,    \* public identities, each with a uuid and a key of its own
    Requests,      \* enrolment requests, told apart by id and nonce
    SubjectOf,     \* the new identity of a request
    RequestedOf,   \* its scopes
    ScopeSets,     \* the sets of scopes that are asked for or granted
    Jtis,          \* ids that callers of approveEnrollment give their approvals
    SafeRecordKey, \* the key that a jti is stored under
    MaxApprovals,  \* bound on the approvals issued
    MaxWrites,     \* bound on the direct writes to the links and their proofs
    NoValue        \* Python's None

ASSUME BoundAssumption == MaxApprovals \in Nat /\ MaxWrites \in Nat

ASSUME RequestAssumption ==
    SubjectOf \in [Requests -> Identities] /\ RequestedOf \in [Requests -> ScopeSets]

(* approval_id, the link's id too, and the id of the credential issued     *)
(* along with the approval: fresh UUIDs, numbered as they are drawn.       *)
ApprovalIds == 1..MaxApprovals

(* A UUID is its own key.  In a caller's jti other characters than letters, *)
(* digits, - and _ become _, so that two may have the same key.            *)
ASSUME KeyAssumption ==
    /\ DOMAIN SafeRecordKey = ApprovalIds \cup Jtis
    /\ \A k \in ApprovalIds : SafeRecordKey[k] = k

(* An IdentityLinkApprovalPackage: approval and credential in one, for the *)
(* credential repeats what the approval says, without its jti.             *)
Packages ==
    [id: ApprovalIds, jti: ApprovalIds \cup Jtis, request: Requests,
     issuer: Identities, scopes: ScopeSets]

(* A VCPresentation: who signed it, and the id of the credential in it.    *)
Presentations == [holder: Identities, credential: ApprovalIds]

Records ==
    [subject: Identities, issuer: Identities, scopes: ScopeSets,
     status: {"active", "revoked"}]

ASSUME NoValueAssumption == NoValue \notin Records

VARIABLES
    sealed,         \* a seal is stored at identityLinks.genesis
    genesisRecord,  \* the record of the genesis link: none, genuine or replaced
    records,        \* identityLinks.records: link -> its record, or NoValue
    proofs,         \* proofs.identityLinks: link -> the record in it, or NoValue
    used,           \* identityLinks.usedApprovalJTIs: the jtis stored in it
    requested,      \* the requests signed by their new identity
    packages,       \* the packages issued
    drawn,          \* how many ids were drawn for them
    presented,      \* the presentations signed
    expired,        \* the requests, and the ids of packages, past their expiry
    writes          \* history: direct writes to identityLinks or proofs

entity == <<sealed, genesisRecord, records, proofs, used>>
pieces == <<requested, packages, drawn, presented>>
vars == <<sealed, genesisRecord, records, proofs, used, requested, packages, drawn,
          presented, expired, writes>>

NoRecords == [k \in ApprovalIds |-> NoValue]

Init ==
    /\ sealed = FALSE /\ genesisRecord = "none"
    /\ records = NoRecords /\ proofs = NoRecords /\ used = {}
    /\ requested = {} /\ packages = {} /\ drawn = 0 /\ presented = {}
    /\ expired = [requests |-> {}, packages |-> {}]
    /\ writes = 0

-----------------------------------------------------------------------------
(* The pieces, signed outside the anchor or by it.                         *)

SignRequest(r) ==
    /\ requested' = requested \cup {r}
    /\ UNCHANGED <<entity, packages, drawn, presented, expired, writes>>

(* validate_enrollment_request: signed by the new identity, in time.       *)
ValidRequest(r) == r \in requested /\ r \notin expired.requests

(* approve_enrollment: scopes are not compared with the request here; jti  *)
(* is the caller's, or else the approval's own id.                         *)
NewPackages(r, issuer, scopes) ==
    [id: {drawn + 1}, jti: Jtis \cup {drawn + 1}, request: {r}, issuer: {issuer},
     scopes: {scopes}]

(* approveEnrollment, at this anchor or at the anchor of another key of    *)
(* the entity.                                                             *)
ApproveEnrollment(r, issuer, scopes) ==
    /\ ValidRequest(r)
    /\ drawn < MaxApprovals
    /\ drawn' = drawn + 1
    /\ \E new \in NewPackages(r, issuer, scopes) : packages' = packages \cup {new}
    /\ UNCHANGED <<entity, requested, presented, expired, writes>>

(* VCPresentation.bind_and_sign.                                           *)
Present(holder, c) ==
    /\ presented' = presented \cup {[holder |-> holder, credential |-> c.id]}
    /\ UNCHANGED <<entity, requested, packages, drawn, expired, writes>>

-----------------------------------------------------------------------------
(* What completeEnrollment checks, and what it stores.                     *)

(* Mutant: the jti is not looked up.                                       *)
ValidApprovalAgain(a, r) ==
    /\ a.request = r
    /\ a.issuer # SubjectOf[r]
    /\ a.id \notin expired.packages
    /\ a.scopes \subseteq RequestedOf[r]

(* _validate_approval.                                                     *)
ValidApproval(a, r) ==
    /\ a.request = r
    /\ a.jti \notin used
    /\ a.issuer # SubjectOf[r]
    /\ a.id \notin expired.packages
    /\ a.scopes \subseteq RequestedOf[r]

(* Mutant: only the holder of the credential is compared.                  *)
ValidCredentialOfHolder(c, a, r) ==
    /\ c.issuer = a.issuer
    /\ SubjectOf[c.request] = SubjectOf[r]
    /\ c.id \notin expired.packages

(* _validate_credential, of the credential in package c.                   *)
ValidCredential(c, a, r) ==
    /\ c.issuer = a.issuer
    /\ c.request = r
    /\ c.scopes = a.scopes
    /\ c.id \notin expired.packages

(* _validate_presentation.                                                 *)
ValidPresentation(p, c, r) == p.holder = SubjectOf[r] /\ p.credential = c.id

(* The jti is stored under its key, instead of what was there.             *)
UsedWith(jti) == {j \in used : SafeRecordKey[j] # SafeRecordKey[jti]} \cup {jti}

(* verify_completion: the record of a chain that holds.                    *)
NewRecord(r, a) ==
    [subject |-> SubjectOf[r], issuer |-> a.issuer, scopes |-> a.scopes,
     status |-> "active"]

(* completeEnrollment stores the record, its proof and the jti.            *)
CompleteEnrollment(r, a, c, p) ==
    /\ ValidRequest(r)
    /\ ValidApproval(a, r)
    /\ ValidCredential(c, a, r)
    /\ ValidPresentation(p, c, r)
    /\ records' = [records EXCEPT ![a.id] = NewRecord(r, a)]
    /\ proofs' = [proofs EXCEPT ![a.id] = NewRecord(r, a)]
    /\ used' = UsedWith(a.jti)
    /\ UNCHANGED <<sealed, genesisRecord, pieces, expired, writes>>

-----------------------------------------------------------------------------
(* Mutant: the copy among the proofs is left as it was.                    *)
RevokeRecordOnly(k) ==
    /\ records[k] # NoValue
    /\ records' = [records EXCEPT ![k] = [records[k] EXCEPT !.status = "revoked"]]
    /\ UNCHANGED <<sealed, genesisRecord, proofs, used, pieces, expired, writes>>

(* revoke, of any link but the genesis link.                               *)
Revoke(k) ==
    /\ records[k] # NoValue
    /\ LET record == [records[k] EXCEPT !.status = "revoked"]
       IN  /\ records' = [records EXCEPT ![k] = record]
           /\ proofs' = [proofs EXCEPT ![k] = record]
    /\ UNCHANGED <<sealed, genesisRecord, used, pieces, expired, writes>>

(* genesis; the owner is proven, and the seal is written once.             *)
Genesis ==
    /\ ~sealed
    /\ sealed' = TRUE /\ genesisRecord' = "genuine"
    /\ UNCHANGED <<records, proofs, used, pieces, expired, writes>>

(* What a write below identityLinks or proofs leaves in a record: nothing  *)
(* that can be read, or the same link with a status of the writer's.       *)
Written(k) ==
    {NoValue} \cup
    {[records[k] EXCEPT !.status = s] : s \in {x \in {"active", "revoked"} : records[k] # NoValue}}

(* A direct write, counted.                                               *)
CountWrite == writes < MaxWrites /\ writes' = writes + 1

(* set_keypath on a path that this module has state for, with the seal and *)
(* the genesis record as they are before it.                               *)
Write(seal, genesis) ==
    /\ CountWrite
    /\ \/ sealed' = FALSE /\ genesisRecord' = "none"  \* identityLinks
          /\ records' = NoRecords /\ used' = {} /\ UNCHANGED proofs
       \/ sealed' = seal /\ genesisRecord' = "none"   \* identityLinks.records
          /\ records' = NoRecords /\ UNCHANGED <<proofs, used>>
       \/ sealed' = seal /\ genesisRecord' = genesis  \* identityLinks.records.*
          /\ \E k \in ApprovalIds : \E x \in Written(k) :
                 records' = [records EXCEPT ![k] = x]
          /\ UNCHANGED <<proofs, used>>
       \/ sealed' = seal /\ genesisRecord' = genesis  \* identityLinks.usedApprovalJTIs
          /\ used' = {} /\ UNCHANGED <<records, proofs>>
       \/ sealed' = seal /\ genesisRecord' = genesis  \* proofs
          /\ proofs' = NoRecords /\ UNCHANGED <<records, used>>
       \/ sealed' = seal /\ genesisRecord' = "replaced"  \* the genesis record
          /\ UNCHANGED <<records, proofs, used>>
       \/ sealed' \in BOOLEAN /\ genesisRecord' = genesis  \* identityLinks..genesis
          /\ UNCHANGED <<records, proofs, used>>

(* _set_entity refuses a path below identityLinks.genesis, and once there  *)
(* is a seal the path of its record.  It compares them as they are spelt:  *)
(* `identityLinks..genesis`, which names the seal too, and a path below    *)
(* the record get through, so that a refusal protects neither.             *)
SetEntity ==
    /\ Write(sealed, genesisRecord)
    /\ UNCHANGED <<pieces, expired>>

(* entity.batchPersist with one mutation: genesis takes place first, if it *)
(* has not; it refuses the plain path of the seal only.  A longer batch is *)
(* one after the other, and one that fails half-way is a shorter one.      *)
BatchPersist ==
    /\ LET genesis == IF sealed THEN genesisRecord ELSE "genuine"
       IN  \/ Write(TRUE, genesis)
           \/ /\ sealed' = TRUE /\ genesisRecord' = genesis  \* other paths
              /\ UNCHANGED <<records, proofs, used, writes>>
    /\ UNCHANGED <<pieces, expired>>

-----------------------------------------------------------------------------
ExpireRequest(r) ==
    /\ expired' = [expired EXCEPT !.requests = @ \cup {r}]
    /\ UNCHANGED <<entity, pieces, writes>>

(* An approval and its credential expire together.                         *)
ExpirePackage(a) ==
    /\ expired' = [expired EXCEPT !.packages = @ \cup {a.id}]
    /\ UNCHANGED <<entity, pieces, writes>>

Next ==
    \/ \E r \in Requests : SignRequest(r)
    \/ \E r \in Requests, i \in Identities, S \in ScopeSets : ApproveEnrollment(r, i, S)
    \/ \E h \in Identities, c \in packages : Present(h, c)
    \/ \E r \in Requests, a, c \in packages, p \in presented :
           CompleteEnrollment(r, a, c, p)
    \/ \E k \in ApprovalIds : Revoke(k)
    \/ Genesis \/ SetEntity \/ BatchPersist
    \/ \E r \in requested : ExpireRequest(r)
    \/ \E a \in packages : ExpirePackage(a)

Spec == Init /\ [][Next]_vars

-----------------------------------------------------------------------------
(* Every variable has its type.                                            *)
TypeOK ==
    /\ sealed \in BOOLEAN /\ genesisRecord \in {"none", "genuine", "replaced"}
    /\ records \in [ApprovalIds -> Records \cup {NoValue}]
    /\ proofs \in [ApprovalIds -> Records \cup {NoValue}]
    /\ used \subseteq ApprovalIds \cup Jtis
    /\ requested \subseteq Requests /\ packages \subseteq Packages
    /\ drawn \in 0..MaxApprovals
    /\ presented \subseteq Presentations
    /\ expired \in [requests: SUBSET Requests, packages: SUBSET ApprovalIds]
    /\ writes \in 0..MaxWrites

Linked == {k \in ApprovalIds : records[k] # NoValue}

(* Approval a and credential c stand behind a record: the new key asked    *)
(* for at least its scopes, the issuer, another key, granted exactly these *)
(* for that request, and the new key presented a credential of that grant. *)
SignedFor(record, a, c) ==
    /\ a.request \in requested /\ record.subject = SubjectOf[a.request]
    /\ record.issuer = a.issuer /\ record.issuer # record.subject
    /\ record.scopes = a.scopes /\ record.scopes \subseteq RequestedOf[a.request]
    /\ c.issuer = a.issuer /\ c.request = a.request /\ c.scopes = a.scopes
    /\ [holder |-> record.subject, credential |-> c.id] \in presented

(* Unless somebody wrote to them directly, the links recorded are those    *)
(* both sides have signed for, from whichever enrolments the pieces of the *)
(* envelope given to completeEnrollment were taken.                        *)
LinksAreSigned ==
    writes = 0 =>
        \A k \in Linked : \E a, c \in packages : a.id = k /\ SignedFor(records[k], a, c)

(* The jtis of the approvals given so far have keys of their own.          *)
KeysApart ==
    \A a, b \in packages : SafeRecordKey[a.jti] = SafeRecordKey[b.jti] => a.jti = b.jti

(* An approval's jti gives one link, whatever else was approved under it,  *)
(* provided that no two jtis are stored under one key.                     *)
OneLinkPerJti ==
    writes = 0 /\ KeysApart =>
        \A a, b \in packages :
            a.id \in Linked /\ b.id \in Linked /\ a.jti = b.jti => a.id = b.id

(* The copy of a record among the proofs says what the record says.        *)
ProofsFollowRecords == writes = 0 => proofs = records

(* A revoked link stays revoked: an envelope that was completed before, or *)
(* any other put together from what was signed, does not bring it back,    *)
(* provided that no two jtis are stored under one key.                     *)
RevocationLasts ==
    [][\A k \in Linked :
           records[k].status = "revoked" /\ writes' = 0 /\ KeysApart =>
               records'[k] # NoValue /\ records'[k].status = "revoked"]_vars

(* Once genesis has sealed the anchor, only a direct write can touch the   *)
(* seal or its record: not a second genesis, also not the one that a first *)
(* batch brings along, and nothing done to other links.                    *)
SealIsKept ==
    [][sealed /\ writes' = writes =>
           sealed' /\ genesisRecord' = genesisRecord]_vars

(* The tests: an approval that gave a link and is presented again is told  *)
(* "replayDetected".  So the jti of every link recorded is among the used. *)
ReplayIsDetected ==
    writes = 0 => \A a \in packages : a.id \in Linked => a.jti \in used
=============================================================================

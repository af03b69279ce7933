---------------------------- MODULE ChatAdmission ----------------------------
(***************************************************************************)
(* Who may use a chat: the invitations, artifacts and acceptances of       *)
(* cells/chat.py, and the contracts that general_cell.py signs from the    *)
(* chat's Agreement template and re-checks on every access.                *)
(*                                                                         *)
(* get and set run a whole handler under the Cell's state lock, so each    *)
(* handler is one action.  add_agreement does not hold the lock: every     *)
(* condition it evaluates is a get of its own, which queues for the lock   *)
(* behind other handlers, so its steps interleave with them.               *)
(*                                                                         *)
(* The writer of the audience.* keys is not a parameter: the owner may     *)
(* perform every one of them at any time.  Grants are reduced to "may use  *)
(* the chat": the template's grant list never changes.                     *)
(***************************************************************************)
EXTENDS Naturals, FiniteSets

CONSTANTS
    Uuids,           \* identity uuids other than the owner's
    Keys,            \* signing keys
    AcceptanceIds,   \* identifiers an invitee gives its acceptances
    NoValue,         \* Python's None
    MaxArtifacts,    \* bound on the artifacts issued to one uuid
    MaxContracts     \* bound on the contracts signed and being signed

ASSUME BoundAssumption == MaxArtifacts \in Nat /\ MaxContracts \in Nat

(* An identity as the chat recognises it: uuid and signing key together.   *)
Requesters == [uuid: Uuids, key: Keys]

(* A signed invitation: the n-th for this uuid, made out to one key.       *)
Artifacts == [uuid: Uuids, n: Nat, key: Keys]

(* A signed acceptance names the one artifact it accepts; the key that     *)
(* signed it is the artifact's.                                            *)
Acceptances == [id: AcceptanceIds, artifact: Artifacts]

Statuses == {"pending", "accepted", "declined", "revoked"}

Records ==
    [key: Keys, status: Statuses, artifact: Artifacts \cup {NoValue},
     acceptance: AcceptanceIds \cup {NoValue}]

ConditionNames == {"invitationAccepted", "member"}

Contracts ==
    [subject: Requesters, conditions: SUBSET ConditionNames, approved: BOOLEAN]

(* An add_agreement call under way: the template conditions it read and    *)
(* has not evaluated yet, and whether the owner authorised it.             *)
Joins == [remaining: (SUBSET ConditionNames) \ {{}}, approved: BOOLEAN]

ASSUME NoValueAssumption ==
    NoValue \notin Artifacts \cup AcceptanceIds \cup Records \cup Joins

VARIABLES
    invitations,  \* uuid -> its record, or NoValue when it was not invited
    artifacts,    \* every artifact the chat has signed
    issued,       \* how many artifacts were ever made for a uuid
    expired,      \* how many of those, the oldest first, are past expires_at
    consumed,     \* rows [artifact, id]: the acceptance each artifact took
    acceptances,  \* every acceptance invitees have signed
    conditions,   \* the Agreement template's admission conditions
    contracts,    \* signed contracts; approved is a history field
    joining,      \* requester -> its add_agreement call, or NoValue
    accepted      \* history: every row ever put into consumed

vars == <<invitations, artifacts, issued, expired, consumed, acceptances, conditions,
          contracts, joining, accepted>>

Init ==
    /\ invitations = [u \in Uuids |-> NoValue]
    /\ artifacts = {}
    /\ issued = [u \in Uuids |-> 0]
    /\ expired = [u \in Uuids |-> 0]
    /\ consumed = {}
    /\ acceptances = {}
    /\ conditions = {}
    /\ contracts = {}
    /\ joining = [r \in Requesters |-> NoValue]
    /\ accepted = {}

-----------------------------------------------------------------------------
(* Reading the state.                                                      *)

Invited == {u \in Uuids : invitations[u] # NoValue}

(* The time check of verify_chat_invitation.  Artifacts of a uuid live     *)
(* equally long, so they expire in the order they were made.               *)
Unexpired(a) == a.n > expired[a.uuid]

(* verify_chat_invitation: signed by the owner for this chat, and live.    *)
VerifyInvitation(a) == a \in artifacts /\ Unexpired(a)

ArtifactState(record) ==
    IF record.status \in {"revoked", "declined"} THEN record.status
    ELSE IF record.artifact = NoValue THEN "notIssued"
    ELSE IF record.acceptance # NoValue THEN "consumed"
    ELSE IF Unexpired(record.artifact) THEN "issued" ELSE "expired"

(* What inspectInvitationArtifact answers for a genuine artifact.          *)
Inspect(a) ==
    IF a.uuid \notin Invited \/ invitations[a.uuid].artifact = NoValue
    THEN "notFound"
    ELSE IF invitations[a.uuid].artifact # a THEN "superseded"
    ELSE ArtifactState(invitations[a.uuid])

(* member_for: the accepted invitee this requester is, by uuid and key.    *)
IsMember(r) ==
    /\ invitations[r.uuid] # NoValue
    /\ invitations[r.uuid].status = "accepted"
    /\ invitations[r.uuid].key = r.key

ConditionHolds(name, r) ==
    /\ IsMember(r)
    /\ \/ name = "member"
       \/ /\ invitations[r.uuid].artifact # NoValue
          /\ invitations[r.uuid].acceptance # NoValue
          /\ [artifact |-> invitations[r.uuid].artifact,
              id |-> invitations[r.uuid].acceptance] \in consumed
          /\ Unexpired(invitations[r.uuid].artifact)

(* contract_allows: a contract of exactly this requester that still        *)
(* matches the template, and whose conditions hold now.                    *)
Allows(r) ==
    \E c \in contracts :
        /\ c.subject = r
        /\ c.conditions = conditions
        /\ \A name \in c.conditions : ConditionHolds(name, r)

(* Mutant: compares the invitee, not the invitation that is accepted.      *)
VerifyAcceptanceByUuid(x, a) == x \in acceptances /\ x.artifact.uuid = a.uuid

(* verify_chat_acceptance: signed, by the invitee's key, for this artifact.*)
VerifyAcceptance(x, a) == x \in acceptances /\ x.artifact = a

(* Mutant: does not look whether this artifact was consumed before.        *)
AcceptableAgain(a, id) ==
    /\ invitations[a.uuid] # NoValue
    /\ invitations[a.uuid].artifact = a
    /\ invitations[a.uuid].status \notin {"revoked", "declined"}
    /\ \A row \in consumed : row.id = id => row.artifact = a

(* Mutant: does not look whether the invitee has declined.                 *)
AcceptableDeclined(a, id) ==
    /\ invitations[a.uuid] # NoValue
    /\ invitations[a.uuid].artifact = a
    /\ invitations[a.uuid].status # "revoked"
    /\ \/ [artifact |-> a, id |-> id] \in consumed
       \/ \A row \in consumed : row.artifact # a /\ row.id # id

(* The checks accept_invitation_artifact makes once both have verified.    *)
Acceptable(a, id) ==
    /\ invitations[a.uuid] # NoValue
    /\ invitations[a.uuid].artifact = a
    /\ invitations[a.uuid].status \notin {"revoked", "declined"}
    /\ \/ [artifact |-> a, id |-> id] \in consumed
       \/ \A row \in consumed : row.artifact # a /\ row.id # id

-----------------------------------------------------------------------------
(* Handlers of the audience.* keys.                                        *)

(* invite_identities: a known record is rebound to the key it names; its   *)
(* artifact stays, its acceptance goes, "accepted" survives.               *)
InvitedRecord(u, k) ==
    IF invitations[u] = NoValue
    THEN [key |-> k, status |-> "pending", artifact |-> NoValue,
          acceptance |-> NoValue]
    ELSE [invitations[u] EXCEPT
              !.key = k,
              !.status = IF @ = "accepted" THEN @ ELSE "pending",
              !.acceptance = NoValue]

InviteIdentities(u, k) ==
    /\ invitations' = [invitations EXCEPT ![u] = InvitedRecord(u, k)]
    /\ UNCHANGED <<artifacts, issued, expired, consumed, acceptances, conditions,
                   contracts, joining, accepted>>

(* Mutant: takes the revoked records in as well.                           *)
EligibleRevoked == Invited

Eligible == {u \in Invited : invitations[u].status # "revoked"}

(* The targets that need a new artifact: an issued one is handed out again.*)
Reissued(T) == {u \in T : ArtifactState(invitations[u]) # "issued"}

(* The artifact signed next for u, in the name of the record's person.     *)
NextArtifact(u) ==
    [uuid |-> u, n |-> issued[u] + 1, key |-> invitations[u].key]

(* Mutant: leaves the acceptance of the artifact it replaces.              *)
ReissuedRecordKeeps(u) ==
    [invitations[u] EXCEPT
        !.status = IF @ = "declined" THEN "pending" ELSE @,
        !.artifact = NextArtifact(u)]

ReissuedRecord(u) ==
    [invitations[u] EXCEPT
        !.status = IF @ = "declined" THEN "pending" ELSE @,
        !.artifact = NextArtifact(u),
        !.acceptance = NoValue]

(* generate_invitation_artifacts for the targets T.  The targets are taken *)
(* one by one and signing may raise: then the ones before it are done and  *)
(* the failing one is only no longer declined.                             *)
GenerateInvitationArtifacts(T, failing) ==
    LET new == Reissued(T) \ failing IN
    /\ T # {} /\ T \subseteq Eligible
    /\ failing \subseteq Reissued(T) /\ Cardinality(failing) <= 1
    /\ \A u \in new : issued[u] < MaxArtifacts
    /\ invitations' =
           [u \in Uuids |->
               IF u \in new THEN ReissuedRecord(u)
               ELSE IF u \in failing
               THEN [invitations[u] EXCEPT
                         !.status = IF @ = "declined" THEN "pending" ELSE @]
               ELSE invitations[u]]
    /\ issued' = [u \in Uuids |-> IF u \in new THEN issued[u] + 1 ELSE issued[u]]
    /\ artifacts' = artifacts \cup {NextArtifact(u) : u \in new}
    /\ consumed' = {row \in consumed :
                        \A u \in new : row.artifact # invitations[u].artifact}
    /\ UNCHANGED <<expired, acceptances, conditions, contracts, joining,
                   accepted>>

(* build_acceptance, on the invitee's node (generateInvitationAcceptance   *)
(* when that node runs a chat of its own): any artifact it was handed,     *)
(* superseded or not, while it verifies.                                   *)
BuildAcceptance(a, id) ==
    /\ VerifyInvitation(a)
    /\ acceptances' = acceptances \cup {[id |-> id, artifact |-> a]}
    /\ UNCHANGED <<invitations, artifacts, issued, expired, consumed,
                   conditions, contracts, joining, accepted>>

(* accept_invitation_artifact: artifact a handed in with acceptance x,     *)
(* which may be one it has taken before.                                   *)
AcceptInvitationArtifact(x, a) ==
    /\ VerifyInvitation(a)
    /\ VerifyAcceptance(x, a)
    /\ Acceptable(a, x.id)
    /\ invitations' = [invitations EXCEPT ![a.uuid] =
           [@ EXCEPT !.status = "accepted", !.artifact = a, !.acceptance = x.id]]
    /\ consumed' = {row \in consumed : row.artifact # a}
                       \cup {[artifact |-> a, id |-> x.id]}
    /\ accepted' = accepted \cup {[artifact |-> a, id |-> x.id]}
    /\ UNCHANGED <<artifacts, issued, expired, acceptances, conditions, contracts, joining>>

(* acceptInvites, declineInvites, revokeInvites: whatever the record says. *)
UpdateStatuses(T, status) ==
    /\ T # {} /\ T \subseteq Invited
    /\ invitations' = [u \in Uuids |->
           IF u \in T THEN [invitations[u] EXCEPT !.status = status]
           ELSE invitations[u]]
    /\ UNCHANGED <<artifacts, issued, expired, consumed, acceptances, conditions,
                   contracts, joining, accepted>>

ClearInvites ==
    /\ invitations' = [u \in Uuids |-> NoValue]
    /\ consumed' = {}
    /\ UNCHANGED <<artifacts, issued, expired, acceptances, conditions, contracts, joining,
                   accepted>>

SetAdmissionConditions(C) ==
    /\ conditions' = C
    /\ UNCHANGED <<invitations, artifacts, issued, expired, consumed, acceptances,
                   contracts, joining, accepted>>

-----------------------------------------------------------------------------
(* Contracts.                                                              *)

Joining == {r \in Requesters : joining[r] # NoValue}

(* The contract add_agreement appends for r: it carries the conditions the *)
(* template has at that moment.                                            *)
SignedContract(r, approved) ==
    [subject |-> r, conditions |-> conditions, approved |-> approved]

UnderBound == Cardinality(contracts) + Cardinality(Joining) < MaxContracts

(* add_agreement when the template has no condition: the policy is         *)
(* ownerApprovalRequired, and nothing suspends.                            *)
ApproveAgreement(r) ==
    /\ UnderBound
    /\ conditions = {}
    /\ contracts' = contracts \cup {SignedContract(r, TRUE)}
    /\ UNCHANGED <<invitations, artifacts, issued, expired, consumed,
                   acceptances, conditions, joining, accepted>>

(* add_agreement up to its first suspension, with conditions: the request  *)
(* matches the template, and it is authorised by the owner or by the       *)
(* policy, automaticWhenConditionsMet.                                     *)
RequestAgreement(r, approved) ==
    /\ UnderBound
    /\ joining[r] = NoValue
    /\ conditions # {}
    /\ joining' = [joining EXCEPT ![r] =
                       [remaining |-> conditions, approved |-> approved]]
    /\ UNCHANGED <<invitations, artifacts, issued, expired, consumed,
                   acceptances, conditions, contracts, accepted>>

(* One round of _conditions_hold, over the list read at the request:       *)
(* rejected when the condition does not hold, else on to the next.         *)
CheckCondition(r, name) ==
    /\ joining[r] # NoValue
    /\ name \in joining[r].remaining
    /\ ConditionHolds(name, r) => joining[r].remaining # {name}
    /\ joining' = [joining EXCEPT ![r] =
           IF ConditionHolds(name, r)
           THEN [joining[r] EXCEPT !.remaining = @ \ {name}]
           ELSE NoValue]
    /\ UNCHANGED <<invitations, artifacts, issued, expired, consumed,
                   acceptances, conditions, contracts, accepted>>

(* The last round, which holds: the contract is appended before another    *)
(* task runs.                                                              *)
SignContract(r, name) ==
    /\ joining[r] # NoValue
    /\ joining[r].remaining = {name}
    /\ ConditionHolds(name, r)
    /\ contracts' = contracts \cup {SignedContract(r, joining[r].approved)}
    /\ joining' = [joining EXCEPT ![r] = NoValue]
    /\ UNCHANGED <<invitations, artifacts, issued, expired, consumed,
                   acceptances, conditions, accepted>>

RemoveContracts(u) ==
    /\ contracts' = {c \in contracts : c.subject.uuid # u}
    /\ UNCHANGED <<invitations, artifacts, issued, expired, consumed, acceptances,
                   conditions, joining, accepted>>

-----------------------------------------------------------------------------
(* The passing of time.                                                    *)

(* The oldest live artifact of u passes its expires_at.                    *)
ExpireArtifact(u) ==
    /\ expired[u] < issued[u]
    /\ expired' = [expired EXCEPT ![u] = @ + 1]
    /\ UNCHANGED <<invitations, artifacts, issued, consumed, acceptances, conditions,
                   contracts, joining, accepted>>

(* A contract's duration ends.                                             *)
ExpireContract(c) ==
    /\ contracts' = contracts \ {c}
    /\ UNCHANGED <<invitations, artifacts, issued, expired, consumed, acceptances,
                   conditions, joining, accepted>>

-----------------------------------------------------------------------------
Next ==
    \/ \E u \in Uuids, k \in Keys : InviteIdentities(u, k)
    \/ \E T \in SUBSET Uuids : \E F \in SUBSET T :
           GenerateInvitationArtifacts(T, F)
    \/ \E a \in artifacts, id \in AcceptanceIds : BuildAcceptance(a, id)
    \/ \E x \in acceptances, a \in artifacts : AcceptInvitationArtifact(x, a)
    \/ \E T \in SUBSET Uuids, status \in {"accepted", "declined", "revoked"} :
           UpdateStatuses(T, status)
    \/ ClearInvites
    \/ \E C \in SUBSET ConditionNames : SetAdmissionConditions(C)
    \/ \E r \in Requesters, approved \in BOOLEAN : RequestAgreement(r, approved)
    \/ \E r \in Requesters : ApproveAgreement(r)
    \/ \E r \in Requesters, name \in ConditionNames : CheckCondition(r, name)
    \/ \E r \in Requesters, name \in ConditionNames : SignContract(r, name)
    \/ \E u \in Uuids : RemoveContracts(u)
    \/ \E u \in Uuids : ExpireArtifact(u)
    \/ \E c \in contracts : ExpireContract(c)

Spec == Init /\ [][Next]_vars

-----------------------------------------------------------------------------
(* Properties.                                                             *)

ConsumedRows == [artifact: Artifacts, id: AcceptanceIds]

(* Every variable keeps its type; a join that is under way still has a     *)
(* condition to evaluate, for add_agreement signs with the last one.       *)
TypeOK ==
    /\ invitations \in [Uuids -> Records \cup {NoValue}]
    /\ artifacts \subseteq Artifacts
    /\ issued \in [Uuids -> Nat]
    /\ expired \in [Uuids -> Nat]
    /\ consumed \subseteq ConsumedRows
    /\ acceptances \subseteq Acceptances
    /\ conditions \subseteq ConditionNames
    /\ contracts \subseteq Contracts
    /\ joining \in [Requesters -> Joins \cup {NoValue}]
    /\ accepted \subseteq ConsumedRows

(* An invitation artifact admits by one acceptance only, ever: whatever    *)
(* the owner revokes, clears, re-invites or regenerates in between, the    *)
(* chat never takes a second acceptance of an artifact it has taken one of *)
(* (accept_invitation_artifact with the consumed table, which clearInvites *)
(* and generateInvitationArtifacts empty).                                 *)
OneAcceptancePerArtifact ==
    \A x \in accepted, y \in accepted : x.artifact = y.artifact => x.id = y.id

(* A record that carries an acceptance is the consumed table's row for its *)
(* artifact, so admission_condition_holds never denies by a lost row and   *)
(* acceptInvitationArtifact never finds an accepted artifact unconsumed.   *)
AcceptedRecordIsBacked ==
    \A u \in Invited :
        invitations[u].acceptance # NoValue =>
            [artifact |-> invitations[u].artifact,
             id |-> invitations[u].acceptance] \in consumed

(* Nobody is admitted under invitationAccepted unless an invitee of that   *)
(* uuid signed an acceptance of the very artifact the record holds now.    *)
AdmissionIsSigned ==
    \A r \in Requesters :
        ConditionHolds("invitationAccepted", r) =>
            /\ [id |-> invitations[r.uuid].acceptance,
                artifact |-> invitations[r.uuid].artifact] \in acceptances
            /\ invitations[r.uuid].artifact.uuid = r.uuid

(* inspectInvitationArtifact never says no where acceptInvitationArtifact  *)
(* says yes: an artifact that would take an acceptance the chat has not    *)
(* seen is reported as issued, with acceptanceAllowed.                     *)
AcceptableIsIssued ==
    \A x \in acceptances :
        /\ VerifyInvitation(x.artifact)
        /\ Acceptable(x.artifact, x.id)
        /\ [artifact |-> x.artifact, id |-> x.id] \notin accepted
        => Inspect(x.artifact) = "issued"

(* Steps that take something back, let it end, or only prepare it.         *)
Withdraws ==
    \/ \E T \in SUBSET Uuids :
           \/ UpdateStatuses(T, "declined")
           \/ UpdateStatuses(T, "revoked")
           \/ \E F \in SUBSET T : GenerateInvitationArtifacts(T, F)
    \/ ClearInvites
    \/ \E u \in Uuids : RemoveContracts(u) \/ ExpireArtifact(u)
    \/ \E c \in contracts : ExpireContract(c)

(* Declining, revoking, clearing, regenerating artifacts, removing         *)
(* contracts and expiry never let anybody in who was out: no contract      *)
(* signed under other conditions starts to match, and no record that       *)
(* failed contract_allows begins to pass it.                               *)
WithdrawalNeverAdmits ==
    [][Withdraws => \A r \in Requesters : Allows(r)' => Allows(r)]_vars

(* The steps by which the owner may bring a revoked uuid back.             *)
Reinstated(u) ==
    \/ \E k \in Keys : InviteIdentities(u, k)
    \/ \E T \in SUBSET Uuids :
           u \in T /\ \E status \in Statuses : UpdateStatuses(T, status)
    \/ ClearInvites

(* A revoked invitation stays revoked until the owner invites the uuid     *)
(* again, sets its status or clears the list: neither an acceptance handed *)
(* in late or again nor generating artifacts for everyone revives it.      *)
RevokedUntilReinstated ==
    [][\A u \in Invited :
           invitations[u].status = "revoked" /\ ~Reinstated(u) =>
               invitations'[u] = invitations[u]]_vars
=============================================================================

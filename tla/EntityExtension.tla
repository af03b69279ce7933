--------------------------- MODULE EntityExtension ----------------------------
(***************************************************************************)
(* Extending an entity to a new place: the EntityScaffoldExtensionCell of  *)
(* each place.  The new place asks, a place of the entity approves what it *)
(* saw, the new place accepts; either may revoke its record of the link.   *)
(*                                                                         *)
(* A place is its owner's descriptor: a uuid with a key of its own.  A     *)
(* handler runs under the Cell's state lock, signing included: one action. *)
(* Packets are carried by people, so each one ever signed may come again,  *)
(* late, or never; an approval may also come altered, and with or without  *)
(* the descriptor of its issuer.  Requests are compared by the hash of all *)
(* they say, which is here the request's number.                           *)
(*                                                                         *)
(* Ids are UUIDs, numbered as they are drawn; both lists are kept newest   *)
(* first, which is the order of these numbers, so they are sets here.  All *)
(* places read one clock.  Audience, origin, domains, contexts, the human  *)
(* code and last_result, which nothing reads back, are left out; so is     *)
(* reviewRequest for its own sake, which changes nothing, and any call     *)
(* that is refused.                                                        *)
(***************************************************************************)
EXTENDS Naturals

CONSTANTS
    Places,
    NewPlaces,         \* those whose owner asks there
    Approvers,         \* those whose owner approves there
    KnownScopes,       \* the ids of DEFAULT_SCOPES
    UnknownScopes,     \* scopes of other implementations
    DefaultOn,         \* the known scopes that are asked for by default
    ScopeChoices,      \* the lists of scopes that callers give, the empty one included
    MinutesChoices,    \* what callers give as ttlMinutes, 0 for nothing usable
    MinMinutes, DefaultMinutes, MaxMinutes,
    MaxRequests,       \* bound on the requests made
    MaxRecords,        \* bound on the records of links made, by approving or accepting
    MaxTime            \* bound on the clock

ASSUME PlaceAssumption == NewPlaces \subseteq Places /\ Approvers \subseteq Places

ASSUME ScopeAssumption ==
    /\ DefaultOn \subseteq KnownScopes
    /\ DefaultOn # {}
    /\ ScopeChoices \subseteq SUBSET (KnownScopes \cup UnknownScopes)

ASSUME TimeAssumption ==
    /\ MinMinutes \in Nat /\ DefaultMinutes \in Nat /\ MaxMinutes \in Nat
    /\ MinutesChoices \subseteq Nat
    /\ MaxRequests \in Nat /\ MaxRecords \in Nat /\ MaxTime \in Nat

Scopes == KnownScopes \cup UnknownScopes

(* The ids of requests, and those of records.                              *)
RequestIds == 1..MaxRequests

LinkIds == 1..MaxRecords

(* linkID of an entry that was not approved.                               *)
NoLink == 0

EnrollmentRequests ==
    [id: RequestIds, by: Places, scopes: SUBSET Scopes, expires: Nat]

(* An IdentityEnrollmentApproval: its request_hash and what it grants.  Its *)
(* id is that of the record that its issuer makes along with it.           *)
Approvals ==
    [id: LinkIds, request: RequestIds, subject: Places, issuer: Places,
     scopes: SUBSET Scopes, expires: Nat]

(* An entry of outgoing.                                                   *)
Entries == [request: EnrollmentRequests, linkID: LinkIds \cup {NoLink}]

(* An IdentityLinkRecord.  request and via are history: the request that   *)
(* the link was made for, and how it came to be here.                      *)
Links ==
    [id: LinkIds, linked: Places, issuer: Places, scopes: SUBSET Scopes,
     status: {"active", "revoked"}, request: RequestIds,
     via: {"approved", "accepted", "verified"}]

VARIABLES
    links,      \* of each place, newest first in the code
    outgoing,   \* the requests it lists as its own, newest first
    now,
    asked,      \* how many requests were made, by all places
    recorded,   \* how many records of links were made
    requests,   \* the requests that were signed
    approvals   \* the approvals that were signed

packets == <<requests, approvals>>
extensionVars == <<links, outgoing, now, asked, recorded, requests, approvals>>

(* ------------------------------ Operators ------------------------------ *)

Lesser(a, b) == IF a < b THEN a ELSE b

Greater(a, b) == IF a > b THEN a ELSE b

(* The lifetime in minutes; 0 is falsy and means the default.              *)
Ttl(minutes) ==
    Lesser(MaxMinutes,
           Greater(MinMinutes, IF minutes = 0 THEN DefaultMinutes ELSE minutes))

Expired(packet) == now > packet.expires

(* review_request: the new identity signed all of it, and it is in time.   *)
Reviewable(request) == request \in requests /\ ~Expired(request)

(* The scopes an approval grants: the caller's choice as it is, or what is *)
(* recognised of the request.                                              *)
Granted(approvedScopes, request) ==
    IF approvedScopes # {} THEN approvedScopes ELSE request.scopes \cap KnownScopes

(* Mutant: a record is added and the one in force is kept.                 *)
StoreLinkBeside(held, record) == held \cup {record}

(* Mutant: a record takes the place of all that the identity had.          *)
StoreLinkOverAll(held, record) ==
    {link \in held : link.linked # record.linked} \cup {record}

(* _store_link: a new record takes the place of the one in force for the   *)
(* same identity; revoked ones stay.                                       *)
StoreLink(held, record) ==
    {link \in held : link.linked # record.linked \/ link.status = "revoked"} \cup {record}

(* Mutant: an approval is compared with every request of the list.         *)
IsListed(entry, p) == entry \in outgoing[p]

(* The entry that an approval is compared with: the first of the list.     *)
(* All of them have this place's own identity.                             *)
IsNewest(entry, p) ==
    /\ entry \in outgoing[p]
    /\ \A other \in outgoing[p] : other.request.id <= entry.request.id

Finished(entry) == entry.linkID # NoLink \/ Expired(entry.request)

(* What may be handed to a place for an approval: one that was signed, or  *)
(* one that was changed on the way and keeps a signature that does not fit. *)
Altered ==
    {[approval EXCEPT !.scopes = scopes] :
        approval \in approvals, scopes \in ScopeChoices}

(* ------------------------------- Actions ------------------------------- *)

ExtensionInit ==
    /\ links = [p \in Places |-> {}]
    /\ outgoing = [p \in Places |-> {}]
    /\ now = 0
    /\ asked = 0
    /\ recorded = 0
    /\ requests = {}
    /\ approvals = {}

(* extension.beginRequest                                                  *)
BeginRequest(p, requestedScopes, minutes) ==
    LET request ==
            [id |-> asked + 1, by |-> p,
             scopes |-> IF requestedScopes # {} THEN requestedScopes ELSE DefaultOn,
             expires |-> now + Ttl(minutes)]
    IN  /\ asked < MaxRequests
        /\ asked' = asked + 1
        /\ requests' = requests \cup {request}
        /\ outgoing' = [outgoing EXCEPT
               ![p] = @ \cup {[request |-> request, linkID |-> NoLink]}]
        /\ UNCHANGED <<links, now, recorded, approvals>>

(* extension.approveRequest: signs the approval and stores a record at     *)
(* once, whether the approval will be accepted or not.  A request may be   *)
(* approved again, and any place may approve it.                           *)
ApproveRequest(p, request, approvedScopes, minutes) ==
    LET granted == Granted(approvedScopes, request)
        id == recorded + 1
        approval ==
            [id |-> id, request |-> request.id, subject |-> request.by, issuer |-> p,
             scopes |-> granted, expires |-> now + Ttl(minutes)]
        record ==
            [id |-> id, linked |-> request.by, issuer |-> p, scopes |-> granted,
             status |-> "active", request |-> request.id, via |-> "approved"]
    IN  /\ Reviewable(request)
        /\ granted # {}
        /\ recorded < MaxRecords
        /\ recorded' = recorded + 1
        /\ approvals' = approvals \cup {approval}
        /\ links' = [links EXCEPT ![p] = StoreLink(@, record)]
        /\ UNCHANGED <<outgoing, now, asked, requests>>

(* Mutant: a key that was handed over is taken for a signature that fits.  *)
KeyIsEnough(approval, withKey) == withKey

(* The issuer's signature fits what the approval says.  withKey: the       *)
(* caller handed over the descriptor that approveRequest answered with.    *)
SignatureVerified(approval, withKey) == withKey /\ approval \in approvals

(* extension.acceptApproval: compared with the newest request listed here; *)
(* the signature counts only when the caller hands over the issuer's key.  *)
AcceptApproval(p, approval, withKey) ==
    LET verified == SignatureVerified(approval, withKey)
        record ==
            [id |-> recorded + 1, linked |-> approval.subject, issuer |-> approval.issuer,
             scopes |-> approval.scopes, status |-> "active", request |-> approval.request,
             via |-> IF verified THEN "verified" ELSE "accepted"]
    IN  /\ approval.subject = p
        /\ \E pending \in outgoing[p] :
              /\ IsNewest(pending, p)
              /\ pending.request.id = approval.request
              /\ outgoing' = [outgoing EXCEPT
                     ![p] = (@ \ {pending}) \cup {[pending EXCEPT !.linkID = recorded + 1]}]
        /\ ~Expired(approval)
        /\ withKey => verified
        /\ recorded < MaxRecords
        /\ recorded' = recorded + 1
        /\ links' = [links EXCEPT ![p] = StoreLink(@, record)]
        /\ UNCHANGED <<now, asked, requests, approvals>>

(* extension.revokeLink: the record stays, marked; a second call only      *)
(* signs another notice.                                                   *)
RevokeLink(p, link) ==
    /\ link \in links[p]
    /\ links' = [links EXCEPT
           ![p] = (@ \ {link}) \cup {[link EXCEPT !.status = "revoked"]}]
    /\ UNCHANGED <<outgoing, now, asked, recorded, requests, approvals>>

(* extension.clearPending                                                  *)
ClearPending(p) ==
    /\ outgoing' = [outgoing EXCEPT ![p] = {entry \in @ : ~Finished(entry)}]
    /\ UNCHANGED <<links, now, asked, recorded, requests, approvals>>

Tick ==
    /\ now < MaxTime
    /\ now' = now + 1
    /\ UNCHANGED <<links, outgoing, asked, recorded, requests, approvals>>

ExtensionNext ==
    \/ \E scopes \in ScopeChoices, minutes \in MinutesChoices :
          \/ \E p \in NewPlaces : BeginRequest(p, scopes, minutes)
          \/ \E p \in Approvers, request \in requests :
                ApproveRequest(p, request, scopes, minutes)
    \/ \E p \in Places :
          \/ \E approval \in approvals \cup Altered, withKey \in BOOLEAN :
                AcceptApproval(p, approval, withKey)
          \/ \E link \in links[p] : RevokeLink(p, link)
          \/ ClearPending(p)
    \/ Tick

ExtensionSpec == ExtensionInit /\ [][ExtensionNext]_extensionVars

(* ------------------------------ Properties ----------------------------- *)

ExtensionTypeOK ==
    /\ links \in [Places -> SUBSET Links]
    /\ outgoing \in [Places -> SUBSET Entries]
    /\ now \in 0..MaxTime
    /\ asked \in 0..MaxRequests
    /\ recorded \in 0..MaxRecords
    /\ requests \in SUBSET EnrollmentRequests
    /\ approvals \in SUBSET Approvals

(* A place has at most one link in force to an identity, however often a   *)
(* request is approved, an approval accepted again, or a link revoked in   *)
(* between (_store_link).                                                  *)
OneLinkInForce ==
    \A p \in Places : \A one, other \in links[p] :
        /\ one.linked = other.linked
        /\ one.status = "active"
        /\ other.status = "active"
        => one = other

(* A link that a place took after checking the signature gives what its    *)
(* issuer granted for exactly the request this place made, and the issuer  *)
(* still has a record of this place: what accept_approval compares and     *)
(* "both sides hold a link record".                                        *)
GrantedAndHeld ==
    \A p \in Places : \A link \in links[p] : link.via = "verified" =>
        /\ \E approval \in approvals : \E request \in requests :
              /\ approval.issuer = link.issuer
              /\ approval.scopes = link.scopes
              /\ approval.request = link.request
              /\ request.id = link.request
              /\ request.by = p
        /\ \E record \in links[link.issuer] : record.linked = p

(* The link that is in force at a new place is not displaced by one for an *)
(* older request while the newer request is listed as approved:            *)
(* accept_approval compares with the first of the list only.               *)
NewestRequestRules ==
    \A p \in Places : \A link \in links[p] : \A entry \in outgoing[p] :
        /\ link.via # "approved"
        /\ link.status = "active"
        /\ entry.linkID # NoLink
        => entry.request.id <= link.request

(* A revoked record stays, as it is, whatever is approved or accepted      *)
(* after it.                                                               *)
RevocationKept ==
    [][\A p \in Places : \A link \in links[p] :
          link.status = "revoked" => link \in links'[p]]_extensionVars
=============================================================================

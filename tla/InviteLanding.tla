---------------------------- MODULE InviteLanding ----------------------------
(***************************************************************************)
(* One invitation landing (cellprotocol_scaffold/invite_landing.py): the   *)
(* tickets issuers have published on it and the signed replies it holds    *)
(* until the issuer collects them.  Every handler takes the landing's lock *)
(* for all it reads and writes, so each is one action.                     *)
(*                                                                         *)
(* A handler's effect is an operator on the present state (TicketsWith..., *)
(* RepliesWith...), so that a system with several landings can use it too. *)
(* A call that is refused (400, 403, 404, 409, 410, 429) changes nothing   *)
(* and is not an action; that a publication, a notice and a ticket carry   *)
(* the issuer's signature is taken for granted, a reply may be forged.     *)
(***************************************************************************)
EXTENDS Naturals, FiniteSets

CONSTANTS
    Tickets,     \* ticket ids; an id stands for one signed ticket token
    CodeOf,      \* the six-character code of a ticket: a hash, so it may clash
    Replyable,   \* the tickets that name a contact endpoint of the issuer
    Requests,    \* contact requests, by their request id
    TicketOf,    \* the ticket a request answers
    Declining,   \* the requests that name no entity
    Forged,      \* the requests whose signature or sender does not verify
    StatusKeys,  \* the keys issuers draw for status and collection
    Caps,        \* max_contact_requests of a publication, at least 1
    NoValue      \* Python's None

ASSUME RequestAssumption ==
    /\ TicketOf \in [Requests -> Tickets]
    /\ Replyable \subseteq Tickets /\ Declining \subseteq Requests
    /\ Forged \subseteq Requests

ASSUME CapAssumption == Caps \subseteq Nat \ {0}

(* TicketRecord; response is responded_at and resulting_entity_ref.        *)
TicketRecords ==
    [key: StatusKeys, cap: Caps, opened: BOOLEAN,
     response: {"none", "declined", "accepted"}, revoked: BOOLEAN]

ASSUME NoRecordAssumption == NoValue \notin TicketRecords

VARIABLES
    tickets,   \* ticket -> its TicketRecord, or NoValue
    replies,   \* the requests held
    age,       \* ticket -> before expires_at, past it, or a day past it
    stale      \* the requests past their own expires_at

landingVars == <<tickets, replies, age, stale>>

Ages == {"live", "expired", "past"}

Unpublished == [t \in Tickets |-> NoValue]

Init ==
    /\ tickets = Unpublished
    /\ replies = {}
    /\ age = [t \in Tickets |-> "live"]
    /\ stale = {}

Published == {t \in Tickets : tickets[t] # NoValue}

RepliesTo(t) == {r \in replies : TicketOf[r] = t}

-----------------------------------------------------------------------------
(* publish *)

(* _by_code, for the codes of the other tickets.                           *)
CodeTaken(t) == \E u \in Published : u # t /\ CodeOf[u] = CodeOf[t]

(* publish answers 200: verify_publication passes a live ticket, and it is *)
(* registered already or its code is free.                                 *)
Accepts(t) == age[t] = "live" /\ (t \in Published \/ ~CodeTaken(t))

NewRecord(k, cap) ==
    [key |-> k, cap |-> cap, opened |-> FALSE, response |-> "none",
     revoked |-> FALSE]

(* Mutant: registering again replaces the record.                          *)
TicketsWithPublicationAgain(t, k, cap) ==
    IF Accepts(t) THEN [tickets EXCEPT ![t] = NewRecord(k, cap)] ELSE tickets

(* A ticket that is registered keeps its record, and its first status key. *)
TicketsWithPublication(t, k, cap) ==
    IF Accepts(t) /\ t \notin Published
    THEN [tickets EXCEPT ![t] = NewRecord(k, cap)]
    ELSE tickets

Publish(t, k, cap) ==
    /\ Accepts(t)
    /\ tickets' = TicketsWithPublication(t, k, cap)
    /\ UNCHANGED <<replies, age, stale>>

-----------------------------------------------------------------------------
(* revoke, status, collect *)

TicketsWithRevocation(t) ==
    IF t \in Published THEN [tickets EXCEPT ![t].revoked = TRUE] ELSE tickets

Revoke(t) ==
    /\ t \in Published
    /\ tickets' = TicketsWithRevocation(t)
    /\ UNCHANGED <<replies, age, stale>>

(* _authorised: one answer for a wrong key and for no such ticket.         *)
Authorised(t, k) == t \in Published /\ tickets[t].key = k

(* Mutant: expiry is looked at before the answer.                          *)
LifecycleExpiredFirst(t) ==
    IF tickets[t].revoked THEN "revoked"
    ELSE IF age[t] # "live" THEN "expired"
    ELSE IF tickets[t].response # "none" THEN tickets[t].response
    ELSE IF tickets[t].opened THEN "opened" ELSE "published"

Lifecycle(t) ==
    IF tickets[t].revoked THEN "revoked"
    ELSE IF tickets[t].response # "none" THEN tickets[t].response
    ELSE IF age[t] # "live" THEN "expired"
    ELSE IF tickets[t].opened THEN "opened" ELSE "published"

(* What status answers: whether the link was opened is not told.           *)
Status(t) == IF Lifecycle(t) = "opened" THEN "published" ELSE Lifecycle(t)

(* The replies are gone from here before the answer is on its way.         *)
RepliesAfterCollection(t) == replies \ RepliesTo(t)

Collect(t, k) ==
    /\ Authorised(t, k)
    /\ replies' = RepliesAfterCollection(t)
    /\ UNCHANGED <<tickets, age, stale>>

-----------------------------------------------------------------------------
(* reply and landing, the invitee's calls *)

(* verify_contact_request, here and again at the issuer.                   *)
VerifyContactRequest(r) ==
    /\ r \notin Forged /\ TicketOf[r] \in Replyable
    /\ r \notin stale /\ age[TicketOf[r]] = "live"

(* Mutant: whether the ticket was revoked is not asked.                    *)
TakesReplyRevoked(r) ==
    /\ TicketOf[r] \in Published
    /\ VerifyContactRequest(r)
    /\ Cardinality(RepliesTo(TicketOf[r])) < tickets[TicketOf[r]].cap

(* _store gets as far as the request ids: the ticket is known and active,  *)
(* the reply verifies, and the ticket's limit is not reached.              *)
TakesReply(r) ==
    /\ TicketOf[r] \in Published /\ ~tickets[TicketOf[r]].revoked
    /\ VerifyContactRequest(r)
    /\ Cardinality(RepliesTo(TicketOf[r])) < tickets[TicketOf[r]].cap

(* A reply that is held already is acknowledged and changes nothing.       *)
TicketsWithReply(r) ==
    IF TakesReply(r) /\ r \notin replies
    THEN [tickets EXCEPT ![TicketOf[r]].response =
              IF r \in Declining THEN "declined" ELSE "accepted"]
    ELSE tickets

RepliesWithReply(r) == IF TakesReply(r) THEN replies \cup {r} ELSE replies

Store(r) ==
    /\ TakesReply(r)
    /\ tickets' = TicketsWithReply(r)
    /\ replies' = RepliesWithReply(r)
    /\ UNCHANGED <<age, stale>>

(* The landing page of a ticket that may be used: only that it was opened. *)
TicketsOpened(t) ==
    IF t \in Published /\ ~tickets[t].revoked /\ age[t] = "live"
    THEN [tickets EXCEPT ![t].opened = TRUE]
    ELSE tickets

Landing(t) ==
    /\ tickets' = TicketsOpened(t)
    /\ UNCHANGED <<replies, age, stale>>

-----------------------------------------------------------------------------
(* purge_expired, which nothing in the scaffold calls, a restart, time *)

Kept == {t \in Published : age[t] # "past"}

TicketsAfterPurge == [t \in Tickets |-> IF t \in Kept THEN tickets[t] ELSE NoValue]

(* Mutant: the tickets go and their replies stay.                          *)
RepliesAfterPurgeAll == replies

RepliesAfterPurge == {r \in replies : TicketOf[r] \in Kept}

PurgeExpired ==
    /\ tickets' = TicketsAfterPurge
    /\ replies' = RepliesAfterPurge
    /\ UNCHANGED <<age, stale>>

(* "The store is in memory."                                               *)
Restart ==
    /\ tickets' = Unpublished
    /\ replies' = {}
    /\ UNCHANGED <<age, stale>>

ExpireTicket(t) ==
    /\ age[t] = "live"
    /\ age' = [age EXCEPT ![t] = "expired"]
    /\ UNCHANGED <<tickets, replies, stale>>

PassGrace(t) ==
    /\ age[t] = "expired"
    /\ age' = [age EXCEPT ![t] = "past"]
    /\ UNCHANGED <<tickets, replies, stale>>

(* A request lives a week, a ticket up to ninety days.                     *)
ExpireRequest(r) ==
    /\ stale' = stale \cup {r}
    /\ UNCHANGED <<tickets, replies, age>>

-----------------------------------------------------------------------------
Next ==
    \/ \E t \in Tickets, k \in StatusKeys, cap \in Caps : Publish(t, k, cap)
    \/ \E t \in Tickets : Revoke(t) \/ Landing(t) \/ ExpireTicket(t) \/ PassGrace(t)
    \/ \E t \in Tickets, k \in StatusKeys : Collect(t, k)
    \/ \E r \in Requests : Store(r) \/ ExpireRequest(r)
    \/ PurgeExpired \/ Restart

Spec == Init /\ [][Next]_landingVars

-----------------------------------------------------------------------------
(* Properties *)

(* Every variable keeps its type.                                          *)
TypeOK ==
    /\ tickets \in [Tickets -> TicketRecords \cup {NoValue}]
    /\ replies \subseteq Requests
    /\ age \in [Tickets -> Ages]
    /\ stale \subseteq Requests

(* Every reply held answers a ticket that is registered here, verified,    *)
(* and shows in that ticket's status; no more than the issuer allowed are  *)
(* held, in whatever order publication, replies, collection and purging    *)
(* come (_store, collect, purge_expired).                                  *)
RepliesAreAccounted ==
    \A r \in replies :
        /\ TicketOf[r] \in Published
        /\ r \notin Forged /\ TicketOf[r] \in Replyable
        /\ tickets[TicketOf[r]].response # "none"
        /\ Cardinality(RepliesTo(TicketOf[r])) <= tickets[TicketOf[r]].cap

(* A code names at most one of the registered tickets, so the short link   *)
(* of an invitation never opens another one (publish, _by_code).           *)
CodesAreUnique ==
    \A t, u \in Published : CodeOf[t] = CodeOf[u] => t = u

(* While a landing runs, a revocation lasts: a revoked ticket is never     *)
(* active again, by publishing it again or otherwise, until it is purged   *)
(* as past its day of grace, and it takes no further reply.                *)
RevocationLasts ==
    [][\A t \in Published :
          tickets[t].revoked /\ ~Restart =>
              /\ \/ tickets'[t] # NoValue /\ tickets'[t].revoked
                 \/ age[t] = "past"
              /\ RepliesTo(t)' \subseteq RepliesTo(t)]_landingVars

(* Once an invitee has answered, status keeps saying so or says revoked,   *)
(* also when the ticket expires or the link is opened again (lifecycle).   *)
AnswersAreReported ==
    [][\A t \in Published :
          /\ Status(t) \in {"accepted", "declined", "revoked"}
          /\ t \in Published'
          => Status(t)' \in {"accepted", "declined", "revoked"}]_landingVars
=============================================================================

----------------------------- MODULE Invitation ------------------------------
(***************************************************************************)
(* Inviting someone: the InvitationCell of an issuer (cells/invitation.py) *)
(* and the landings it publishes tickets on, with the calls between them.  *)
(*                                                                         *)
(* The Cell runs a handler under its state lock, HTTP calls included, so   *)
(* a handler is one action.  A call has three outcomes: it is answered; it *)
(* was handled and the answer did not come back in time; or the landing    *)
(* has not seen it, and may still handle it after the Cell has given up.   *)
(* Replies come from invitees, any number of times, on any landing.        *)
(*                                                                         *)
(* All hosts read one clock.  Counters, links, texts and the time stamps   *)
(* of an outbox entry are left out, and so is the opening of a link, which *)
(* changes nothing at a landing that these handlers read.                  *)
(***************************************************************************)
EXTENDS Naturals, Sequences, FiniteSets

CONSTANTS
    Bases,        \* the landings there are
    BaseLists,    \* the settings landingBase, fallbackLandingBase, as _bases gives them
    Tickets, CodeOf, Replyable, Requests, TicketOf, Declining, Forged, Caps, NoValue,
    AudienceOf,   \* the audience token of a ticket: who it is for
    MaxKeys,      \* bound on the status keys drawn
    MaxRestarts   \* bound on the restarts of landings

StatusKeys == 1..MaxKeys

ASSUME SettingsAssumption ==
    /\ BaseLists \subseteq Seq(Bases)
    /\ \A list \in BaseLists : \A i, j \in DOMAIN list : list[i] = list[j] => i = j

(* What InviteLanding assumes of these constants.                          *)
ASSUME LandingAssumption ==
    /\ TicketOf \in [Requests -> Tickets]
    /\ Replyable \subseteq Tickets /\ Declining \subseteq Requests
    /\ Forged \subseteq Requests
    /\ Caps \subseteq Nat \ {0}

ASSUME BoundAssumption == MaxKeys \in Nat /\ MaxRestarts \in Nat

VARIABLES
    tickets, replies,  \* of each landing, as in InviteLanding
    age, stale,        \* time, as in InviteLanding
    settings,          \* bases, autoPublish and maxContactRequests
    minted,            \* the tickets signed so far
    outbox,            \* ticket -> its entry, or NoValue
    inbox,             \* rows [request, accepted]
    keys,              \* how many status keys were drawn
    late,              \* calls given up that a landing may still handle
    signed,            \* the requests invitees have signed
    restarts,          \* how many restarts there were
    withdrawn          \* history: <<base, ticket>> a landing has revoked

landings == <<tickets, replies>>
issuer == <<settings, minted, outbox, inbox, keys>>
vars == <<tickets, replies, age, stale, settings, minted, outbox, inbox, keys,
          late, signed, restarts, withdrawn>>

L(b) == INSTANCE InviteLanding WITH tickets <- tickets[b], replies <- replies[b]

OpenStates == {"prepared", "sent", "opened"}

(* An outbox entry; forced is a history field.                             *)
Entries ==
    [state: OpenStates \cup {"joined", "declined", "blocked"},
     key: StatusKeys \cup {NoValue}, base: Bases \cup {NoValue}, forced: BOOLEAN]

(* NoValue is no value; the records of a landing are the same for each.    *)
ASSUME NoValueAssumption ==
    /\ NoValue \notin Bases /\ NoValue \notin StatusKeys /\ NoValue \notin Entries
    /\ NoValue \notin L(NoValue)!TicketRecords

Calls ==
    [call: {"publish"}, base: Bases, ticket: Tickets, key: StatusKeys, cap: Caps]
    \cup [call: {"revoke"}, base: Bases, ticket: Tickets]
    \cup [call: {"collect"}, base: Bases, ticket: Tickets, key: StatusKeys]

Outcomes == {"answered", "unanswered", "late"}

Init ==
    /\ tickets = [b \in Bases |-> [t \in Tickets |-> NoValue]]
    /\ replies = [b \in Bases |-> {}]
    /\ age = [t \in Tickets |-> "live"]
    /\ stale = {}
    /\ settings \in [bases: BaseLists, autoPublish: BOOLEAN, cap: Caps]
    /\ minted = {}
    /\ outbox = [t \in Tickets |-> NoValue]
    /\ inbox = {}
    /\ keys = 0
    /\ late = {}
    /\ signed = {}
    /\ restarts = 0
    /\ withdrawn = {}

InOutbox == {t \in Tickets : outbox[t] # NoValue}

(* entry["published"]: a key and a landing were recorded together.         *)
IsPublished(t) == t \in InOutbox /\ outbox[t].base # NoValue

Configure(new) ==
    /\ settings' = new
    /\ UNCHANGED <<landings, age, stale, minted, outbox, inbox, keys, late, signed,
                   restarts, withdrawn>>

-----------------------------------------------------------------------------
(* _publish_ticket *)

(* The landings tried with these outcomes: up to the first that accepts.   *)
Tried(t, outcome) ==
    {i \in DOMAIN settings.bases :
        \A j \in 1..(i - 1) :
            ~(outcome[j] = "answered" /\ L(settings.bases[j])!Accepts(t))}

(* Mutant: a landing that answered has accepted.                           *)
WinnerAnswered(t, outcome) == {i \in Tried(t, outcome) : outcome[i] = "answered"}

Winner(t, outcome) ==
    {i \in Tried(t, outcome) :
        outcome[i] = "answered" /\ L(settings.bases[i])!Accepts(t)}

(* Mutant: the key of the attempt before is offered.                       *)
CallOldKey(t, i) ==
    [call |-> "publish", base |-> settings.bases[i], ticket |-> t,
     key |-> keys, cap |-> settings.cap]

Call(t, i) ==
    [call |-> "publish", base |-> settings.bases[i], ticket |-> t,
     key |-> keys + 1, cap |-> settings.cap]

(* One new status key, offered to the landings in turn.                    *)
PublishTicket(t, outcome) ==
    LET handled == {settings.bases[i] : i \in {j \in Tried(t, outcome) : outcome[j] # "late"}} IN
    /\ keys < MaxKeys
    /\ keys' = keys + 1
    /\ tickets' = [b \in Bases |->
           IF b \in handled
           THEN L(b)!TicketsWithPublication(t, keys + 1, settings.cap)
           ELSE tickets[b]]
    /\ late' = late \cup
           {Call(t, i) : i \in {j \in Tried(t, outcome) : outcome[j] = "late"}}

(* The entry with what _publish_ticket returned.                           *)
Recorded(entry, t, outcome) ==
    IF Winner(t, outcome) = {} THEN entry
    ELSE [entry EXCEPT !.key = keys + 1,
              !.base = settings.bases[CHOOSE i \in Winner(t, outcome) : TRUE]]

-----------------------------------------------------------------------------
(* The handlers of invite.prepare, invite.publish and invite.markSent *)

(* An open invitation to the same recipient.                              *)
Duplicate(t) ==
    \E u \in InOutbox :
        /\ AudienceOf[u] = AudienceOf[t] /\ age[u] = "live"
        /\ outbox[u].state \in OpenStates

NewEntry(force) ==
    [state |-> "prepared", key |-> NoValue, base |-> NoValue, forced |-> force]

(* prepare without publication: an e-mail only.                            *)
PrepareUnpublished(t, force) ==
    /\ t \notin minted
    /\ force \/ ~Duplicate(t)
    /\ ~settings.autoPublish \/ settings.bases = <<>>
    /\ minted' = minted \cup {t}
    /\ outbox' = [outbox EXCEPT ![t] = NewEntry(force)]
    /\ UNCHANGED <<landings, age, stale, settings, inbox, keys, late, signed, restarts,
                   withdrawn>>

(* prepare with publication.  When no landing accepts, an e-mail falls     *)
(* back to a link of its own; for an SMS the ticket is signed and          *)
(* forgotten.                                                              *)
PreparePublished(t, force, sms, outcome) ==
    /\ t \notin minted
    /\ force \/ ~Duplicate(t)
    /\ settings.autoPublish /\ settings.bases # <<>>
    /\ minted' = minted \cup {t}
    /\ PublishTicket(t, outcome)
    /\ outbox' = IF sms /\ Winner(t, outcome) = {} THEN outbox
                 ELSE [outbox EXCEPT ![t] = Recorded(NewEntry(force), t, outcome)]
    /\ UNCHANGED <<replies, age, stale, settings, inbox, signed, restarts, withdrawn>>

Publish(t, outcome) ==
    /\ t \in InOutbox /\ ~IsPublished(t)
    /\ settings.bases # <<>>
    /\ PublishTicket(t, outcome)
    /\ outbox' = [outbox EXCEPT ![t] = Recorded(outbox[t], t, outcome)]
    /\ UNCHANGED <<replies, age, stale, settings, minted, inbox, signed, restarts, withdrawn>>

MarkSent(t) ==
    /\ t \in InOutbox /\ outbox[t].state = "prepared"
    /\ outbox' = [outbox EXCEPT ![t].state = "sent"]
    /\ UNCHANGED <<landings, age, stale, settings, minted, inbox, keys, late, signed,
                   restarts, withdrawn>>

-----------------------------------------------------------------------------
(* The handlers of invite.refreshStatus and invite.pullContactRequests *)

Candidates == {t \in Tickets : IsPublished(t)}

Unresolved == {t \in Candidates : outbox[t].state \in OpenStates}

(* Mutant: what the landing calls published counts as sent.                *)
MappedSent(t) ==
    LET state == L(outbox[t].base)!Status(t) IN
    IF state = "accepted" THEN "joined"
    ELSE IF state = "declined" THEN "declined"
    ELSE IF state = "revoked" THEN "blocked"
    ELSE IF state = "published" THEN "sent" ELSE outbox[t].state

(* The state an entry takes from the landing's report.                     *)
Mapped(t) ==
    LET state == L(outbox[t].base)!Status(t) IN
    IF state = "accepted" THEN "joined"
    ELSE IF state = "declined" THEN "declined"
    ELSE IF state = "revoked" THEN "blocked" ELSE outbox[t].state

(* refresh_status asks for C; the ones in answered get a report, if the    *)
(* landing knows the ticket by that key.                                   *)
RefreshStatus(C, answered) ==
    /\ C = Unresolved \/ \E t \in Candidates : C = {t}
    /\ outbox' = [t \in Tickets |->
           IF t \in answered /\ L(outbox[t].base)!Authorised(t, outbox[t].key)
           THEN [outbox[t] EXCEPT !.state = Mapped(t)]
           ELSE outbox[t]]
    /\ UNCHANGED <<landings, age, stale, settings, minted, inbox, keys, late, signed,
                   restarts, withdrawn>>

(* Whose replies the landings hand over, by the outcome of each call.      *)
Served(outcome, kinds) ==
    {t \in Candidates : outcome[t] \in kinds
                        /\ L(outbox[t].base)!Authorised(t, outbox[t].key)}

(* Mutant: what the landing relays is believed.                            *)
ReceivedUnverified(outcome, relayed) ==
    UNION {L(outbox[t].base)!RepliesTo(t) \cup relayed : t \in Served(outcome, {"answered"})}

(* The replies that come in and verify against the ticket they answer: a   *)
(* landing only relays them, so there may be forged ones among them.       *)
Received(outcome, relayed) ==
    UNION {{r \in L(outbox[t].base)!RepliesTo(t) \cup relayed :
                TicketOf[r] = t /\ L(outbox[t].base)!VerifyContactRequest(r)} :
            t \in Served(outcome, {"answered"})}

PullContactRequests(outcome, relayed) ==
    LET handled == Served(outcome, {"answered", "unanswered"}) IN
    /\ Candidates # {}
    /\ replies' = [b \in Bases |->
           {r \in replies[b] :
               ~(TicketOf[r] \in handled /\ outbox[TicketOf[r]].base = b)}]
    /\ inbox' = inbox \cup
           {[request |-> r, accepted |-> FALSE] :
               r \in {q \in Received(outcome, relayed) : \A row \in inbox : row.request # q}}
    /\ late' = late \cup
           {[call |-> "collect", base |-> outbox[t].base, ticket |-> t,
             key |-> outbox[t].key] : t \in {u \in Candidates : outcome[u] = "late"}}
    /\ UNCHANGED <<tickets, age, stale, settings, minted, outbox, keys, signed,
                   restarts, withdrawn>>

-----------------------------------------------------------------------------
(* invite.acceptContactRequest, invite.revoke, invite.clearOutbox *)

AcceptContactRequest(row) ==
    LET t == TicketOf[row.request] IN
    /\ row \in inbox
    /\ inbox' = (inbox \ {row}) \cup {[row EXCEPT !.accepted = TRUE]}
    /\ outbox' = IF t \in InOutbox THEN [outbox EXCEPT ![t].state = "joined"]
                 ELSE outbox
    /\ UNCHANGED <<landings, age, stale, settings, minted, keys, late, signed,
                   restarts, withdrawn>>

(* revoke of a ticket that is on no landing the Cell knows of.             *)
RevokeLocally(t) ==
    /\ t \in InOutbox /\ ~IsPublished(t)
    /\ outbox' = [outbox EXCEPT ![t].state = "declined"]
    /\ UNCHANGED <<landings, age, stale, settings, minted, inbox, keys, late, signed,
                   restarts, withdrawn>>

(* revoke of a published ticket: a notice to the landing of the entry.     *)
Revoke(t, outcome) ==
    LET b == outbox[t].base IN
    /\ IsPublished(t)
    /\ outbox' = [outbox EXCEPT ![t].state = "declined"]
    /\ IF outcome = "late"
       THEN /\ late' = late \cup {[call |-> "revoke", base |-> b, ticket |-> t]}
            /\ UNCHANGED <<tickets, withdrawn>>
       ELSE /\ tickets' = [tickets EXCEPT ![b] = L(b)!TicketsWithRevocation(t)]
            /\ withdrawn' = IF t \in L(b)!Published THEN withdrawn \cup {<<b, t>>}
                            ELSE withdrawn
            /\ UNCHANGED late
    /\ UNCHANGED <<replies, age, stale, settings, minted, inbox, keys, signed,
                   restarts>>

(* clear_outbox drops the joined and declined entries, or every entry.     *)
ClearOutbox(dropped) ==
    /\ \/ dropped = InOutbox
       \/ dropped = {t \in InOutbox : outbox[t].state \in {"joined", "declined"}}
    /\ outbox' = [t \in Tickets |-> IF t \in dropped THEN NoValue ELSE outbox[t]]
    /\ UNCHANGED <<landings, age, stale, settings, minted, inbox, keys, late, signed,
                   restarts, withdrawn>>

-----------------------------------------------------------------------------
(* Invitees, landings and time *)

(* respond: the ticket verifies, a request is signed and sent.             *)
Respond(r) ==
    /\ r \notin Forged
    /\ TicketOf[r] \in minted /\ age[TicketOf[r]] = "live"
    /\ TicketOf[r] \in Replyable
    /\ r \notin stale
    /\ signed' = signed \cup {r}
    /\ UNCHANGED <<landings, age, stale, issuer, late, restarts, withdrawn>>

(* A reply reaches a landing: one just signed, sent again, or forged.      *)
ReplyArrives(b, r) ==
    /\ r \in signed \cup Forged
    /\ L(b)!TakesReply(r)
    /\ tickets' = [tickets EXCEPT ![b] = L(b)!TicketsWithReply(r)]
    /\ replies' = [replies EXCEPT ![b] = L(b)!RepliesWithReply(r)]
    /\ UNCHANGED <<age, stale, issuer, late, signed, restarts, withdrawn>>

(* A landing handles a call its sender has given up.                       *)
LatePublish(c) ==
    /\ c \in late /\ c.call = "publish"
    /\ tickets' = [tickets EXCEPT ![c.base] =
           L(c.base)!TicketsWithPublication(c.ticket, c.key, c.cap)]
    /\ late' = late \ {c}
    /\ UNCHANGED <<replies, age, stale, issuer, signed, restarts, withdrawn>>

LateRevoke(c) ==
    /\ c \in late /\ c.call = "revoke"
    /\ tickets' = [tickets EXCEPT ![c.base] = L(c.base)!TicketsWithRevocation(c.ticket)]
    /\ withdrawn' = IF c.ticket \in L(c.base)!Published
                    THEN withdrawn \cup {<<c.base, c.ticket>>} ELSE withdrawn
    /\ late' = late \ {c}
    /\ UNCHANGED <<replies, age, stale, issuer, signed, restarts>>

LateCollect(c) ==
    /\ c \in late /\ c.call = "collect"
    /\ replies' = [replies EXCEPT ![c.base] =
           IF L(c.base)!Authorised(c.ticket, c.key)
           THEN L(c.base)!RepliesAfterCollection(c.ticket) ELSE @]
    /\ late' = late \ {c}
    /\ UNCHANGED <<tickets, age, stale, issuer, signed, restarts, withdrawn>>

PurgeExpired(b) ==
    /\ tickets' = [tickets EXCEPT ![b] = L(b)!TicketsAfterPurge]
    /\ replies' = [replies EXCEPT ![b] = L(b)!RepliesAfterPurge]
    /\ UNCHANGED <<age, stale, issuer, late, signed, restarts, withdrawn>>

(* A landing restarts: its store is gone, and so are its connections.      *)
Restart(b) ==
    /\ restarts < MaxRestarts
    /\ tickets' = [tickets EXCEPT ![b] = L(b)!Unpublished]
    /\ replies' = [replies EXCEPT ![b] = {}]
    /\ late' = {c \in late : c.base # b}
    /\ restarts' = restarts + 1
    /\ UNCHANGED <<age, stale, issuer, signed, withdrawn>>

ExpireTicket(t) ==
    /\ t \in minted /\ age[t] = "live"
    /\ age' = [age EXCEPT ![t] = "expired"]
    /\ UNCHANGED <<landings, stale, issuer, late, signed, restarts, withdrawn>>

PassGrace(t) ==
    /\ age[t] = "expired"
    /\ age' = [age EXCEPT ![t] = "past"]
    /\ UNCHANGED <<landings, stale, issuer, late, signed, restarts, withdrawn>>

ExpireRequest(r) ==
    /\ r \in signed
    /\ stale' = stale \cup {r}
    /\ UNCHANGED <<landings, age, issuer, late, signed, restarts, withdrawn>>

-----------------------------------------------------------------------------
IssuerStep ==
    \/ \E new \in [bases: BaseLists, autoPublish: BOOLEAN, cap: Caps] : Configure(new)
    \/ \E t \in Tickets, force \in BOOLEAN :
        \/ PrepareUnpublished(t, force)
        \/ \E sms \in BOOLEAN, outcome \in [DOMAIN settings.bases -> Outcomes] :
               PreparePublished(t, force, sms, outcome)
    \/ \E t \in Tickets, outcome \in [DOMAIN settings.bases -> Outcomes] :
           Publish(t, outcome)
    \/ \E t \in Tickets : MarkSent(t) \/ RevokeLocally(t)
    \/ \E t \in Tickets, outcome \in Outcomes : Revoke(t, outcome)
    \/ \E C \in SUBSET Candidates : \E answered \in SUBSET C : RefreshStatus(C, answered)
    \/ \E outcome \in [Candidates -> Outcomes], relayed \in SUBSET Forged :
           PullContactRequests(outcome, relayed)
    \/ \E row \in inbox : AcceptContactRequest(row)
    \/ \E dropped \in SUBSET InOutbox : ClearOutbox(dropped)

LandingStep(b) ==
    \/ \E r \in Requests : ReplyArrives(b, r)
    \/ PurgeExpired(b) \/ Restart(b)

Next ==
    \/ IssuerStep
    \/ \E b \in Bases : LandingStep(b)
    \/ \E c \in late : LatePublish(c) \/ LateRevoke(c) \/ LateCollect(c)
    \/ \E r \in Requests : Respond(r) \/ ExpireRequest(r)
    \/ \E t \in Tickets : ExpireTicket(t) \/ PassGrace(t)

Spec == Init /\ [][Next]_vars

-----------------------------------------------------------------------------
(* Properties *)

(* Every variable keeps its type.                                          *)
TypeOK ==
    /\ \A b \in Bases : L(b)!TypeOK
    /\ settings \in [bases: BaseLists, autoPublish: BOOLEAN, cap: Caps]
    /\ minted \subseteq Tickets
    /\ outbox \in [Tickets -> Entries \cup {NoValue}]
    /\ inbox \subseteq [request: Requests, accepted: BOOLEAN]
    /\ keys \in 0..MaxKeys
    /\ late \subseteq Calls
    /\ signed \subseteq Requests
    /\ restarts \in 0..MaxRestarts

(* Whatever a landing relays, the inbox holds each reply once, and only    *)
(* replies an invitee signed to a ticket of this issuer; and an invitation *)
(* counts as joined only when an invitee has answered it                   *)
(* (pull_contact_requests, refresh_status, accept_contact_request).        *)
AnswersAreGenuine ==
    /\ \A row \in inbox : row.request \in signed \ Forged
    /\ \A row1, row2 \in inbox : row1.request = row2.request => row1 = row2
    /\ \A t \in InOutbox : outbox[t].state = "joined" =>
           \E r \in signed \ Forged : TicketOf[r] = t

(* Nobody has two open, unexpired invitations unless one of them was       *)
(* forced, whatever answers and revocations come in between (prepare).     *)
OneOpenInvitation ==
    \A t, u \in InOutbox :
        /\ t # u /\ AudienceOf[t] = AudienceOf[u]
        /\ age[t] = "live" /\ age[u] = "live"
        /\ outbox[t].state \in OpenStates /\ outbox[u].state \in OpenStates
        => outbox[t].forced \/ outbox[u].forced

(* A ticket the Cell believes to be published is registered at the landing *)
(* it names, as long as no landing was restarted and none may purge it:    *)
(* the short link handed out leads somewhere (_publish_ticket, publish).   *)
PublishedIsHeld ==
    \A t \in Candidates :
        restarts = 0 /\ age[t] # "past" => t \in L(outbox[t].base)!Published

(* A landing that has carried out a revocation never takes a reply to that *)
(* ticket again, though publications of it may still be under way and the  *)
(* landing may restart and forget the ticket (publish, revoke, _store).    *)
RevokedTakesNoReply ==
    [][\A b \in Bases, t \in Tickets :
           <<b, t>> \in withdrawn =>
               L(b)!RepliesTo(t)' \subseteq L(b)!RepliesTo(t)]_vars
=============================================================================

------------------------- MODULE InviteLandingProofs -------------------------
(* Theorems about InviteLanding, for every set of tickets and requests.    *)
EXTENDS InviteLanding, FiniteSetTheorems, TLAPS

(* The inductive invariant.  The held replies are finitely many, so that   *)
(* they can be counted; a registered ticket's code names no other.         *)
IInv ==
    /\ TypeOK
    /\ IsFiniteSet(replies)
    /\ RepliesAreAccounted
    /\ CodesAreUnique

(* A subset of the held replies is no larger than what holds it.           *)
LEMMA FewerReplies ==
    ASSUME NEW S, NEW T, IsFiniteSet(S), T \subseteq S
    PROVE  IsFiniteSet(T) /\ Cardinality(T) \in Nat /\ Cardinality(T) <= Cardinality(S)
  BY FS_Subset, FS_CardinalityType

(* Records stay records when one field is replaced.                        *)
LEMMA RecordUpdates ==
    ASSUME NEW rec \in TicketRecords
    PROVE  /\ [rec EXCEPT !.revoked = TRUE] \in TicketRecords
           /\ [rec EXCEPT !.opened = TRUE] \in TicketRecords
           /\ \A x \in {"declined", "accepted"} : [rec EXCEPT !.response = x] \in TicketRecords
  BY DEF TicketRecords

LEMMA NewRecordType ==
    ASSUME NEW k \in StatusKeys, NEW cap \in Caps
    PROVE  NewRecord(k, cap) \in TicketRecords
  BY DEF NewRecord, TicketRecords

LEMMA RecordsAreValues ==
    ASSUME TypeOK, NEW t \in Published
    PROVE  tickets[t] \in TicketRecords /\ t \in Tickets /\ tickets[t].cap \in Nat
  BY CapAssumption DEF TypeOK, Published, TicketRecords

LEMMA InitInv == Init => IInv
  <1> SUFFICES ASSUME Init PROVE IInv
    OBVIOUS
  <1>1. TypeOK
    BY DEF Init, TypeOK, Unpublished, Ages
  <1>2. Published = {} /\ replies = {}
    BY DEF Init, Published, Unpublished
  <1> QED
    BY <1>1, <1>2, FS_EmptySet DEF IInv, RepliesAreAccounted, CodesAreUnique

(* A publication adds at most one ticket, with a code that was free and    *)
(* with no reply held for it.                                              *)
LEMMA PublishInv ==
    ASSUME IInv, NEW t \in Tickets, NEW k \in StatusKeys, NEW cap \in Caps,
           Publish(t, k, cap)
    PROVE  IInv'
  <1> USE DEF IInv
  <1>1. CASE t \in Published
    <2>1. UNCHANGED landingVars
      BY <1>1 DEF Publish, TicketsWithPublication, landingVars
    <2> QED
      BY <2>1 DEF landingVars, TypeOK, RepliesAreAccounted, CodesAreUnique, Published,
                  RepliesTo
  <1>2. CASE t \notin Published
    <2>1. tickets' = [tickets EXCEPT ![t] = NewRecord(k, cap)] /\ ~CodeTaken(t)
      BY <1>2 DEF Publish, Accepts, TicketsWithPublication
    <2>2. TypeOK'
      BY <2>1, NewRecordType DEF Publish, TypeOK
    <2>3. /\ Published' = Published \cup {t}
          /\ \A u \in Published : tickets'[u] = tickets[u]
      BY <1>2, <2>1, NewRecordType, NoRecordAssumption DEF TypeOK, Published
    <2>4. RepliesAreAccounted'
      <3> SUFFICES ASSUME NEW r \in replies
                   PROVE  /\ TicketOf[r] \in Published'
                          /\ r \notin Forged /\ TicketOf[r] \in Replyable
                          /\ tickets'[TicketOf[r]].response # "none"
                          /\ Cardinality(RepliesTo(TicketOf[r])) <= tickets'[TicketOf[r]].cap
        BY DEF RepliesAreAccounted, RepliesTo, Publish
      <3>1. TicketOf[r] \in Published
        BY DEF RepliesAreAccounted
      <3> QED
        BY <2>3, <3>1 DEF RepliesAreAccounted
    <2>5. CodesAreUnique'
      BY <1>2, <2>1, <2>3 DEF CodesAreUnique, CodeTaken
    <2> QED
      BY <2>2, <2>4, <2>5 DEF Publish
  <1> QED
    BY <1>1, <1>2

(* What a step on a registered ticket's record leaves as it was.           *)
LEMMA SameBooks ==
    ASSUME IInv, TypeOK', UNCHANGED replies,
           \A t \in Tickets :
               /\ (tickets'[t] = NoValue) <=> (tickets[t] = NoValue)
               /\ tickets[t] # NoValue =>
                      /\ tickets'[t].cap = tickets[t].cap
                      /\ tickets'[t].response = tickets[t].response
    PROVE  IInv'
  <1> USE DEF IInv
  <1>1. Published' = Published
    BY DEF Published
  <1>2. RepliesAreAccounted'
    <2> SUFFICES ASSUME NEW r \in replies
                 PROVE  /\ TicketOf[r] \in Published'
                        /\ r \notin Forged /\ TicketOf[r] \in Replyable
                        /\ tickets'[TicketOf[r]].response # "none"
                        /\ Cardinality(RepliesTo(TicketOf[r])) <= tickets'[TicketOf[r]].cap
      BY DEF RepliesAreAccounted, RepliesTo
    <2>1. TicketOf[r] \in Published
      BY DEF RepliesAreAccounted
    <2> QED
      BY <1>1, <2>1 DEF RepliesAreAccounted, Published
  <1>3. CodesAreUnique'
    BY <1>1 DEF CodesAreUnique
  <1> QED
    BY <1>2, <1>3

LEMMA RecordStepInv ==
    ASSUME IInv, NEW t \in Tickets, Revoke(t) \/ Landing(t)
    PROVE  IInv'
  <1>1. CASE tickets' = tickets
    <2>1. UNCHANGED <<replies, age, stale>>
      BY DEF Revoke, Landing
    <2> QED
      BY <1>1, <2>1, SameBooks DEF IInv, TypeOK
  <1>2. CASE tickets' # tickets
    <2>1. UNCHANGED <<replies, age, stale>> /\ t \in Published
      BY <1>2 DEF Revoke, Landing, TicketsOpened
    <2>2. \/ tickets' = [tickets EXCEPT ![t] = [tickets[t] EXCEPT !.revoked = TRUE]]
          \/ tickets' = [tickets EXCEPT ![t] = [tickets[t] EXCEPT !.opened = TRUE]]
      BY <1>2 DEF Revoke, Landing, TicketsOpened, TicketsWithRevocation
    <2>3. tickets[t] \in TicketRecords
      BY <2>1, RecordsAreValues DEF IInv
    <2>4. PICK rec \in TicketRecords :
              /\ tickets' = [tickets EXCEPT ![t] = rec]
              /\ rec.cap = tickets[t].cap /\ rec.response = tickets[t].response
      <3>1. CASE tickets' = [tickets EXCEPT ![t] = [tickets[t] EXCEPT !.revoked = TRUE]]
        <4>1. [tickets[t] EXCEPT !.revoked = TRUE] \in TicketRecords
          BY <2>3, RecordUpdates
        <4> QED
          BY <2>3, <3>1, <4>1 DEF TicketRecords
      <3>2. CASE tickets' = [tickets EXCEPT ![t] = [tickets[t] EXCEPT !.opened = TRUE]]
        <4>1. [tickets[t] EXCEPT !.opened = TRUE] \in TicketRecords
          BY <2>3, RecordUpdates
        <4> QED
          BY <2>3, <3>2, <4>1 DEF TicketRecords
      <3> QED
        BY <2>2, <3>1, <3>2
    <2>5. TypeOK'
      BY <2>1, <2>4 DEF IInv, TypeOK
    <2>6. rec # NoValue
      BY NoRecordAssumption
    <2>7. \A u \in Tickets : tickets'[u] = IF u = t THEN rec ELSE tickets[u]
      BY <2>4 DEF IInv, TypeOK
    <2> HIDE DEF IInv
    <2> QED
      BY <2>1, <2>4, <2>5, <2>6, <2>7, SameBooks DEF Published
  <1> QED
    BY <1>1, <1>2

(* Replies go, and with them at most tickets that have none left.          *)
LEMMA FewerBooks ==
    ASSUME IInv, TypeOK', replies' \subseteq replies,
           \A t \in Published' : tickets'[t] = tickets[t],
           Published' \subseteq Published,
           \A r \in replies' : TicketOf[r] \in Published'
    PROVE  IInv'
  <1> USE DEF IInv
  <1>1. IsFiniteSet(replies')
    BY FewerReplies
  <1>2. RepliesAreAccounted'
    <2> SUFFICES ASSUME NEW r \in replies'
                 PROVE  /\ TicketOf[r] \in Published'
                        /\ r \notin Forged /\ TicketOf[r] \in Replyable
                        /\ tickets'[TicketOf[r]].response # "none"
                        /\ Cardinality(RepliesTo(TicketOf[r])') <= tickets'[TicketOf[r]].cap
      BY DEF RepliesAreAccounted, RepliesTo
    <2> DEFINE t == TicketOf[r]
    <2>1. t \in Published' /\ t \in Published /\ tickets'[t] = tickets[t]
      OBVIOUS
    <2>2. /\ r \notin Forged /\ t \in Replyable /\ tickets[t].response # "none"
          /\ Cardinality(RepliesTo(t)) <= tickets[t].cap
      BY DEF RepliesAreAccounted
    <2>3. IsFiniteSet(RepliesTo(t)) /\ RepliesTo(t)' \subseteq RepliesTo(t)
      BY FewerReplies DEF RepliesTo
    <2>4. /\ Cardinality(RepliesTo(t)') \in Nat /\ Cardinality(RepliesTo(t)) \in Nat
          /\ Cardinality(RepliesTo(t)') <= Cardinality(RepliesTo(t))
      BY <2>3, FewerReplies
    <2>5. tickets[t].cap \in Nat
      BY <2>1, RecordsAreValues
    <2> QED
      BY <2>1, <2>2, <2>4, <2>5
  <1>3. CodesAreUnique'
    BY DEF CodesAreUnique
  <1> QED
    BY <1>1, <1>2, <1>3

LEMMA CollectInv ==
    ASSUME IInv, NEW t \in Tickets, NEW k \in StatusKeys, Collect(t, k)
    PROVE  IInv'
  <1>1. replies' \subseteq replies /\ UNCHANGED <<tickets, age, stale>>
    BY DEF Collect, RepliesAfterCollection
  <1>2. TypeOK' /\ Published' = Published
    BY <1>1 DEF IInv, TypeOK, Published
  <1>3. \A r \in replies' : TicketOf[r] \in Published'
    BY <1>1, <1>2 DEF IInv, RepliesAreAccounted
  <1> QED
    BY <1>1, <1>2, <1>3, FewerBooks

LEMMA PurgeInv ==
    ASSUME IInv, PurgeExpired
    PROVE  IInv'
  <1>1. TypeOK'
    BY DEF IInv, TypeOK, PurgeExpired, TicketsAfterPurge, RepliesAfterPurge, Kept, Published
  <1>2. Published' = Kept /\ \A t \in Kept : tickets'[t] = tickets[t]
    BY DEF PurgeExpired, TicketsAfterPurge, Kept, Published
  <1>3. replies' \subseteq replies /\ \A r \in replies' : TicketOf[r] \in Kept
    BY DEF PurgeExpired, RepliesAfterPurge
  <1>4. Kept \subseteq Published
    BY DEF Kept
  <1> QED
    BY <1>1, <1>2, <1>3, <1>4, FewerBooks

LEMMA RestartInv ==
    ASSUME IInv, Restart
    PROVE  IInv'
  <1>1. TypeOK'
    BY DEF IInv, TypeOK, Restart, Unpublished
  <1>2. Published' = {} /\ replies' = {}
    BY DEF Restart, Unpublished, Published
  <1> QED
    BY <1>1, <1>2, FewerBooks

LEMMA TimeInv ==
    ASSUME IInv, \/ \E t \in Tickets : ExpireTicket(t) \/ PassGrace(t)
                 \/ \E r \in Requests : ExpireRequest(r)
    PROVE  IInv'
  <1>1. UNCHANGED <<tickets, replies>>
    BY DEF ExpireTicket, PassGrace, ExpireRequest
  <1>2. TypeOK'
    BY DEF IInv, TypeOK, ExpireTicket, PassGrace, ExpireRequest, Ages
  <1> QED
    BY <1>1, <1>2, SameBooks

(* A reply that is taken: one more is held, and the limit allowed it.      *)
LEMMA StoreInv ==
    ASSUME IInv, NEW r \in Requests, Store(r)
    PROVE  IInv'
  <1> DEFINE t == TicketOf[r]
  <1>1. CASE r \in replies
    <2>1. UNCHANGED landingVars
      BY <1>1 DEF Store, TicketsWithReply, RepliesWithReply, landingVars
    <2> QED
      BY <2>1, SameBooks DEF IInv, landingVars, TypeOK
  <1>2. CASE r \notin replies
    <2>1. /\ t \in Published /\ r \notin Forged /\ t \in Replyable
          /\ Cardinality(RepliesTo(t)) < tickets[t].cap
          /\ replies' = replies \cup {r} /\ UNCHANGED <<age, stale>>
      BY DEF Store, TakesReply, VerifyContactRequest, RepliesWithReply
    <2>2. PICK x \in {"declined", "accepted"} :
              tickets' = [tickets EXCEPT ![t] = [tickets[t] EXCEPT !.response = x]]
      BY <1>2 DEF Store, TicketsWithReply
    <2> DEFINE rec == [tickets[t] EXCEPT !.response = x]
    <2>3. /\ tickets[t] \in TicketRecords /\ t \in Tickets /\ tickets[t].cap \in Nat
      BY <2>1, RecordsAreValues DEF IInv
    <2>4. rec \in TicketRecords /\ rec # NoValue
      BY <2>3, RecordUpdates, NoRecordAssumption
    <2>5. rec.cap = tickets[t].cap /\ rec.response = x /\ x # "none"
      BY <2>3 DEF TicketRecords
    <2>6. tickets' = [tickets EXCEPT ![t] = rec]
      BY <2>2
    <2> HIDE DEF rec
    <2>7. TypeOK'
      BY <2>1, <2>4, <2>6 DEF IInv, TypeOK
    <2>8. /\ \A u \in Tickets : tickets'[u] = IF u = t THEN rec ELSE tickets[u]
          /\ Published' = Published
      BY <2>1, <2>4, <2>6 DEF IInv, TypeOK, Published
    <2>9. IsFiniteSet(replies')
      BY <2>1, FS_AddElement DEF IInv
    <2>10. IsFiniteSet(RepliesTo(t)) /\ r \notin RepliesTo(t)
      BY <1>2, FewerReplies DEF IInv, RepliesTo
    <2>11. RepliesTo(t)' = RepliesTo(t) \cup {r}
      BY <2>1 DEF RepliesTo
    <2>12. Cardinality(RepliesTo(t)') = Cardinality(RepliesTo(t)) + 1
      BY <2>10, <2>11, FS_AddElement
    <2>13. Cardinality(RepliesTo(t)) \in Nat
      BY <2>10, FS_CardinalityType
    <2>14. RepliesAreAccounted'
      <3> SUFFICES ASSUME NEW q \in replies'
                   PROVE  /\ TicketOf[q] \in Published'
                          /\ q \notin Forged /\ TicketOf[q] \in Replyable
                          /\ tickets'[TicketOf[q]].response # "none"
                          /\ Cardinality(RepliesTo(TicketOf[q])') <= tickets'[TicketOf[q]].cap
        BY DEF RepliesAreAccounted, RepliesTo
      <3>1. CASE TicketOf[q] = t
        <4>1. q \notin Forged
          BY <2>1 DEF IInv, RepliesAreAccounted
        <4> QED
          BY <3>1, <4>1, <2>1, <2>3, <2>5, <2>8, <2>12, <2>13
      <3>2. CASE TicketOf[q] # t
        <4>1. q \in replies
          BY <2>1, <3>2
        <4>2. RepliesTo(TicketOf[q])' = RepliesTo(TicketOf[q])
          BY <2>1, <3>2 DEF RepliesTo
        <4>3. TicketOf[q] \in Published
          BY <4>1 DEF IInv, RepliesAreAccounted
        <4> QED
          BY <2>8, <3>2, <4>1, <4>2, <4>3 DEF IInv, RepliesAreAccounted, Published
      <3> QED
        BY <3>1, <3>2
    <2>15. CodesAreUnique'
      BY <2>8 DEF IInv, CodesAreUnique
    <2> QED
      BY <2>7, <2>9, <2>14, <2>15 DEF IInv
  <1> QED
    BY <1>1, <1>2

LEMMA NextInv == IInv /\ [Next]_landingVars => IInv'
  <1> SUFFICES ASSUME IInv, [Next]_landingVars PROVE IInv'
    OBVIOUS
  <1>1. ASSUME NEW t \in Tickets, NEW k \in StatusKeys, NEW cap \in Caps, Publish(t, k, cap)
        PROVE  IInv'
    BY <1>1, PublishInv
  <1>2. ASSUME NEW t \in Tickets, Revoke(t) \/ Landing(t)
        PROVE  IInv'
    BY <1>2, RecordStepInv
  <1>3. ASSUME NEW t \in Tickets, NEW k \in StatusKeys, Collect(t, k)
        PROVE  IInv'
    BY <1>3, CollectInv
  <1>4. ASSUME NEW r \in Requests, Store(r)
        PROVE  IInv'
    BY <1>4, StoreInv
  <1>5. CASE \/ \E t \in Tickets : ExpireTicket(t) \/ PassGrace(t)
             \/ \E r \in Requests : ExpireRequest(r)
    BY <1>5, TimeInv
  <1>6. CASE PurgeExpired
    BY <1>6, PurgeInv
  <1>7. CASE Restart
    BY <1>7, RestartInv
  <1>8. CASE UNCHANGED landingVars
    BY <1>8, SameBooks DEF IInv, landingVars, TypeOK
  <1> QED
    BY <1>1, <1>2, <1>3, <1>4, <1>5, <1>6, <1>7, <1>8 DEF Next

(* The invariant holds in every reachable state of a landing.              *)
THEOREM LandingInvariance == Spec => []IInv
  BY InitInv, NextInv, PTL DEF Spec

(* Every variable of a landing keeps its type.                             *)
THEOREM LandingTypeCorrect == Spec => []TypeOK
  <1>1. IInv => TypeOK
    BY DEF IInv
  <1> QED
    BY <1>1, LandingInvariance, PTL

(* Every reply a landing holds belongs to a registered ticket, verified,   *)
(* and is within the limit the issuer set (_store, collect, purge_expired).*)
THEOREM RepliesAccounted == Spec => []RepliesAreAccounted
  <1>1. IInv => RepliesAreAccounted
    BY DEF IInv
  <1> QED
    BY <1>1, LandingInvariance, PTL

(* A six-character code never names two registered tickets (publish).      *)
THEOREM UniqueCodes == Spec => []CodesAreUnique
  <1>1. IInv => CodesAreUnique
    BY DEF IInv
  <1> QED
    BY <1>1, LandingInvariance, PTL

(* What a step does to a ticket that is revoked.                           *)
LEMMA RevokedStep ==
    ASSUME IInv, [Next]_landingVars, ~Restart,
           NEW t \in Published, tickets[t].revoked
    PROVE  /\ \/ tickets'[t] # NoValue /\ tickets'[t].revoked
              \/ age[t] = "past"
           /\ RepliesTo(t)' \subseteq RepliesTo(t)
  <1>1. tickets[t] \in TicketRecords /\ t \in Tickets /\ tickets[t] # NoValue
    BY RecordsAreValues DEF IInv, Published
  <1> USE <1>1 DEF IInv, TypeOK, RepliesTo
  <1>2. ASSUME NEW u \in Tickets, NEW k \in StatusKeys, NEW cap \in Caps, Publish(u, k, cap)
        PROVE  tickets'[t] = tickets[t] /\ UNCHANGED replies
    BY <1>2 DEF Publish, TicketsWithPublication
  <1>3. ASSUME NEW u \in Tickets, Revoke(u) \/ Landing(u)
        PROVE  tickets'[t] # NoValue /\ tickets'[t].revoked /\ UNCHANGED replies
    <2>1. CASE u # t \/ tickets' = tickets
      BY <1>3, <2>1 DEF Revoke, Landing, TicketsOpened, TicketsWithRevocation
    <2>2. CASE u = t /\ tickets' # tickets
      <3>1. tickets' = [tickets EXCEPT ![t] = [tickets[t] EXCEPT !.revoked = TRUE]]
        BY <1>3, <2>2 DEF Revoke, Landing, TicketsOpened, TicketsWithRevocation
      <3>2. [tickets[t] EXCEPT !.revoked = TRUE] \in TicketRecords
        BY RecordUpdates
      <3>3. [tickets[t] EXCEPT !.revoked = TRUE].revoked
        BY DEF TicketRecords
      <3> QED
        BY <1>3, <3>1, <3>2, <3>3, NoRecordAssumption DEF Revoke, Landing
    <2> QED
      BY <2>1, <2>2
  <1>4. ASSUME NEW u \in Tickets, NEW k \in StatusKeys, Collect(u, k)
        PROVE  UNCHANGED tickets /\ replies' \subseteq replies
    BY <1>4 DEF Collect, RepliesAfterCollection
  <1>5. ASSUME NEW r \in Requests, Store(r)
        PROVE  tickets'[t] = tickets[t] /\ RepliesTo(t)' \subseteq RepliesTo(t)
    <2>1. TicketOf[r] # t
      BY <1>5 DEF Store, TakesReply
    <2> QED
      BY <1>5, <2>1 DEF Store, TicketsWithReply, RepliesWithReply
  <1>6. CASE \/ \E u \in Tickets : ExpireTicket(u) \/ PassGrace(u)
             \/ \E r \in Requests : ExpireRequest(r)
    BY <1>6 DEF ExpireTicket, PassGrace, ExpireRequest
  <1>7. CASE PurgeExpired
    BY <1>7 DEF PurgeExpired, TicketsAfterPurge, RepliesAfterPurge, Kept
  <1>8. CASE UNCHANGED landingVars
    BY <1>8 DEF landingVars
  <1> QED
    BY <1>2, <1>3, <1>4, <1>5, <1>6, <1>7, <1>8 DEF Next

(* As long as a landing is not restarted, a revocation lasts and stops     *)
(* further replies (revoke, publish, _store).                              *)
THEOREM RevocationIsFinal == Spec => RevocationLasts
  <1>1. IInv /\ [Next]_landingVars =>
            [\A t \in Published :
                tickets[t].revoked /\ ~Restart =>
                    /\ \/ tickets'[t] # NoValue /\ tickets'[t].revoked
                       \/ age[t] = "past"
                    /\ RepliesTo(t)' \subseteq RepliesTo(t)]_landingVars
    BY RevokedStep
  <1> QED
    BY <1>1, LandingInvariance, PTL DEF Spec, RevocationLasts

(* A ticket whose status is an answer, or that it was revoked.             *)
HasAnswer(t) == tickets[t].revoked \/ tickets[t].response # "none"

(* status tells an answer from everything else, at any age of the ticket.  *)
StatusTells ==
    TypeOK => \A t \in Published :
        Status(t) \in {"accepted", "declined", "revoked"} <=> HasAnswer(t)

LEMMA StatusTellsAnswers == StatusTells
  <1> SUFFICES ASSUME TypeOK, NEW t \in Published
               PROVE  Status(t) \in {"accepted", "declined", "revoked"} <=> HasAnswer(t)
    BY DEF StatusTells
  <1>1. tickets[t].response \in {"none", "declined", "accepted"}
    BY RecordsAreValues DEF TicketRecords
  <1> QED
    BY <1>1 DEF Status, Lifecycle, HasAnswer

(* No handler takes an answer back: only _store writes a response, and     *)
(* what it writes is one.                                                  *)
LEMMA AnsweredStep ==
    ASSUME IInv, [Next]_landingVars, NEW t \in Published, HasAnswer(t), t \in Published'
    PROVE  HasAnswer(t)'
  <1>1. tickets[t] \in TicketRecords /\ t \in Tickets
    BY RecordsAreValues DEF IInv
  <1> USE <1>1 DEF IInv, TypeOK, HasAnswer
  <1>2. ASSUME tickets'[t] = tickets[t]
        PROVE  HasAnswer(t)'
    BY <1>2
  <1>3. ASSUME NEW u \in Tickets, NEW k \in StatusKeys, NEW cap \in Caps, Publish(u, k, cap)
        PROVE  tickets'[t] = tickets[t]
    BY <1>3 DEF Publish, TicketsWithPublication
  <1>4. ASSUME NEW u \in Tickets, Revoke(u)
        PROVE  HasAnswer(t)'
    BY <1>4 DEF Revoke, TicketsWithRevocation, TicketRecords
  <1>5. ASSUME NEW u \in Tickets, Landing(u)
        PROVE  HasAnswer(t)'
    BY <1>5 DEF Landing, TicketsOpened, TicketRecords
  <1>6. ASSUME NEW r \in Requests, Store(r)
        PROVE  HasAnswer(t)'
    BY <1>6 DEF Store, TicketsWithReply, TicketRecords
  <1>7. CASE \/ \E u \in Tickets : ExpireTicket(u) \/ PassGrace(u)
             \/ \E r \in Requests : ExpireRequest(r)
             \/ \E u \in Tickets, k \in StatusKeys : Collect(u, k)
    BY <1>2, <1>7 DEF ExpireTicket, PassGrace, ExpireRequest, Collect
  <1>8. CASE PurgeExpired \/ Restart
    <2>1. tickets'[t] # NoValue
      BY DEF Published
    <2> QED
      BY <1>2, <1>8, <2>1 DEF PurgeExpired, Restart, TicketsAfterPurge, Unpublished
  <1>9. CASE UNCHANGED landingVars
    BY <1>2, <1>9 DEF landingVars
  <1> QED
    BY <1>2, <1>3, <1>4, <1>5, <1>6, <1>7, <1>8, <1>9 DEF Next

(* Once an invitee has answered, status keeps saying so or that the ticket *)
(* was revoked, as long as the ticket is registered (lifecycle, _store).   *)
THEOREM AnswersKept == Spec => AnswersAreReported
  <1>1. IInv /\ [Next]_landingVars =>
            [\A t \in Published :
                /\ Status(t) \in {"accepted", "declined", "revoked"}
                /\ t \in Published'
                => Status(t)' \in {"accepted", "declined", "revoked"}]_landingVars
    <2> SUFFICES ASSUME IInv, [Next]_landingVars, NEW t \in Published, t \in Published',
                        Status(t) \in {"accepted", "declined", "revoked"}
                 PROVE  Status(t)' \in {"accepted", "declined", "revoked"}
      OBVIOUS
    <2>1. HasAnswer(t)
      BY StatusTellsAnswers DEF StatusTells, IInv
    <2>2. HasAnswer(t)'
      BY <2>1, AnsweredStep
    <2>3. StatusTells'
      BY StatusTellsAnswers, PTL
    <2>4. TypeOK'
      BY NextInv DEF IInv
    <2> QED
      BY <2>2, <2>3, <2>4 DEF StatusTells
  <1> QED
    BY <1>1, LandingInvariance, PTL DEF Spec, AnswersAreReported
=============================================================================

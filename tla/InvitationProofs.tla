-------------------------- MODULE InvitationProofs ---------------------------
(* Theorems about Invitation, for any landings, tickets and requests and    *)
(* any number of status keys and restarts.                                  *)
EXTENDS Invitation, TLAPS

Records == L(NoValue)!TicketRecords

(* A landing is recorded together with a status key.                       *)
Entered == {entry \in Entries : entry.base # NoValue => entry.key # NoValue}

(* The types, with the stores of all landings together.                    *)
Typed ==
    /\ tickets \in [Bases -> [Tickets -> Records \cup {NoValue}]]
    /\ replies \in [Bases -> SUBSET Requests]
    /\ age \in [Tickets -> {"live", "expired", "past"}]
    /\ stale \subseteq Requests
    /\ settings \in [bases: BaseLists, autoPublish: BOOLEAN, cap: Caps]
    /\ minted \subseteq Tickets
    /\ outbox \in [Tickets -> Entered \cup {NoValue}]
    /\ inbox \subseteq [request: Requests, accepted: BOOLEAN]
    /\ keys \in 0..MaxKeys
    /\ late \subseteq Calls
    /\ signed \subseteq Requests
    /\ restarts \in 0..MaxRestarts
    /\ withdrawn \subseteq Bases \X Tickets

(* t was answered by an invitee.                                           *)
Answered(t) == \E r \in signed \ Forged : TicketOf[r] = t

(* What a landing holds, and the answers its status reports, were signed.  *)
AnswersAreSigned ==
    /\ \A b \in Bases : replies[b] \subseteq signed \ Forged
    /\ \A b \in Bases, t \in Tickets :
           tickets[b][t] # NoValue /\ tickets[b][t].response # "none" => Answered(t)

(* t will not be published by the Cell again.                              *)
Settled(t) == t \in minted /\ (t \in InOutbox => IsPublished(t))

(* No publication of t is on its way to b.                                 *)
NoPublication(b, t) ==
    \A c \in late : ~(c.call = "publish" /\ c.base = b /\ c.ticket = t)

(* Entries are of signed tickets.  A revocation is sent, and carried out,  *)
(* for settled tickets only; where it was carried out the ticket is        *)
(* revoked, or gone for good.                                              *)
Withdrawals ==
    /\ InOutbox \subseteq minted
    /\ \A c \in late : c.call = "revoke" => Settled(c.ticket)
    /\ \A b \in Bases, t \in Tickets : <<b, t>> \in withdrawn =>
           /\ Settled(t)
           /\ tickets[b][t] # NoValue => tickets[b][t].revoked
           /\ tickets[b][t] = NoValue => age[t] = "past" \/ NoPublication(b, t)

IInv ==
    /\ Typed /\ AnswersAreSigned /\ AnswersAreGenuine
    /\ OneOpenInvitation /\ PublishedIsHeld /\ Withdrawals

(* --------------------------- Values and records -------------------------- *)

LEMMA TypedIsTypeOK == Typed => TypeOK
  BY DEF Typed, TypeOK, Entered, L!TypeOK, L!Ages, Records, L!TicketRecords

LEMMA RecordFacts ==
    /\ NoValue \notin Records
    /\ \A rec \in Records : /\ rec.response \in {"none", "declined", "accepted"}
                            /\ rec.revoked \in BOOLEAN /\ rec.cap \in Nat
  BY NoValueAssumption, LandingAssumption DEF Records, L!TicketRecords

(* A record of a landing with one field replaced.                          *)
LEMMA RecordSet ==
    ASSUME NEW rec \in Records
    PROVE  /\ [rec EXCEPT !.revoked = TRUE] \in Records
           /\ [rec EXCEPT !.revoked = TRUE].revoked
           /\ [rec EXCEPT !.revoked = TRUE].response = rec.response
           /\ \A x \in {"declined", "accepted"} :
                 /\ [rec EXCEPT !.response = x] \in Records
                 /\ [rec EXCEPT !.response = x].revoked = rec.revoked
                 /\ [rec EXCEPT !.response = x].response = x
  BY DEF Records, L!TicketRecords

(* What publish does at a landing: a ticket that is registered keeps its   *)
(* record, a live one is registered if its code is free.                   *)
LEMMA PublicationAt ==
    ASSUME Typed, NEW b \in Bases, NEW t \in Tickets, NEW k \in StatusKeys, NEW cap \in Caps
    PROVE  /\ L(b)!TicketsWithPublication(t, k, cap) \in [Tickets -> Records \cup {NoValue}]
           /\ \A u \in Tickets : u # t \/ tickets[b][t] # NoValue =>
                  L(b)!TicketsWithPublication(t, k, cap)[u] = tickets[b][u]
           /\ L(b)!TicketsWithPublication(t, k, cap)[t] # NoValue =>
                  \/ tickets[b][t] # NoValue
                  \/ /\ age[t] = "live"
                     /\ L(b)!TicketsWithPublication(t, k, cap)[t].response = "none"
           /\ L(b)!Accepts(t) => L(b)!TicketsWithPublication(t, k, cap)[t] # NoValue
  <1> DEFINE new == L(b)!TicketsWithPublication(t, k, cap)
  <1>1. tickets[b] \in [Tickets -> Records \cup {NoValue}]
    BY DEF Typed
  <1>2. L(b)!NewRecord(k, cap) \in Records /\ L(b)!NewRecord(k, cap).response = "none"
    BY DEF L!NewRecord, Records, L!TicketRecords
  <1>3. CASE L(b)!Accepts(t) /\ t \notin L(b)!Published
    <2>1. new = [tickets[b] EXCEPT ![t] = L(b)!NewRecord(k, cap)]
      BY <1>3 DEF L!TicketsWithPublication
    <2>2. tickets[b][t] = NoValue /\ age[t] = "live"
      BY <1>3 DEF L!Published, L!Accepts
    <2> QED BY <1>1, <1>2, <2>1, <2>2, RecordFacts
  <1>4. CASE ~(L(b)!Accepts(t) /\ t \notin L(b)!Published)
    <2>1. new = tickets[b]
      BY <1>4 DEF L!TicketsWithPublication
    <2> QED BY <1>1, <1>4, <2>1 DEF L!Published
  <1> QED BY <1>3, <1>4

(* What revoke does: the ticket is marked if it is registered.             *)
LEMMA RevocationAt ==
    ASSUME Typed, NEW b \in Bases, NEW t \in Tickets
    PROVE  /\ L(b)!TicketsWithRevocation(t) \in [Tickets -> Records \cup {NoValue}]
           /\ \A u \in Tickets :
                 /\ L(b)!TicketsWithRevocation(t)[u] = NoValue <=> tickets[b][u] = NoValue
                 /\ u # t => L(b)!TicketsWithRevocation(t)[u] = tickets[b][u]
                 /\ tickets[b][u] # NoValue =>
                       /\ L(b)!TicketsWithRevocation(t)[u].response = tickets[b][u].response
                       /\ u = t \/ tickets[b][u].revoked =>
                              L(b)!TicketsWithRevocation(t)[u].revoked
  <1>1. tickets[b] \in [Tickets -> Records \cup {NoValue}]
    BY DEF Typed
  <1>2. CASE tickets[b][t] # NoValue
    <2>1. tickets[b][t] \in Records
      BY <1>1, <1>2
    <2> DEFINE rec == [tickets[b][t] EXCEPT !.revoked = TRUE]
    <2>2. L(b)!TicketsWithRevocation(t) = [tickets[b] EXCEPT ![t] = rec]
      BY <1>2 DEF L!TicketsWithRevocation, L!Published
    <2>3. rec \in Records /\ rec.revoked /\ rec.response = tickets[b][t].response
      BY <2>1, RecordSet
    <2> HIDE DEF rec
    <2>4. rec # NoValue
      BY <2>3, RecordFacts
    <2>5. \A u \in Tickets :
            L(b)!TicketsWithRevocation(t)[u] = IF u = t THEN rec ELSE tickets[b][u]
      BY <1>1, <2>2
    <2>6. L(b)!TicketsWithRevocation(t) \in [Tickets -> Records \cup {NoValue}]
      BY <1>1, <2>2, <2>3
    <2> QED BY <1>2, <2>3, <2>4, <2>5, <2>6
  <1>3. CASE tickets[b][t] = NoValue
    <2>1. L(b)!TicketsWithRevocation(t) = tickets[b]
      BY <1>3 DEF L!TicketsWithRevocation, L!Published
    <2> QED BY <1>1, <1>3, <2>1
  <1> QED BY <1>2, <1>3

(* What a reply does: the ticket shows that it was answered.               *)
LEMMA ReplyAt ==
    ASSUME Typed, NEW b \in Bases, NEW r \in Requests, L(b)!TakesReply(r)
    PROVE  /\ TicketOf[r] \in Tickets
           /\ tickets[b][TicketOf[r]] # NoValue /\ ~tickets[b][TicketOf[r]].revoked
           /\ r \notin Forged
           /\ L(b)!RepliesWithReply(r) = replies[b] \cup {r}
           /\ L(b)!TicketsWithReply(r) \in [Tickets -> Records \cup {NoValue}]
           /\ \A u \in Tickets :
                 /\ L(b)!TicketsWithReply(r)[u] = NoValue <=> tickets[b][u] = NoValue
                 /\ u # TicketOf[r] => L(b)!TicketsWithReply(r)[u] = tickets[b][u]
                 /\ tickets[b][u] # NoValue =>
                       L(b)!TicketsWithReply(r)[u].revoked = tickets[b][u].revoked
  <1>1. tickets[b] \in [Tickets -> Records \cup {NoValue}] /\ TicketOf[r] \in Tickets
    BY LandingAssumption DEF Typed
  <1>2. /\ tickets[b][TicketOf[r]] # NoValue /\ ~tickets[b][TicketOf[r]].revoked
        /\ r \notin Forged
    BY DEF L!TakesReply, L!VerifyContactRequest, L!Published
  <1>3. L(b)!RepliesWithReply(r) = replies[b] \cup {r}
    BY DEF L!RepliesWithReply
  <1>4. CASE r \in replies[b]
    <2>1. L(b)!TicketsWithReply(r) = tickets[b]
      BY <1>4 DEF L!TicketsWithReply
    <2> QED BY <1>1, <1>2, <1>3, <2>1
  <1>5. CASE r \notin replies[b]
    <2> DEFINE x == IF r \in Declining THEN "declined" ELSE "accepted"
    <2> DEFINE rec == [tickets[b][TicketOf[r]] EXCEPT !.response = x]
    <2>1. L(b)!TicketsWithReply(r) = [tickets[b] EXCEPT ![TicketOf[r]] = rec]
      BY <1>5 DEF L!TicketsWithReply
    <2>2. tickets[b][TicketOf[r]] \in Records /\ x \in {"declined", "accepted"}
      BY <1>1, <1>2
    <2> HIDE DEF x
    <2>3. rec \in Records /\ rec.revoked = tickets[b][TicketOf[r]].revoked
      BY <2>2, RecordSet
    <2> HIDE DEF rec
    <2>4. rec # NoValue
      BY <2>3, RecordFacts
    <2>5. \A u \in Tickets :
            L(b)!TicketsWithReply(r)[u] = IF u = TicketOf[r] THEN rec ELSE tickets[b][u]
      BY <1>1, <2>1
    <2>6. L(b)!TicketsWithReply(r) \in [Tickets -> Records \cup {NoValue}]
      BY <1>1, <2>1, <2>3
    <2> QED BY <1>1, <1>2, <1>3, <2>3, <2>4, <2>5, <2>6
  <1> QED BY <1>4, <1>5

(* What purging does: records past their day of grace go.                  *)
LEMMA PurgeAt ==
    ASSUME Typed, NEW b \in Bases
    PROVE  /\ L(b)!TicketsAfterPurge \in [Tickets -> Records \cup {NoValue}]
           /\ \A u \in Tickets :
                 \/ L(b)!TicketsAfterPurge[u] = tickets[b][u]
                 \/ L(b)!TicketsAfterPurge[u] = NoValue /\ age[u] = "past"
           /\ L(b)!RepliesAfterPurge \subseteq replies[b]
  <1>1. tickets[b] \in [Tickets -> Records \cup {NoValue}]
    BY DEF Typed
  <1> QED BY <1>1 DEF L!TicketsAfterPurge, L!RepliesAfterPurge, L!Kept, L!Published

(* ------------------------ Steps that take nothing up --------------------- *)

(* No entry is new, none names another landing, none is opened again, and  *)
(* one that is joined now was answered.                                    *)
EntriesGoOn ==
    \A t \in Tickets : outbox'[t] # NoValue =>
        /\ outbox[t] # NoValue
        /\ outbox'[t].base = outbox[t].base /\ outbox'[t].forced = outbox[t].forced
        /\ outbox'[t].state \in OpenStates => outbox[t].state \in OpenStates
        /\ outbox'[t].state = "joined" => outbox[t].state = "joined" \/ Answered(t)

TimeGoesOn ==
    \A t \in Tickets : /\ age'[t] = "live" => age[t] = "live"
                       /\ age[t] = "past" => age'[t] = "past"

(* No record is new at a landing or loses its mark, and only purging drops *)
(* one.                                                                    *)
RecordsGoOn ==
    \A b \in Bases, t \in Tickets :
        /\ tickets'[b][t] # NoValue =>
              /\ tickets[b][t] # NoValue
              /\ tickets'[b][t].response = tickets[b][t].response
              /\ tickets[b][t].revoked => tickets'[b][t].revoked
        /\ tickets'[b][t] = NoValue => tickets[b][t] = NoValue \/ age[t] = "past"

LEMMA SameAnswers ==
    ASSUME AnswersAreSigned, RecordsGoOn, signed \subseteq signed',
           \A b \in Bases : replies'[b] \subseteq replies[b]
    PROVE  AnswersAreSigned'
  <1>1. \A t : Answered(t) => Answered(t)'
    BY DEF Answered
  <1>2. \A b \in Bases : replies'[b] \subseteq signed' \ Forged
    BY DEF AnswersAreSigned
  <1>3. ASSUME NEW b \in Bases, NEW t \in Tickets,
               tickets'[b][t] # NoValue, tickets'[b][t].response # "none"
        PROVE  Answered(t)'
    BY <1>1, <1>3 DEF AnswersAreSigned, RecordsGoOn
  <1> QED BY <1>2, <1>3 DEF AnswersAreSigned

(* The third part of AnswersAreGenuine.                                    *)
LEMMA JoinedGoOn ==
    ASSUME AnswersAreGenuine, EntriesGoOn, signed \subseteq signed'
    PROVE  (\A t \in InOutbox : outbox[t].state = "joined" =>
                \E r \in signed \ Forged : TicketOf[r] = t)'
  <1> SUFFICES ASSUME NEW t \in Tickets, outbox'[t] # NoValue, outbox'[t].state = "joined"
               PROVE  \E r \in signed' \ Forged : TicketOf[r] = t
    BY DEF InOutbox
  <1>1. outbox[t] # NoValue /\ (outbox[t].state = "joined" \/ Answered(t))
    BY DEF EntriesGoOn
  <1>2. Answered(t)
    BY <1>1 DEF AnswersAreGenuine, InOutbox, Answered
  <1> QED BY <1>2 DEF Answered

LEMMA SameGenuine ==
    ASSUME AnswersAreGenuine, EntriesGoOn, signed \subseteq signed', UNCHANGED inbox
    PROVE  AnswersAreGenuine'
  <1>1. /\ \A row \in inbox' : row.request \in signed' \ Forged
        /\ \A row1, row2 \in inbox' : row1.request = row2.request => row1 = row2
    BY DEF AnswersAreGenuine
  <1> QED BY <1>1, JoinedGoOn DEF AnswersAreGenuine

LEMMA SameOpen ==
    ASSUME OneOpenInvitation, EntriesGoOn, TimeGoesOn
    PROVE  OneOpenInvitation'
  BY DEF OneOpenInvitation, EntriesGoOn, TimeGoesOn, InOutbox

LEMMA SameHeld ==
    ASSUME Typed, PublishedIsHeld, EntriesGoOn, TimeGoesOn, RecordsGoOn, UNCHANGED restarts
    PROVE  PublishedIsHeld'
  <1> SUFFICES ASSUME NEW t \in Tickets, outbox'[t] # NoValue, outbox'[t].base # NoValue,
                      restarts = 0, age'[t] # "past"
               PROVE  tickets'[outbox'[t].base][t] # NoValue
    BY DEF PublishedIsHeld, Candidates, IsPublished, InOutbox, L!Published
  <1>1. /\ outbox[t] # NoValue /\ outbox'[t].base = outbox[t].base
        /\ age[t] # "past"
    BY DEF EntriesGoOn, TimeGoesOn
  <1>2. outbox[t].base \in Bases
    BY <1>1 DEF Typed, Entered, Entries
  <1>3. tickets[outbox[t].base][t] # NoValue
    BY <1>1 DEF PublishedIsHeld, Candidates, IsPublished, InOutbox, L!Published
  <1> QED BY <1>1, <1>2, <1>3 DEF RecordsGoOn

(* A ticket that will not be published again never will be.                *)
LEMMA SettledGoOn ==
    ASSUME EntriesGoOn, minted \subseteq minted', NEW t \in Tickets, Settled(t)
    PROVE  Settled(t)'
  BY DEF Settled, EntriesGoOn, InOutbox, IsPublished

(* Calls may be handled or dropped, and new ones are no publications.      *)
LEMMA SameWithdrawals ==
    ASSUME Typed, Withdrawals, EntriesGoOn, TimeGoesOn, RecordsGoOn, minted \subseteq minted',
           UNCHANGED withdrawn,
           \A c \in late' : c \in late \/ c.call = "collect"
                            \/ (c.call = "revoke" /\ c.ticket \in Tickets /\ Settled(c.ticket))
    PROVE  Withdrawals'
  <1>1. ASSUME NEW c \in late', c.call = "revoke"
        PROVE  Settled(c.ticket)'
    <2>1. Settled(c.ticket) /\ c.ticket \in Tickets
      BY <1>1 DEF Withdrawals, Typed, Calls
    <2> QED BY <2>1, SettledGoOn
  <1>2. ASSUME NEW b \in Bases, NEW t \in Tickets, <<b, t>> \in withdrawn
        PROVE  /\ Settled(t)'
               /\ tickets'[b][t] # NoValue => tickets'[b][t].revoked
               /\ tickets'[b][t] = NoValue => age'[t] = "past" \/ NoPublication(b, t)'
    <2>1. /\ Settled(t)
          /\ tickets[b][t] # NoValue => tickets[b][t].revoked
          /\ tickets[b][t] = NoValue => age[t] = "past" \/ NoPublication(b, t)
      BY <1>2 DEF Withdrawals
    <2>2. Settled(t)'
      BY <2>1, SettledGoOn
    <2>3. NoPublication(b, t) => NoPublication(b, t)'
      BY DEF NoPublication
    <2> QED BY <2>1, <2>2, <2>3 DEF RecordsGoOn, TimeGoesOn
  <1>3. InOutbox' \subseteq minted'
    BY DEF Withdrawals, EntriesGoOn, InOutbox
  <1> QED BY <1>1, <1>2, <1>3 DEF Withdrawals

(* A step that takes nothing up keeps the invariant, if it keeps the types.*)
LEMMA QuietStep ==
    ASSUME IInv, Typed', EntriesGoOn, TimeGoesOn, RecordsGoOn,
           minted \subseteq minted', signed \subseteq signed',
           UNCHANGED <<inbox, restarts, withdrawn>>,
           \A b \in Bases : replies'[b] \subseteq replies[b],
           \A c \in late' : c \in late \/ c.call = "collect"
                            \/ (c.call = "revoke" /\ c.ticket \in Tickets /\ Settled(c.ticket))
    PROVE  IInv'
  <1>1. AnswersAreSigned' /\ AnswersAreGenuine'
    BY SameAnswers, SameGenuine DEF IInv
  <1>2. OneOpenInvitation' /\ PublishedIsHeld'
    BY SameOpen, SameHeld DEF IInv
  <1>3. Withdrawals'
    BY SameWithdrawals DEF IInv
  <1> QED BY <1>1, <1>2, <1>3 DEF IInv

(* ---------------------------- The quiet steps ---------------------------- *)

States == OpenStates \cup {"joined", "declined", "blocked"}

LEMMA EntrySet ==
    ASSUME NEW entry \in Entered, NEW s \in States
    PROVE  /\ [entry EXCEPT !.state = s] \in Entered
           /\ [entry EXCEPT !.state = s].state = s
           /\ [entry EXCEPT !.state = s].base = entry.base
           /\ [entry EXCEPT !.state = s].key = entry.key
           /\ [entry EXCEPT !.state = s].forced = entry.forced
  BY DEF Entered, Entries, States

(* Some entries get another state, none of them opened again.              *)
LEMMA StatesSet ==
    ASSUME Typed, NEW S \in SUBSET Tickets, NEW to \in [S -> States],
           \A t \in S : /\ outbox[t] # NoValue
                        /\ to[t] \in OpenStates => outbox[t].state \in OpenStates
                        /\ to[t] = "joined" => outbox[t].state = "joined" \/ Answered(t),
           outbox' = [t \in Tickets |->
                         IF t \in S THEN [outbox[t] EXCEPT !.state = to[t]] ELSE outbox[t]]
    PROVE  outbox' \in [Tickets -> Entered \cup {NoValue}] /\ EntriesGoOn
  <1>1. outbox \in [Tickets -> Entered \cup {NoValue}]
    BY DEF Typed
  <1>2. ASSUME NEW t \in S
        PROVE  /\ outbox'[t] \in Entered /\ outbox'[t].state = to[t]
               /\ outbox'[t].base = outbox[t].base /\ outbox'[t].forced = outbox[t].forced
    <2>1. outbox[t] \in Entered /\ to[t] \in States
      BY <1>1
    <2>2. outbox'[t] = [outbox[t] EXCEPT !.state = to[t]]
      OBVIOUS
    <2> QED BY <2>1, <2>2, EntrySet
  <1>3. \A t \in Tickets : t \notin S => outbox'[t] = outbox[t]
    OBVIOUS
  <1>4. outbox' \in [Tickets -> Entered \cup {NoValue}]
    <2>1. \A t \in Tickets : outbox'[t] \in Entered \cup {NoValue}
      BY <1>1, <1>2, <1>3
    <2> QED BY <2>1
  <1>5. EntriesGoOn
    BY <1>2, <1>3 DEF EntriesGoOn
  <1> QED BY <1>4, <1>5

(* One entry gets another state.                                           *)
LEMMA StateSet ==
    ASSUME Typed, NEW t \in Tickets, outbox[t] # NoValue, NEW s \in States,
           s \in OpenStates => outbox[t].state \in OpenStates,
           s = "joined" => Answered(t),
           outbox' = [outbox EXCEPT ![t].state = s]
    PROVE  outbox' \in [Tickets -> Entered \cup {NoValue}] /\ EntriesGoOn
  <1> DEFINE to == [u \in {t} |-> s]
  <1>1. outbox' = [u \in Tickets |->
                     IF u \in {t} THEN [outbox[u] EXCEPT !.state = to[u]] ELSE outbox[u]]
    BY DEF Typed
  <1>2. /\ to \in [{t} -> States]
        /\ \A u \in {t} : /\ outbox[u] # NoValue
                          /\ to[u] \in OpenStates => outbox[u].state \in OpenStates
                          /\ to[u] = "joined" => outbox[u].state = "joined" \/ Answered(u)
    OBVIOUS
  <1> HIDE DEF to
  <1> QED BY <1>1, <1>2, StatesSet

LEMMA EntriesSame == UNCHANGED outbox => EntriesGoOn
  BY DEF EntriesGoOn

LEMMA TimeSame == UNCHANGED age => TimeGoesOn
  BY DEF TimeGoesOn

LEMMA RecordsSame == UNCHANGED tickets => RecordsGoOn
  BY DEF RecordsGoOn

LEMMA ConfigureInv ==
    ASSUME IInv, NEW new \in [bases: BaseLists, autoPublish: BOOLEAN, cap: Caps], Configure(new)
    PROVE  IInv'
  <1>1. Typed'
    BY DEF IInv, Typed, Configure, landings
  <1> QED BY <1>1, QuietStep, EntriesSame, TimeSame, RecordsSame DEF Configure, landings

LEMMA MarkSentInv ==
    ASSUME IInv, NEW t \in Tickets, MarkSent(t) \/ RevokeLocally(t)
    PROVE  IInv'
  <1> DEFINE s == IF MarkSent(t) THEN "sent" ELSE "declined"
  <1>1. /\ outbox[t] # NoValue /\ s \in States /\ s # "joined"
        /\ s \in OpenStates => outbox[t].state \in OpenStates
    BY DEF MarkSent, RevokeLocally, InOutbox, States, OpenStates
  <1>2. outbox' = [outbox EXCEPT ![t].state = s]
    BY DEF MarkSent, RevokeLocally
  <1>3. UNCHANGED <<tickets, replies, age, stale, settings, minted, inbox, keys, late, signed,
                    restarts, withdrawn>>
    BY DEF MarkSent, RevokeLocally, landings
  <1> HIDE DEF s
  <1>4. outbox' \in [Tickets -> Entered \cup {NoValue}] /\ EntriesGoOn
    BY <1>1, <1>2, StateSet DEF IInv
  <1>5. Typed'
    BY <1>3, <1>4 DEF IInv, Typed
  <1> QED BY <1>3, <1>4, <1>5, QuietStep, TimeSame, RecordsSame

(* The landing's report closes an entry or leaves it as it is, and says    *)
(* accepted only of a ticket that was answered.                            *)
LEMMA RefreshInv ==
    ASSUME IInv, NEW C \in SUBSET Candidates, NEW answered \in SUBSET C,
           RefreshStatus(C, answered)
    PROVE  IInv'
  <1> DEFINE S == {t \in answered : L(outbox[t].base)!Authorised(t, outbox[t].key)}
             to == [t \in S |-> Mapped(t)]
  <1>1. S \in SUBSET Tickets /\ \A t \in S : t \in Tickets /\ outbox[t] # NoValue
                                            /\ outbox[t].base # NoValue
    BY DEF Candidates, IsPublished, InOutbox
  <1>2. outbox' = [t \in Tickets |->
                     IF t \in S THEN [outbox[t] EXCEPT !.state = to[t]] ELSE outbox[t]]
    BY DEF RefreshStatus
  <1>3. ASSUME NEW t \in S
        PROVE  /\ to[t] \in States
               /\ to[t] \in OpenStates => outbox[t].state \in OpenStates
               /\ to[t] = "joined" => outbox[t].state = "joined" \/ Answered(t)
    <2> DEFINE b == outbox[t].base
    <2>1. outbox[t] \in Entered /\ b \in Bases /\ outbox[t].state \in States
      BY <1>1 DEF IInv, Typed, Entered, Entries, States
    <2>2. tickets[b][t] # NoValue
      BY DEF L!Authorised, L!Published
    <2>3. tickets[b][t] \in Records
      BY <1>1, <2>1, <2>2 DEF IInv, Typed
    <2>4. L(b)!Status(t) = "accepted" => tickets[b][t].response # "none"
      BY <2>3, RecordFacts DEF L!Status, L!Lifecycle
    <2>5. L(b)!Status(t) = "accepted" => Answered(t)
      BY <1>1, <2>1, <2>2, <2>4 DEF IInv, AnswersAreSigned
    <2>6. to[t] = Mapped(t)
      OBVIOUS
    <2>7. Mapped(t) = IF L(b)!Status(t) = "accepted" THEN "joined"
                      ELSE IF L(b)!Status(t) = "declined" THEN "declined"
                      ELSE IF L(b)!Status(t) = "revoked" THEN "blocked" ELSE outbox[t].state
      BY DEF Mapped
    <2> HIDE DEF to, b
    <2> QED BY <2>1, <2>5, <2>6, <2>7 DEF States, OpenStates
  <1>4. to \in [S -> States]
    BY <1>3
  <1> HIDE DEF to, S
  <1>5. outbox' \in [Tickets -> Entered \cup {NoValue}] /\ EntriesGoOn
    BY <1>1, <1>2, <1>3, <1>4, StatesSet DEF IInv
  <1>6. UNCHANGED <<tickets, replies, age, stale, settings, minted, inbox, keys, late, signed,
                    restarts, withdrawn>>
    BY DEF RefreshStatus, landings
  <1>7. Typed'
    BY <1>5, <1>6 DEF IInv, Typed
  <1> QED BY <1>5, <1>6, <1>7, QuietStep, TimeSame, RecordsSame

LEMMA ClearInv ==
    ASSUME IInv, NEW dropped \in SUBSET InOutbox, ClearOutbox(dropped)
    PROVE  IInv'
  <1>1. UNCHANGED <<tickets, replies, age, stale, settings, minted, inbox, keys, late, signed,
                    restarts, withdrawn>>
    BY DEF ClearOutbox, landings
  <1>2. outbox' = [t \in Tickets |-> IF t \in dropped THEN NoValue ELSE outbox[t]]
    BY DEF ClearOutbox
  <1>3. Typed'
    BY <1>1, <1>2 DEF IInv, Typed
  <1>4. EntriesGoOn
    BY <1>2 DEF EntriesGoOn
  <1> QED BY <1>1, <1>3, <1>4, QuietStep, TimeSame, RecordsSame

(* Time passes, or an invitee signs a request.                             *)
LEMMA OutsideInv ==
    ASSUME IInv,
           \/ \E r \in Requests : Respond(r) \/ ExpireRequest(r)
           \/ \E t \in Tickets : ExpireTicket(t) \/ PassGrace(t)
    PROVE  IInv'
  <1>1. UNCHANGED <<tickets, replies, settings, minted, outbox, inbox, keys, late, restarts,
                    withdrawn>>
    BY DEF Respond, ExpireRequest, ExpireTicket, PassGrace, landings, issuer
  <1>2. /\ signed \subseteq signed' /\ signed' \subseteq Requests /\ stale' \subseteq Requests
        /\ age' \in [Tickets -> {"live", "expired", "past"}] /\ TimeGoesOn
    BY DEF IInv, Typed, Respond, ExpireRequest, ExpireTicket, PassGrace, TimeGoesOn
  <1>3. Typed'
    BY <1>1, <1>2 DEF IInv, Typed
  <1> QED BY <1>1, <1>2, <1>3, QuietStep, EntriesSame, RecordsSame

(* ---------------------- Pulling and accepting replies -------------------- *)

(* A handler that changes the inbox, and else takes nothing up, has to see *)
(* to the rows.                                                            *)
LEMMA InboxStep ==
    ASSUME IInv, Typed', EntriesGoOn,
           UNCHANGED <<tickets, age, minted, signed, restarts, withdrawn>>,
           \A b \in Bases : replies'[b] \subseteq replies[b],
           \A c \in late' : c \in late \/ c.call = "collect",
           \A row \in inbox' : row.request \in signed \ Forged,
           \A row1, row2 \in inbox' : row1.request = row2.request => row1 = row2
    PROVE  IInv'
  <1>1. TimeGoesOn /\ RecordsGoOn
    BY TimeSame, RecordsSame
  <1>2. AnswersAreSigned'
    BY <1>1, SameAnswers DEF IInv
  <1>3. AnswersAreGenuine'
    BY JoinedGoOn DEF IInv, AnswersAreGenuine
  <1>4. OneOpenInvitation' /\ PublishedIsHeld'
    BY <1>1, SameOpen, SameHeld DEF IInv
  <1>5. Withdrawals'
    BY <1>1, SameWithdrawals DEF IInv
  <1> QED BY <1>2, <1>3, <1>4, <1>5 DEF IInv

(* What comes in and verifies was signed by an invitee: a landing holds    *)
(* nothing else, and what it adds is forged.                               *)
LEMMA ReceivedIsSigned ==
    ASSUME IInv, NEW outcome, NEW relayed \in SUBSET Forged
    PROVE  Received(outcome, relayed) \subseteq signed \ Forged
  <1> SUFFICES ASSUME NEW r \in Received(outcome, relayed)
               PROVE  r \in signed \ Forged
    OBVIOUS
  <1>1. PICK t \in Served(outcome, {"answered"}) :
            /\ r \in L(outbox[t].base)!RepliesTo(t) \cup relayed
            /\ L(outbox[t].base)!VerifyContactRequest(r)
    BY DEF Received
  <1>2. r \notin Forged
    BY <1>1 DEF L!VerifyContactRequest
  <1>3. t \in Tickets /\ outbox[t] # NoValue /\ outbox[t].base # NoValue
    BY <1>1 DEF Served, Candidates, IsPublished, InOutbox
  <1>4. outbox[t].base \in Bases
    BY <1>3 DEF IInv, Typed, Entered, Entries
  <1>5. r \in replies[outbox[t].base]
    BY <1>1, <1>2 DEF L!RepliesTo
  <1> QED BY <1>4, <1>5 DEF IInv, AnswersAreSigned

LEMMA PullInv ==
    ASSUME IInv, NEW outcome \in [Candidates -> Outcomes], NEW relayed \in SUBSET Forged,
           PullContactRequests(outcome, relayed)
    PROVE  IInv'
  <1> DEFINE new == {q \in Received(outcome, relayed) : \A row \in inbox : row.request # q}
  <1>1. UNCHANGED <<tickets, age, stale, settings, minted, outbox, keys, signed, restarts,
                    withdrawn>>
    BY DEF PullContactRequests
  <1>2. inbox' = inbox \cup {[request |-> r, accepted |-> FALSE] : r \in new}
    BY DEF PullContactRequests
  <1>3. /\ new \subseteq signed \ Forged
        /\ \A q \in new, row \in inbox : row.request # q
    BY ReceivedIsSigned
  <1> HIDE DEF new
  <1>4. \A row \in inbox' : row \in inbox \/
            (row.request \in new /\ row = [request |-> row.request, accepted |-> FALSE])
    BY <1>2
  <1>5. inbox' \subseteq [request: Requests, accepted: BOOLEAN]
    <2>1. new \subseteq Requests /\ inbox \subseteq [request: Requests, accepted: BOOLEAN]
      BY <1>3 DEF IInv, Typed
    <2>2. \A r \in new : [request |-> r, accepted |-> FALSE]
                               \in [request: Requests, accepted: BOOLEAN]
      BY <2>1
    <2> QED BY <1>2, <2>1, <2>2
  <1>6. \A row \in inbox' : row.request \in signed \ Forged
    BY <1>3, <1>4 DEF IInv, AnswersAreGenuine
  <1>7. \A row1, row2 \in inbox' : row1.request = row2.request => row1 = row2
    BY <1>3, <1>4 DEF IInv, AnswersAreGenuine
  <1>8. /\ replies' \in [Bases -> SUBSET Requests]
        /\ \A b \in Bases : replies'[b] \subseteq replies[b]
    BY DEF PullContactRequests, IInv, Typed
  <1>9. late' \subseteq Calls /\ \A c \in late' : c \in late \/ c.call = "collect"
    <2> DEFINE given == {[call |-> "collect", base |-> outbox[t].base, ticket |-> t,
                          key |-> outbox[t].key] : t \in {u \in Candidates : outcome[u] = "late"}}
    <2>1. late' = late \cup given
      BY DEF PullContactRequests
    <2>2. \A t \in Candidates : t \in Tickets /\ outbox[t].base \in Bases
                                /\ outbox[t].key \in StatusKeys
      BY DEF Candidates, IsPublished, InOutbox, IInv, Typed, Entered, Entries
    <2>3. given \subseteq Calls /\ \A c \in given : c.call = "collect"
      BY <2>2 DEF Calls
    <2> HIDE DEF given
    <2> QED BY <2>1, <2>3 DEF IInv, Typed
  <1>10. Typed'
    BY <1>1, <1>5, <1>8, <1>9 DEF IInv, Typed
  <1> QED BY <1>1, <1>6, <1>7, <1>8, <1>9, <1>10, InboxStep, EntriesSame

LEMMA AcceptInv ==
    ASSUME IInv, NEW row \in inbox, AcceptContactRequest(row)
    PROVE  IInv'
  <1> DEFINE t == TicketOf[row.request]
             done == [row EXCEPT !.accepted = TRUE]
  <1>1. UNCHANGED <<tickets, replies, age, stale, settings, minted, keys, late, signed, restarts,
                    withdrawn>>
    BY DEF AcceptContactRequest, landings
  <1>2. row \in [request: Requests, accepted: BOOLEAN] /\ row.request \in signed \ Forged
    BY DEF IInv, Typed, AnswersAreGenuine
  <1>3. t \in Tickets /\ Answered(t)
    BY <1>2, LandingAssumption DEF Answered
  <1>4. outbox' \in [Tickets -> Entered \cup {NoValue}] /\ EntriesGoOn
    <2>1. CASE t \in InOutbox
      <3>1. outbox' = [outbox EXCEPT ![t].state = "joined"]
        BY <2>1 DEF AcceptContactRequest
      <3> QED BY <1>3, <2>1, <3>1, StateSet DEF IInv, States, OpenStates, InOutbox
    <2>2. CASE t \notin InOutbox
      <3>1. outbox' = outbox
        BY <2>2 DEF AcceptContactRequest
      <3> QED BY <3>1, EntriesSame DEF IInv, Typed
    <2> QED BY <2>1, <2>2
  <1>5. inbox' = (inbox \ {row}) \cup {done}
    BY DEF AcceptContactRequest
  <1>6. done \in [request: Requests, accepted: BOOLEAN] /\ done.request = row.request
    BY <1>2
  <1> HIDE DEF done, t
  <1>7. Typed'
    BY <1>1, <1>4, <1>5, <1>6 DEF IInv, Typed
  <1>8. \A row1 \in inbox' : row1.request \in signed \ Forged
    BY <1>2, <1>5, <1>6 DEF IInv, AnswersAreGenuine
  <1>9. \A row1, row2 \in inbox' : row1.request = row2.request => row1 = row2
    BY <1>5, <1>6 DEF IInv, AnswersAreGenuine
  <1> QED BY <1>1, <1>4, <1>7, <1>8, <1>9, InboxStep

(* ------------------------------ Withdrawals ------------------------------ *)

(* A landing marks a ticket: Revoke, with or without its answer, or a      *)
(* notice that comes late.  Only settled tickets are revoked.              *)
LEMMA MarkedAt ==
    ASSUME IInv, NEW b \in Bases, NEW t \in Tickets, Settled(t), EntriesGoOn,
           outbox' \in [Tickets -> Entered \cup {NoValue}],
           tickets' = [tickets EXCEPT ![b] = L(b)!TicketsWithRevocation(t)],
           withdrawn' = IF t \in L(b)!Published THEN withdrawn \cup {<<b, t>>} ELSE withdrawn,
           late' \subseteq late,
           UNCHANGED <<replies, age, stale, settings, minted, inbox, keys, signed, restarts>>
    PROVE  IInv'
  <1>1. Typed
    BY DEF IInv
  <1>2. tickets' \in [Bases -> [Tickets -> Records \cup {NoValue}]]
    BY <1>1, RevocationAt DEF Typed
  <1>3. \A c \in Bases : tickets'[c] = IF c = b THEN L(b)!TicketsWithRevocation(t) ELSE tickets[c]
    BY <1>1 DEF Typed
  <1>4. Typed'
    BY <1>1, <1>2 DEF Typed
  <1>5. RecordsGoOn
    BY <1>1, <1>3, RevocationAt DEF RecordsGoOn
  <1>6. TimeGoesOn
    BY TimeSame
  <1>7. AnswersAreSigned' /\ AnswersAreGenuine' /\ OneOpenInvitation' /\ PublishedIsHeld'
    BY <1>1, <1>5, <1>6, SameAnswers, SameGenuine, SameOpen, SameHeld DEF IInv
  <1>8. ASSUME NEW c \in late', c.call = "revoke"
        PROVE  Settled(c.ticket)'
    <2>1. Settled(c.ticket) /\ c.ticket \in Tickets
      BY <1>1, <1>8 DEF IInv, Withdrawals, Typed, Calls
    <2> QED BY <2>1, SettledGoOn
  <1>9. ASSUME NEW d \in Bases, NEW u \in Tickets, <<d, u>> \in withdrawn'
        PROVE  /\ Settled(u)'
               /\ tickets'[d][u] # NoValue => tickets'[d][u].revoked
               /\ tickets'[d][u] = NoValue => age'[u] = "past" \/ NoPublication(d, u)'
    <2>1. CASE <<d, u>> \in withdrawn
      <3>1. /\ Settled(u)
            /\ tickets[d][u] # NoValue => tickets[d][u].revoked
            /\ tickets[d][u] = NoValue => age[u] = "past" \/ NoPublication(d, u)
        BY <2>1 DEF IInv, Withdrawals
      <3>2. NoPublication(d, u) => NoPublication(d, u)'
        BY DEF NoPublication
      <3> QED BY <1>5, <3>1, <3>2, SettledGoOn DEF RecordsGoOn
    <2>2. CASE d = b /\ u = t /\ t \in L(b)!Published
      <3>1. tickets[b][t] # NoValue
        BY <2>2 DEF L!Published
      <3> QED BY <1>1, <1>3, <2>2, <3>1, RevocationAt, SettledGoOn
    <2> QED BY <1>9, <2>1, <2>2
  <1>10. InOutbox' \subseteq minted'
    BY DEF IInv, Withdrawals, EntriesGoOn, InOutbox
  <1>11. Withdrawals'
    BY <1>8, <1>9, <1>10 DEF Withdrawals
  <1> QED BY <1>4, <1>7, <1>11 DEF IInv

LEMMA RevokeInv ==
    ASSUME IInv, NEW t \in Tickets, NEW outcome \in Outcomes, Revoke(t, outcome)
    PROVE  IInv'
  <1> DEFINE b == outbox[t].base
  <1>1. outbox[t] # NoValue /\ b # NoValue
    BY DEF Revoke, IsPublished, InOutbox
  <1>2. b \in Bases
    BY <1>1 DEF IInv, Typed, Entered, Entries
  <1>3. outbox' \in [Tickets -> Entered \cup {NoValue}] /\ EntriesGoOn
    <2>1. outbox' = [outbox EXCEPT ![t].state = "declined"]
      BY DEF Revoke
    <2>2. "declined" \in States /\ "declined" \notin OpenStates
      BY DEF States, OpenStates
    <2> QED BY <1>1, <2>1, <2>2, StateSet DEF IInv
  <1>4. UNCHANGED <<replies, age, stale, settings, minted, inbox, keys, signed, restarts>>
    BY DEF Revoke
  <1>5. Settled(t)
    BY DEF Settled, Revoke, IInv, Withdrawals, IsPublished
  <1>6. CASE outcome = "late"
    <2> DEFINE notice == [call |-> "revoke", base |-> b, ticket |-> t]
    <2>1. late' = late \cup {notice} /\ UNCHANGED <<tickets, withdrawn>>
      BY <1>6 DEF Revoke
    <2>2. notice \in Calls /\ notice.call = "revoke" /\ notice.ticket = t
      BY <1>2 DEF Calls
    <2> HIDE DEF notice, b
    <2>3. Typed'
      BY <1>3, <1>4, <2>1, <2>2 DEF IInv, Typed
    <2> QED BY <1>3, <1>4, <1>5, <2>1, <2>2, <2>3, QuietStep, TimeSame, RecordsSame
  <1>7. CASE outcome # "late"
    <2>1. /\ tickets' = [tickets EXCEPT ![b] = L(b)!TicketsWithRevocation(t)]
          /\ withdrawn' = IF t \in L(b)!Published THEN withdrawn \cup {<<b, t>>} ELSE withdrawn
          /\ late' = late
      BY <1>7 DEF Revoke
    <2> HIDE DEF b
    <2> QED BY <1>2, <1>3, <1>4, <1>5, <2>1, MarkedAt
  <1> QED BY <1>6, <1>7

(* ------------------------- Late calls and landings ----------------------- *)

LEMMA LateRevokeInv ==
    ASSUME IInv, NEW c \in late, LateRevoke(c)
    PROVE  IInv'
  <1>1. /\ c.base \in Bases /\ c.ticket \in Tickets /\ Settled(c.ticket)
        /\ outbox \in [Tickets -> Entered \cup {NoValue}]
    BY DEF LateRevoke, IInv, Withdrawals, Typed, Calls
  <1>2. /\ tickets' = [tickets EXCEPT ![c.base] = L(c.base)!TicketsWithRevocation(c.ticket)]
        /\ withdrawn' = IF c.ticket \in L(c.base)!Published
                        THEN withdrawn \cup {<<c.base, c.ticket>>} ELSE withdrawn
        /\ late' \subseteq late
        /\ UNCHANGED <<replies, age, stale, settings, minted, outbox, inbox, keys, signed,
                       restarts>>
    BY DEF LateRevoke, issuer
  <1> QED BY <1>1, <1>2, MarkedAt, EntriesSame

LEMMA LateCollectInv ==
    ASSUME IInv, NEW c \in late, LateCollect(c)
    PROVE  IInv'
  <1>1. /\ late' \subseteq late
        /\ UNCHANGED <<tickets, age, stale, settings, minted, outbox, inbox, keys, signed,
                       restarts, withdrawn>>
    BY DEF LateCollect, issuer
  <1>2. L(c.base)!RepliesAfterCollection(c.ticket) \subseteq replies[c.base]
    BY DEF L!RepliesAfterCollection
  <1>3. /\ replies' \in [Bases -> SUBSET Requests]
        /\ \A b \in Bases : replies'[b] \subseteq replies[b]
    BY <1>2 DEF LateCollect, IInv, Typed
  <1>4. Typed'
    BY <1>1, <1>3 DEF IInv, Typed
  <1> QED BY <1>1, <1>3, <1>4, QuietStep, EntriesSame, TimeSame, RecordsSame

LEMMA PurgeInv ==
    ASSUME IInv, NEW b \in Bases, PurgeExpired(b)
    PROVE  IInv'
  <1>1. Typed
    BY DEF IInv
  <1>2. UNCHANGED <<age, stale, settings, minted, outbox, inbox, keys, late, signed, restarts,
                    withdrawn>>
    BY DEF PurgeExpired, issuer
  <1>3. /\ tickets' \in [Bases -> [Tickets -> Records \cup {NoValue}]]
        /\ \A c \in Bases : tickets'[c] = IF c = b THEN L(b)!TicketsAfterPurge ELSE tickets[c]
    BY <1>1, PurgeAt DEF PurgeExpired, Typed
  <1>4. /\ replies' \in [Bases -> SUBSET Requests]
        /\ \A c \in Bases : replies'[c] \subseteq replies[c]
    BY <1>1, PurgeAt DEF PurgeExpired, Typed
  <1>5. Typed'
    BY <1>1, <1>2, <1>3, <1>4 DEF Typed
  <1>6. RecordsGoOn
    BY <1>1, <1>3, PurgeAt DEF RecordsGoOn
  <1> QED BY <1>2, <1>4, <1>5, <1>6, QuietStep, EntriesSame, TimeSame

(* A restart drops the store, and with the connections every publication   *)
(* that was on its way there.                                              *)
LEMMA RestartInv ==
    ASSUME IInv, NEW b \in Bases, Restart(b)
    PROVE  IInv'
  <1>1. Typed
    BY DEF IInv
  <1>2. UNCHANGED <<age, stale, settings, minted, outbox, inbox, keys, signed, withdrawn>>
    BY DEF Restart, issuer
  <1>3. /\ late' = {c \in late : c.base # b}
        /\ restarts' \in 0..MaxRestarts /\ restarts' # 0
    BY <1>1, BoundAssumption DEF Restart, Typed
  <1>4. /\ tickets' \in [Bases -> [Tickets -> Records \cup {NoValue}]]
        /\ \A d \in Bases, u \in Tickets :
              tickets'[d][u] = IF d = b THEN NoValue ELSE tickets[d][u]
    BY <1>1 DEF Restart, Typed, L!Unpublished
  <1>5. /\ replies' \in [Bases -> SUBSET Requests]
        /\ \A d \in Bases : replies'[d] \subseteq replies[d]
    BY <1>1 DEF Restart, Typed
  <1>6. Typed'
    BY <1>1, <1>2, <1>3, <1>4, <1>5 DEF Typed
  <1>7. EntriesGoOn /\ TimeGoesOn
    BY <1>2, EntriesSame, TimeSame
  <1>8. AnswersAreSigned'
    BY <1>2, <1>4, <1>5 DEF IInv, AnswersAreSigned, Answered
  <1>9. AnswersAreGenuine' /\ OneOpenInvitation'
    BY <1>2, <1>7, SameGenuine, SameOpen DEF IInv
  <1>10. PublishedIsHeld'
    BY <1>3 DEF PublishedIsHeld
  <1>11. Withdrawals'
    <2>1. \A t : Settled(t) => Settled(t)'
      BY <1>2 DEF Settled, InOutbox, IsPublished
    <2>2. \A c \in late' : c.call = "revoke" => Settled(c.ticket)'
      BY <1>3, <2>1 DEF IInv, Withdrawals
    <2>3. \A t : NoPublication(b, t)'
      BY <1>3 DEF NoPublication
    <2>4. \A d, t : NoPublication(d, t) => NoPublication(d, t)'
      BY <1>3 DEF NoPublication
    <2>5. InOutbox' \subseteq minted'
      BY <1>2 DEF IInv, Withdrawals, InOutbox
    <2>6. ASSUME NEW d \in Bases, NEW u \in Tickets, <<d, u>> \in withdrawn'
          PROVE  /\ Settled(u)'
                 /\ tickets'[d][u] # NoValue => tickets'[d][u].revoked
                 /\ tickets'[d][u] = NoValue => age'[u] = "past" \/ NoPublication(d, u)'
      BY <1>2, <1>4, <2>1, <2>3, <2>4, <2>6 DEF IInv, Withdrawals
    <2> QED BY <2>2, <2>5, <2>6 DEF Withdrawals
  <1> QED BY <1>6, <1>8, <1>9, <1>10, <1>11 DEF IInv

(* A reply that a landing takes was signed, and its ticket is not one that *)
(* the landing has revoked.                                                *)
LEMMA ReplyInv ==
    ASSUME IInv, NEW b \in Bases, NEW r \in Requests, ReplyArrives(b, r)
    PROVE  IInv'
  <1>1. Typed /\ L(b)!TakesReply(r)
    BY DEF IInv, ReplyArrives
  <1>2. UNCHANGED <<age, stale, settings, minted, outbox, inbox, keys, late, signed, restarts,
                    withdrawn>>
    BY DEF ReplyArrives, issuer
  <1> DEFINE t == TicketOf[r]
  <1>3. t \in Tickets /\ r \in signed \ Forged /\ Answered(t)
    BY <1>1, ReplyAt DEF ReplyArrives, Answered
  <1>4. /\ replies' \in [Bases -> SUBSET Requests]
        /\ \A d \in Bases : replies'[d] \subseteq replies[d] \cup {r}
    BY <1>1, ReplyAt DEF ReplyArrives, Typed
  <1>5. /\ tickets' \in [Bases -> [Tickets -> Records \cup {NoValue}]]
        /\ \A d \in Bases : tickets'[d] = IF d = b THEN L(b)!TicketsWithReply(r) ELSE tickets[d]
    BY <1>1, ReplyAt DEF ReplyArrives, Typed
  <1>6. \A d \in Bases, u \in Tickets :
            /\ tickets'[d][u] = NoValue <=> tickets[d][u] = NoValue
            /\ u # t => tickets'[d][u] = tickets[d][u]
            /\ tickets[d][u] # NoValue => tickets'[d][u].revoked = tickets[d][u].revoked
    BY <1>1, <1>5, ReplyAt
  <1>7. Typed'
    BY <1>1, <1>2, <1>4, <1>5 DEF Typed
  <1> HIDE DEF t
  <1>8. AnswersAreSigned'
    BY <1>2, <1>3, <1>4, <1>6 DEF IInv, AnswersAreSigned, Answered
  <1>9. AnswersAreGenuine' /\ OneOpenInvitation'
    BY <1>2, EntriesSame, TimeSame, SameGenuine, SameOpen DEF IInv
  <1>10. PublishedIsHeld'
    <2> SUFFICES ASSUME NEW u \in Tickets, outbox[u] # NoValue, outbox[u].base # NoValue,
                        restarts = 0, age[u] # "past"
                 PROVE  tickets'[outbox[u].base][u] # NoValue
      BY <1>2 DEF PublishedIsHeld, Candidates, IsPublished, InOutbox, L!Published
    <2>1. outbox[u].base \in Bases /\ tickets[outbox[u].base][u] # NoValue
      BY <1>1 DEF IInv, Typed, Entered, Entries, PublishedIsHeld, Candidates, IsPublished,
                  InOutbox, L!Published
    <2> QED BY <1>6, <2>1
  <1>11. Withdrawals'
    <2>1. /\ \A u : Settled(u) => Settled(u)'
          /\ \A d, u : NoPublication(d, u) => NoPublication(d, u)'
      BY <1>2 DEF Settled, InOutbox, IsPublished, NoPublication
    <2>2. InOutbox' \subseteq minted' /\ \A c \in late' : c.call = "revoke" => Settled(c.ticket)'
      BY <1>2, <2>1 DEF IInv, Withdrawals, InOutbox
    <2>3. ASSUME NEW d \in Bases, NEW u \in Tickets, <<d, u>> \in withdrawn'
          PROVE  /\ Settled(u)'
                 /\ tickets'[d][u] # NoValue => tickets'[d][u].revoked
                 /\ tickets'[d][u] = NoValue => age'[u] = "past" \/ NoPublication(d, u)'
      BY <1>2, <1>6, <2>1, <2>3 DEF IInv, Withdrawals
    <2> QED BY <2>2, <2>3 DEF Withdrawals
  <1> QED BY <1>7, <1>8, <1>9, <1>10, <1>11 DEF IInv

(* ------------------------------- Publishing ------------------------------ *)

(* Landings register t or have it already; nothing else happens to them.   *)
OnlyRegisters(t) ==
    \A b \in Bases :
        /\ \A u \in Tickets :
              u # t \/ tickets[b][u] # NoValue => tickets'[b][u] = tickets[b][u]
        /\ tickets'[b][t] # NoValue =>
              \/ tickets[b][t] # NoValue
              \/ age[t] = "live" /\ tickets'[b][t].response = "none"

LEMMA RegisteredAnswers ==
    ASSUME AnswersAreSigned, NEW t \in Tickets, OnlyRegisters(t), UNCHANGED <<replies, signed>>
    PROVE  AnswersAreSigned'
  <1>1. \A b \in Bases : replies'[b] \subseteq signed' \ Forged
    BY DEF AnswersAreSigned
  <1>2. ASSUME NEW b \in Bases, NEW u \in Tickets,
               tickets'[b][u] # NoValue, tickets'[b][u].response # "none"
        PROVE  Answered(u)'
    <2>1. tickets'[b][u] = tickets[b][u]
      BY <1>2 DEF OnlyRegisters
    <2> QED BY <1>2, <2>1 DEF AnswersAreSigned, Answered
  <1> QED BY <1>1, <1>2 DEF AnswersAreSigned

(* A publication that comes late finds its ticket registered or its        *)
(* landing has not revoked it.                                             *)
LEMMA LatePublishInv ==
    ASSUME IInv, NEW c \in late, LatePublish(c)
    PROVE  IInv'
  <1> DEFINE b == c.base
             t == c.ticket
  <1>1. Typed
    BY DEF IInv
  <1>2. c.call = "publish" /\ b \in Bases /\ t \in Tickets /\ c.key \in StatusKeys /\ c.cap \in Caps
    BY <1>1 DEF LatePublish, Typed, Calls
  <1>3. /\ late' = late \ {c}
        /\ UNCHANGED <<replies, age, stale, settings, minted, outbox, inbox, keys, signed,
                       restarts, withdrawn>>
    BY DEF LatePublish, issuer
  <1>4. /\ tickets' \in [Bases -> [Tickets -> Records \cup {NoValue}]]
        /\ \A d \in Bases : tickets'[d] = IF d = b THEN L(b)!TicketsWithPublication(t, c.key, c.cap)
                                          ELSE tickets[d]
    BY <1>1, <1>2, PublicationAt DEF LatePublish, Typed
  <1>5. Typed'
    BY <1>1, <1>3, <1>4 DEF Typed
  <1>6. OnlyRegisters(t)
    BY <1>1, <1>2, <1>4, PublicationAt DEF OnlyRegisters
  <1>7. \A d \in Bases, u \in Tickets : d # b => tickets'[d][u] = tickets[d][u]
    BY <1>4
  <1> HIDE DEF b, t
  <1>8. AnswersAreSigned'
    BY <1>2, <1>3, <1>6, RegisteredAnswers DEF IInv
  <1>9. AnswersAreGenuine' /\ OneOpenInvitation'
    BY <1>3, EntriesSame, TimeSame, SameGenuine, SameOpen DEF IInv
  <1>10. PublishedIsHeld'
    <2> SUFFICES ASSUME NEW u \in Tickets, outbox[u] # NoValue, outbox[u].base # NoValue,
                        restarts = 0, age[u] # "past"
                 PROVE  tickets'[outbox[u].base][u] # NoValue
      BY <1>3 DEF PublishedIsHeld, Candidates, IsPublished, InOutbox, L!Published
    <2>1. outbox[u].base \in Bases /\ tickets[outbox[u].base][u] # NoValue
      BY <1>1 DEF IInv, Typed, Entered, Entries, PublishedIsHeld, Candidates, IsPublished,
                  InOutbox, L!Published
    <2> QED BY <1>6, <2>1 DEF OnlyRegisters
  <1>11. Withdrawals'
    <2>1. /\ \A u : Settled(u) => Settled(u)'
          /\ \A d, u : NoPublication(d, u) => NoPublication(d, u)'
      BY <1>3 DEF Settled, InOutbox, IsPublished, NoPublication
    <2>2. InOutbox' \subseteq minted' /\ \A x \in late' : x.call = "revoke" => Settled(x.ticket)'
      BY <1>3, <2>1 DEF IInv, Withdrawals, InOutbox
    <2>3. ASSUME NEW d \in Bases, NEW u \in Tickets, <<d, u>> \in withdrawn'
          PROVE  /\ Settled(u)'
                 /\ tickets'[d][u] # NoValue => tickets'[d][u].revoked
                 /\ tickets'[d][u] = NoValue => age'[u] = "past" \/ NoPublication(d, u)'
      <3>1. /\ Settled(u)
            /\ tickets[d][u] # NoValue => tickets[d][u].revoked
            /\ tickets[d][u] = NoValue => age[u] = "past" \/ NoPublication(d, u)
        BY <1>3, <2>3 DEF IInv, Withdrawals
      <3>2. CASE tickets'[d][u] = tickets[d][u]
        BY <1>3, <2>1, <3>1, <3>2
      <3>3. CASE tickets'[d][u] # tickets[d][u]
        <4>1. u = t /\ d = b /\ tickets[d][u] = NoValue /\ tickets'[d][u] # NoValue
          BY <1>6, <1>7, <3>3 DEF OnlyRegisters
        <4>2. age[u] = "live"
          BY <1>6, <4>1 DEF OnlyRegisters
        <4>3. ~NoPublication(d, u)
          BY <1>2, <4>1 DEF NoPublication, b, t
        <4> QED BY <3>1, <4>1, <4>2, <4>3
      <3> QED BY <3>2, <3>3
    <2> QED BY <2>2, <2>3 DEF Withdrawals
  <1> QED BY <1>5, <1>8, <1>9, <1>10, <1>11 DEF IInv

(* _publish_ticket: the landing it returns has the ticket.                 *)
LEMMA PublishingAt ==
    ASSUME Typed, NEW t \in Tickets, NEW outcome \in [DOMAIN settings.bases -> Outcomes],
           PublishTicket(t, outcome)
    PROVE  /\ keys' = keys + 1 /\ keys' \in 0..MaxKeys /\ keys' \in StatusKeys
           /\ tickets' \in [Bases -> [Tickets -> Records \cup {NoValue}]]
           /\ OnlyRegisters(t)
           /\ \A i \in Winner(t, outcome) :
                  /\ settings.bases[i] \in Bases
                  /\ tickets'[settings.bases[i]][t] # NoValue
           /\ late' \subseteq Calls
           /\ \A c \in late' : c \in late \/ (c.call = "publish" /\ c.ticket = t)
  <1> DEFINE handled == {settings.bases[i] : i \in {j \in Tried(t, outcome) : outcome[j] # "late"}}
  <1>1. keys' = keys + 1 /\ keys' \in 0..MaxKeys /\ keys' \in StatusKeys
    BY BoundAssumption DEF PublishTicket, Typed, StatusKeys
  <1>2. settings.cap \in Caps /\ settings.bases \in Seq(Bases)
    BY SettingsAssumption DEF Typed
  <1>3. \A i \in DOMAIN settings.bases : settings.bases[i] \in Bases
    BY <1>2
  <1>4. \A b \in Bases : tickets'[b] = IF b \in handled
                                       THEN L(b)!TicketsWithPublication(t, keys + 1, settings.cap)
                                       ELSE tickets[b]
    BY DEF PublishTicket
  <1>5. DOMAIN tickets' = Bases /\ tickets' = [b \in Bases |-> tickets'[b]]
    BY DEF PublishTicket
  <1>6. \A b \in Bases : tickets'[b] \in [Tickets -> Records \cup {NoValue}]
    <2> SUFFICES ASSUME NEW b \in Bases
                 PROVE  tickets'[b] \in [Tickets -> Records \cup {NoValue}]
      OBVIOUS
    <2> HIDE DEF handled
    <2>1. CASE b \in handled
      <3>1. tickets'[b] = L(b)!TicketsWithPublication(t, keys + 1, settings.cap)
        BY <1>4, <2>1
      <3>2. keys + 1 \in StatusKeys
        BY <1>1
      <3> QED BY <1>2, <3>1, <3>2, PublicationAt
    <2>2. CASE b \notin handled
      BY <1>4, <2>2 DEF Typed
    <2> QED BY <2>1, <2>2
  <1>7. tickets' \in [Bases -> [Tickets -> Records \cup {NoValue}]]
    BY <1>5, <1>6
  <1>8. OnlyRegisters(t)
    <2>1. ASSUME NEW b \in Bases
          PROVE  /\ \A u \in Tickets :
                       u # t \/ tickets[b][u] # NoValue => tickets'[b][u] = tickets[b][u]
                 /\ tickets'[b][t] # NoValue =>
                       \/ tickets[b][t] # NoValue
                       \/ age[t] = "live" /\ tickets'[b][t].response = "none"
      <3>1. CASE b \in handled
        BY <1>1, <1>2, <1>4, <3>1, PublicationAt
      <3>2. CASE b \notin handled
        BY <1>4, <3>2
      <3> QED BY <3>1, <3>2
    <2> QED BY <2>1 DEF OnlyRegisters
  <1>9. ASSUME NEW i \in Winner(t, outcome)
        PROVE  settings.bases[i] \in Bases /\ tickets'[settings.bases[i]][t] # NoValue
    <2>1. /\ i \in Tried(t, outcome) /\ outcome[i] # "late"
          /\ L(settings.bases[i])!Accepts(t) /\ settings.bases[i] \in Bases
      BY <1>3 DEF Winner, Tried
    <2>2. settings.bases[i] \in handled
      BY <2>1
    <2> QED BY <1>1, <1>2, <1>4, <2>1, <2>2, PublicationAt
  <1>10. late' \subseteq Calls /\ \A c \in late' : c \in late \/ (c.call = "publish" /\ c.ticket = t)
    <2> DEFINE given == {Call(t, i) : i \in {j \in Tried(t, outcome) : outcome[j] = "late"}}
    <2>1. late' = late \cup given
      BY DEF PublishTicket
    <2>2. \A i \in DOMAIN settings.bases : /\ Call(t, i) \in Calls
                                           /\ Call(t, i).call = "publish" /\ Call(t, i).ticket = t
      BY <1>1, <1>2, <1>3 DEF Call, Calls
    <2>3. given \subseteq Calls /\ \A c \in given : c.call = "publish" /\ c.ticket = t
      BY <2>2 DEF Tried
    <2> HIDE DEF given
    <2> QED BY <2>1, <2>3 DEF Typed
  <1> QED BY <1>1, <1>7, <1>8, <1>9, <1>10

(* The entry as it is, or with the landing that has the ticket.            *)
LEMMA RecordedEntry ==
    ASSUME Typed, NEW t \in Tickets, NEW outcome \in [DOMAIN settings.bases -> Outcomes],
           PublishTicket(t, outcome), NEW entry \in Entered
    PROVE  /\ Recorded(entry, t, outcome) \in Entered
           /\ Recorded(entry, t, outcome).state = entry.state
           /\ Recorded(entry, t, outcome).forced = entry.forced
           /\ \/ Recorded(entry, t, outcome).base = entry.base
              \/ tickets'[Recorded(entry, t, outcome).base][t] # NoValue
  <1>1. CASE Winner(t, outcome) = {}
    BY <1>1 DEF Recorded
  <1>2. CASE Winner(t, outcome) # {}
    <2> DEFINE b == settings.bases[CHOOSE i \in Winner(t, outcome) : TRUE]
    <2>1. (CHOOSE i \in Winner(t, outcome) : TRUE) \in Winner(t, outcome)
      BY <1>2
    <2>2. b \in Bases /\ tickets'[b][t] # NoValue /\ keys + 1 \in StatusKeys
      BY <2>1, PublishingAt
    <2>3. Recorded(entry, t, outcome) = [entry EXCEPT !.key = keys + 1, !.base = b]
      BY <1>2 DEF Recorded
    <2>4. keys + 1 # NoValue
      BY <2>2, NoValueAssumption
    <2> HIDE DEF b
    <2> QED BY <2>2, <2>3, <2>4 DEF Entered, Entries
  <1> QED BY <1>1, <1>2

(* ------------------------------ New entries ------------------------------ *)

(* prepare and publish put one entry, of a ticket that is not settled.     *)
LEMMA EntryPut ==
    ASSUME IInv, Typed', NEW t \in Tickets, ~Settled(t), OnlyRegisters(t),
           NEW entry \in Entered,
           outbox' = [outbox EXCEPT ![t] = entry] \/ outbox' = outbox,
           minted' = minted \cup {t},
           UNCHANGED <<replies, age, inbox, signed, restarts, withdrawn>>,
           \A c \in late' : c \in late \/ (c.call = "publish" /\ c.ticket = t),
           entry.base # NoValue => tickets'[entry.base][t] # NoValue,
           entry.state = "joined" => Answered(t),
           \/ entry.forced \/ ~Duplicate(t)
           \/ /\ outbox[t] # NoValue /\ entry.forced = outbox[t].forced
              /\ entry.state = outbox[t].state
    PROVE  IInv'
  <1>1. Typed
    BY DEF IInv
  <1>2. \A u \in Tickets : /\ u # t => outbox'[u] = outbox[u]
                           /\ outbox'[t] = entry \/ outbox'[t] = outbox[t]
    BY <1>1 DEF Typed
  <1>3. AnswersAreSigned'
    BY RegisteredAnswers DEF IInv
  <1>4. AnswersAreGenuine'
    <2>1. /\ \A row \in inbox' : row.request \in signed' \ Forged
          /\ \A row1, row2 \in inbox' : row1.request = row2.request => row1 = row2
      BY DEF IInv, AnswersAreGenuine
    <2>2. ASSUME NEW u \in Tickets, outbox'[u] # NoValue, outbox'[u].state = "joined"
          PROVE  \E r \in signed' \ Forged : TicketOf[r] = u
      <3>1. CASE outbox'[u] = outbox[u]
        BY <2>2, <3>1 DEF IInv, AnswersAreGenuine, InOutbox
      <3>2. CASE u = t /\ outbox'[u] = entry
        BY <2>2, <3>2 DEF Answered
      <3> QED BY <1>2, <3>1, <3>2
    <2> QED BY <2>1, <2>2 DEF AnswersAreGenuine, InOutbox
  <1>5. OneOpenInvitation'
    <2> SUFFICES ASSUME NEW u \in Tickets, NEW w \in Tickets,
                        outbox'[u] # NoValue, outbox'[w] # NoValue,
                        u # w, AudienceOf[u] = AudienceOf[w], age[u] = "live", age[w] = "live",
                        outbox'[u].state \in OpenStates, outbox'[w].state \in OpenStates
                 PROVE  outbox'[u].forced \/ outbox'[w].forced
      BY DEF OneOpenInvitation, InOutbox
    <2>1. ASSUME NEW x \in Tickets, NEW y \in Tickets, x # y, AudienceOf[x] = AudienceOf[y],
                 age[x] = "live", age[y] = "live", outbox[x] # NoValue, outbox[y] # NoValue,
                 outbox[x].state \in OpenStates, outbox[y].state \in OpenStates
          PROVE  outbox[x].forced \/ outbox[y].forced
      BY <2>1 DEF IInv, OneOpenInvitation, InOutbox
    <2>2. ASSUME NEW y \in Tickets, y # t, AudienceOf[y] = AudienceOf[t], age[y] = "live",
                 age[t] = "live", outbox[y] # NoValue, outbox[y].state \in OpenStates,
                 entry.state \in OpenStates
          PROVE  entry.forced \/ outbox[y].forced
      <3>1. Duplicate(t)
        BY <2>2 DEF Duplicate, InOutbox
      <3> QED BY <2>1, <2>2, <3>1
    <2>3. CASE u # t /\ w # t
      BY <1>2, <2>1, <2>3
    <2>4. CASE u = t
      BY <1>2, <2>1, <2>2, <2>4
    <2>5. CASE w = t
      BY <1>2, <2>1, <2>2, <2>5
    <2> QED BY <2>3, <2>4, <2>5
  <1>6. PublishedIsHeld'
    <2> SUFFICES ASSUME NEW u \in Tickets, outbox'[u] # NoValue, outbox'[u].base # NoValue,
                        restarts = 0, age[u] # "past"
                 PROVE  tickets'[outbox'[u].base][u] # NoValue
      BY DEF PublishedIsHeld, Candidates, IsPublished, InOutbox, L!Published
    <2>1. CASE outbox'[u] = outbox[u]
      <3>1. outbox[u].base \in Bases /\ tickets[outbox[u].base][u] # NoValue
        BY <1>1, <2>1 DEF IInv, Typed, Entered, Entries, PublishedIsHeld, Candidates,
                          IsPublished, InOutbox, L!Published
      <3> QED BY <2>1, <3>1 DEF OnlyRegisters
    <2>2. CASE u = t /\ outbox'[u] = entry
      BY <2>2
    <2> QED BY <1>2, <2>1, <2>2
  <1>7. Withdrawals'
    <2>1. ASSUME NEW u \in Tickets, Settled(u)
          PROVE  u # t /\ Settled(u)'
      <3>1. u # t /\ outbox'[u] = outbox[u]
        BY <1>2, <2>1
      <3> QED BY <2>1, <3>1 DEF Settled, InOutbox, IsPublished
    <2>2. InOutbox' \subseteq minted'
      BY <1>2 DEF IInv, Withdrawals, InOutbox
    <2>3. ASSUME NEW c \in late', c.call = "revoke"
          PROVE  Settled(c.ticket)'
      <3>1. c \in late /\ c.ticket \in Tickets
        BY <1>1, <2>3 DEF Typed, Calls
      <3> QED BY <2>1, <2>3, <3>1 DEF IInv, Withdrawals
    <2>4. ASSUME NEW d \in Bases, NEW u \in Tickets, <<d, u>> \in withdrawn'
          PROVE  /\ Settled(u)'
                 /\ tickets'[d][u] # NoValue => tickets'[d][u].revoked
                 /\ tickets'[d][u] = NoValue => age'[u] = "past" \/ NoPublication(d, u)'
      <3>1. /\ Settled(u)
            /\ tickets[d][u] # NoValue => tickets[d][u].revoked
            /\ tickets[d][u] = NoValue => age[u] = "past" \/ NoPublication(d, u)
        BY <2>4 DEF IInv, Withdrawals
      <3>2. u # t /\ Settled(u)'
        BY <2>1, <3>1
      <3>3. tickets'[d][u] = tickets[d][u]
        BY <3>2 DEF OnlyRegisters
      <3>4. NoPublication(d, u) => NoPublication(d, u)'
        BY <3>2 DEF NoPublication
      <3> QED BY <3>1, <3>2, <3>3, <3>4
    <2> QED BY <2>2, <2>3, <2>4 DEF Withdrawals
  <1> QED BY <1>3, <1>4, <1>5, <1>6, <1>7 DEF IInv

LEMMA NewEntryType ==
    ASSUME NEW force \in BOOLEAN
    PROVE  /\ NewEntry(force) \in Entered
           /\ NewEntry(force).base = NoValue /\ NewEntry(force).forced = force
           /\ NewEntry(force).state = "prepared"
  BY DEF NewEntry, Entered, Entries, OpenStates

LEMMA PrepareUnpublishedInv ==
    ASSUME IInv, NEW t \in Tickets, NEW force \in BOOLEAN, PrepareUnpublished(t, force)
    PROVE  IInv'
  <1>1. /\ ~Settled(t) /\ (force \/ ~Duplicate(t))
        /\ minted' = minted \cup {t} /\ outbox' = [outbox EXCEPT ![t] = NewEntry(force)]
    BY DEF PrepareUnpublished, Settled
  <1>2. UNCHANGED <<tickets, replies, age, stale, settings, inbox, keys, late, signed, restarts,
                    withdrawn>>
    BY DEF PrepareUnpublished, landings
  <1>3. Typed'
    BY <1>1, <1>2, NewEntryType DEF IInv, Typed
  <1>4. OnlyRegisters(t)
    BY <1>2 DEF OnlyRegisters
  <1> QED BY <1>1, <1>2, <1>3, <1>4, NewEntryType, EntryPut

LEMMA PreparePublishedInv ==
    ASSUME IInv, NEW t \in Tickets, NEW force \in BOOLEAN, NEW sms \in BOOLEAN,
           NEW outcome \in [DOMAIN settings.bases -> Outcomes],
           PreparePublished(t, force, sms, outcome)
    PROVE  IInv'
  <1> DEFINE entry == Recorded(NewEntry(force), t, outcome)
  <1>1. /\ ~Settled(t) /\ (force \/ ~Duplicate(t)) /\ PublishTicket(t, outcome)
        /\ minted' = minted \cup {t}
        /\ outbox' = [outbox EXCEPT ![t] = entry] \/ outbox' = outbox
    BY DEF PreparePublished, Settled
  <1>2. UNCHANGED <<replies, age, stale, settings, inbox, signed, restarts, withdrawn>>
    BY DEF PreparePublished
  <1>3. Typed
    BY DEF IInv
  <1>4. /\ entry \in Entered /\ entry.state = "prepared" /\ entry.forced = force
        /\ entry.base = NoValue \/ tickets'[entry.base][t] # NoValue
    BY <1>1, <1>3, NewEntryType, RecordedEntry
  <1> HIDE DEF entry
  <1>5. /\ keys' \in 0..MaxKeys /\ late' \subseteq Calls /\ OnlyRegisters(t)
        /\ tickets' \in [Bases -> [Tickets -> Records \cup {NoValue}]]
        /\ \A c \in late' : c \in late \/ (c.call = "publish" /\ c.ticket = t)
    BY <1>1, <1>3, PublishingAt
  <1>6. Typed'
    BY <1>1, <1>2, <1>3, <1>4, <1>5 DEF Typed
  <1> QED BY <1>1, <1>2, <1>4, <1>5, <1>6, EntryPut

LEMMA PublishInv ==
    ASSUME IInv, NEW t \in Tickets, NEW outcome \in [DOMAIN settings.bases -> Outcomes],
           Publish(t, outcome)
    PROVE  IInv'
  <1> DEFINE entry == Recorded(outbox[t], t, outcome)
  <1>1. /\ outbox[t] # NoValue /\ ~IsPublished(t) /\ PublishTicket(t, outcome)
        /\ outbox' = [outbox EXCEPT ![t] = entry]
    BY DEF Publish, InOutbox
  <1>2. UNCHANGED <<replies, age, stale, settings, minted, inbox, signed, restarts, withdrawn>>
    BY DEF Publish
  <1>3. Typed /\ outbox[t] \in Entered
    BY <1>1 DEF IInv, Typed
  <1>4. outbox[t].base = NoValue /\ ~Settled(t) /\ minted' = minted \cup {t}
    BY <1>1, <1>2 DEF IsPublished, InOutbox, Settled, IInv, Withdrawals
  <1>5. /\ entry \in Entered /\ entry.state = outbox[t].state /\ entry.forced = outbox[t].forced
        /\ entry.base = NoValue \/ tickets'[entry.base][t] # NoValue
    BY <1>1, <1>3, <1>4, RecordedEntry
  <1> HIDE DEF entry
  <1>6. /\ keys' \in 0..MaxKeys /\ late' \subseteq Calls /\ OnlyRegisters(t)
        /\ tickets' \in [Bases -> [Tickets -> Records \cup {NoValue}]]
        /\ \A c \in late' : c \in late \/ (c.call = "publish" /\ c.ticket = t)
    BY <1>1, <1>3, PublishingAt
  <1>7. Typed'
    BY <1>1, <1>2, <1>3, <1>5, <1>6 DEF Typed
  <1>8. entry.state = "joined" => Answered(t)
    BY <1>1, <1>5 DEF IInv, AnswersAreGenuine, InOutbox, Answered
  <1> QED BY <1>1, <1>2, <1>4, <1>5, <1>6, <1>7, <1>8, EntryPut

(* ----------------------------- The invariant ----------------------------- *)

LEMMA InitInv == Init => IInv
  <1> SUFFICES ASSUME Init PROVE IInv
    OBVIOUS
  <1> USE DEF Init
  <1>1. Typed
    BY BoundAssumption DEF Typed
  <1>2. InOutbox = {} /\ Candidates = {}
    BY DEF InOutbox, Candidates, IsPublished
  <1>3. AnswersAreSigned
    BY DEF AnswersAreSigned
  <1> QED BY <1>1, <1>2, <1>3 DEF IInv, AnswersAreGenuine, OneOpenInvitation, PublishedIsHeld,
                                  Withdrawals

LEMMA IssuerInv ==
    ASSUME IInv, IssuerStep
    PROVE  IInv'
  <1>1. ASSUME NEW new \in [bases: BaseLists, autoPublish: BOOLEAN, cap: Caps], Configure(new)
        PROVE  IInv'
    BY <1>1, ConfigureInv
  <1>2. ASSUME NEW t \in Tickets, NEW force \in BOOLEAN, PrepareUnpublished(t, force)
        PROVE  IInv'
    BY <1>2, PrepareUnpublishedInv
  <1>3. ASSUME NEW t \in Tickets, NEW force \in BOOLEAN, NEW sms \in BOOLEAN,
               NEW outcome \in [DOMAIN settings.bases -> Outcomes],
               PreparePublished(t, force, sms, outcome)
        PROVE  IInv'
    BY <1>3, PreparePublishedInv
  <1>4. ASSUME NEW t \in Tickets, NEW outcome \in [DOMAIN settings.bases -> Outcomes],
               Publish(t, outcome)
        PROVE  IInv'
    BY <1>4, PublishInv
  <1>5. ASSUME NEW t \in Tickets, MarkSent(t) \/ RevokeLocally(t)
        PROVE  IInv'
    BY <1>5, MarkSentInv
  <1>6. ASSUME NEW t \in Tickets, NEW outcome \in Outcomes, Revoke(t, outcome)
        PROVE  IInv'
    BY <1>6, RevokeInv
  <1>7. ASSUME NEW C \in SUBSET Candidates, NEW answered \in SUBSET C, RefreshStatus(C, answered)
        PROVE  IInv'
    BY <1>7, RefreshInv
  <1>8. ASSUME NEW outcome \in [Candidates -> Outcomes], NEW relayed \in SUBSET Forged,
               PullContactRequests(outcome, relayed)
        PROVE  IInv'
    BY <1>8, PullInv
  <1>9. ASSUME NEW row \in inbox, AcceptContactRequest(row)
        PROVE  IInv'
    BY <1>9, AcceptInv
  <1>10. ASSUME NEW dropped \in SUBSET InOutbox, ClearOutbox(dropped)
         PROVE  IInv'
    BY <1>10, ClearInv
  <1> QED BY <1>1, <1>2, <1>3, <1>4, <1>5, <1>6, <1>7, <1>8, <1>9, <1>10 DEF IssuerStep

LEMMA NextInv == IInv /\ [Next]_vars => IInv'
  <1> SUFFICES ASSUME IInv, [Next]_vars PROVE IInv'
    OBVIOUS
  <1>1. CASE IssuerStep
    BY <1>1, IssuerInv
  <1>2. ASSUME NEW b \in Bases, LandingStep(b)
        PROVE  IInv'
    BY <1>2, ReplyInv, PurgeInv, RestartInv DEF LandingStep
  <1>3. ASSUME NEW c \in late, LatePublish(c) \/ LateRevoke(c) \/ LateCollect(c)
        PROVE  IInv'
    BY <1>3, LatePublishInv, LateRevokeInv, LateCollectInv
  <1>4. CASE \/ \E r \in Requests : Respond(r) \/ ExpireRequest(r)
             \/ \E t \in Tickets : ExpireTicket(t) \/ PassGrace(t)
    BY <1>4, OutsideInv
  <1>5. CASE UNCHANGED vars
    <2>1. UNCHANGED <<tickets, replies, age, stale, settings, minted, outbox, inbox, keys, late,
                      signed, restarts, withdrawn>>
      BY <1>5 DEF vars
    <2>2. Typed'
      BY <2>1 DEF IInv, Typed
    <2> QED BY <2>1, <2>2, QuietStep, EntriesSame, TimeSame, RecordsSame
  <1> QED BY <1>1, <1>2, <1>3, <1>4, <1>5 DEF Next

(* The invariant holds however calls are answered, lost or late and        *)
(* landings restarted.                                                     *)
THEOREM Invariance == Spec => []IInv
  BY InitInv, NextInv, PTL DEF Spec

(* Every variable of the issuer's Cell and of its landings keeps its type. *)
THEOREM InvitationTypeCorrect == Spec => []TypeOK
  <1>1. IInv => TypeOK
    BY TypedIsTypeOK DEF IInv
  <1> QED BY <1>1, Invariance, PTL

(* What the issuer takes for an answer, in its inbox or by an entry that   *)
(* is joined, an invitee has signed, whatever landings relay               *)
(* (pull_contact_requests, refresh_status, accept_contact_request).        *)
THEOREM GenuineAnswers == Spec => []AnswersAreGenuine
  <1>1. IInv => AnswersAreGenuine
    BY DEF IInv
  <1> QED BY <1>1, Invariance, PTL

(* Nobody has two open invitations unless one was forced (prepare).        *)
THEOREM OpenInvitations == Spec => []OneOpenInvitation
  <1>1. IInv => OneOpenInvitation
    BY DEF IInv
  <1> QED BY <1>1, Invariance, PTL

(* The landing that an entry names has the ticket, until it is restarted   *)
(* or may purge it (_publish_ticket, publish).                             *)
THEOREM LinksLeadSomewhere == Spec => []PublishedIsHeld
  <1>1. IInv => PublishedIsHeld
    BY DEF IInv
  <1> QED BY <1>1, Invariance, PTL

(* What a step does to the replies to a ticket that was withdrawn.         *)
LEMMA WithdrawnStep ==
    ASSUME IInv, [Next]_vars, NEW b \in Bases, NEW t \in Tickets, <<b, t>> \in withdrawn
    PROVE  L(b)!RepliesTo(t)' \subseteq L(b)!RepliesTo(t)
  <1> USE DEF L!RepliesTo
  <1>1. Typed
    BY DEF IInv
  <1>2. ASSUME replies'[b] \subseteq replies[b]
        PROVE  L(b)!RepliesTo(t)' \subseteq L(b)!RepliesTo(t)
    BY <1>2
  <1>3. CASE IssuerStep
    <2>1. UNCHANGED replies \/ \E outcome \in [Candidates -> Outcomes], relayed \in SUBSET Forged :
              PullContactRequests(outcome, relayed)
      BY <1>3 DEF IssuerStep, Configure, PrepareUnpublished, PreparePublished, Publish, MarkSent,
                  RevokeLocally, Revoke, RefreshStatus, AcceptContactRequest, ClearOutbox, landings
    <2> QED BY <1>2, <2>1 DEF PullContactRequests
  <1>4. ASSUME NEW d \in Bases, NEW r \in Requests, ReplyArrives(d, r)
        PROVE  L(b)!RepliesTo(t)' \subseteq L(b)!RepliesTo(t)
    <2>1. replies' = [replies EXCEPT ![d] = replies[d] \cup {r}]
      BY <1>1, <1>4, ReplyAt DEF ReplyArrives
    <2>2. tickets[d][TicketOf[r]] # NoValue /\ ~tickets[d][TicketOf[r]].revoked
      BY <1>1, <1>4, ReplyAt DEF ReplyArrives
    <2>3. d # b \/ TicketOf[r] # t
      BY <2>2 DEF IInv, Withdrawals
    <2>4. replies'[b] = IF d = b THEN replies[b] \cup {r} ELSE replies[b]
      BY <1>1, <2>1 DEF Typed
    <2> QED BY <2>3, <2>4
  <1>5. ASSUME NEW d \in Bases, PurgeExpired(d) \/ Restart(d)
        PROVE  replies'[b] \subseteq replies[b]
    <2>1. replies \in [Bases -> SUBSET Requests]
      BY <1>1 DEF Typed
    <2>2. CASE PurgeExpired(d)
      <3>1. replies' = [replies EXCEPT ![d] = L(d)!RepliesAfterPurge]
        BY <2>2 DEF PurgeExpired
      <3>2. L(d)!RepliesAfterPurge \subseteq replies[d]
        BY <1>1, PurgeAt
      <3> QED BY <2>1, <3>1, <3>2
    <2>3. CASE Restart(d)
      BY <2>1, <2>3 DEF Restart
    <2> QED BY <1>5, <2>2, <2>3
  <1>6. ASSUME NEW c \in late, LatePublish(c) \/ LateRevoke(c) \/ LateCollect(c)
        PROVE  replies'[b] \subseteq replies[b]
    BY <1>1, <1>6 DEF LatePublish, LateRevoke, LateCollect, L!RepliesAfterCollection, Typed
  <1>7. CASE \/ \E r \in Requests : Respond(r) \/ ExpireRequest(r)
             \/ \E u \in Tickets : ExpireTicket(u) \/ PassGrace(u)
    BY <1>2, <1>7 DEF Respond, ExpireRequest, ExpireTicket, PassGrace, landings
  <1>8. CASE UNCHANGED vars
    BY <1>2, <1>8 DEF vars
  <1> QED BY <1>2, <1>3, <1>4, <1>5, <1>6, <1>7, <1>8 DEF Next, LandingStep

(* A landing that has carried out a revocation takes no further reply to   *)
(* the ticket, whatever was still on its way to it and however often it    *)
(* restarts (publish, revoke, _store).                                     *)
THEOREM WithdrawnForGood == Spec => RevokedTakesNoReply
  <1>1. IInv /\ [Next]_vars =>
            [\A b \in Bases, t \in Tickets :
                <<b, t>> \in withdrawn =>
                    L(b)!RepliesTo(t)' \subseteq L(b)!RepliesTo(t)]_vars
    BY WithdrawnStep
  <1> QED BY <1>1, Invariance, PTL DEF Spec, RevokedTakesNoReply
=============================================================================

------------------------- MODULE ChatAdmissionProofs -------------------------
(***************************************************************************)
(* Theorems about ChatAdmission for any numbers of uuids, keys, acceptance *)
(* ids, artifacts and contracts.                                           *)
(***************************************************************************)
EXTENDS ChatAdmission, TLAPS

(* The chat never made an artifact it has not counted.                     *)
Numbered == \A a \in artifacts : a.n <= issued[a.uuid]

(* A record's artifact is one the chat made for that uuid.                 *)
RecordsHoldIssued ==
    \A u \in Uuids :
        invitations[u] # NoValue /\ invitations[u].artifact # NoValue =>
            /\ invitations[u].artifact \in artifacts
            /\ invitations[u].artifact.uuid = u

(* Every acceptance taken was signed, for an artifact the chat made.       *)
TakenWereSigned ==
    \A row \in accepted :
        /\ row.artifact \in artifacts
        /\ [id |-> row.id, artifact |-> row.artifact] \in acceptances

(* The consumed table forgets only artifacts that are no longer current.   *)
CurrentIsRemembered ==
    /\ consumed \subseteq accepted
    /\ \A u \in Uuids : invitations[u] # NoValue =>
           \A row \in accepted :
               row.artifact = invitations[u].artifact => row \in consumed

(* A record that carries an acceptance, by uuid rather than by Invited.    *)
Backed ==
    \A u \in Uuids :
        invitations[u] # NoValue /\ invitations[u].acceptance # NoValue =>
            [artifact |-> invitations[u].artifact,
             id |-> invitations[u].acceptance] \in consumed

IInv ==
    /\ TypeOK /\ Numbered /\ RecordsHoldIssued /\ TakenWereSigned
    /\ CurrentIsRemembered /\ Backed /\ OneAcceptancePerArtifact

(* NoValue is none of the values it stands in for.                         *)
LEMMA NoValueDistinct ==
    /\ NoValue \notin Artifacts /\ NoValue \notin AcceptanceIds
    /\ NoValue \notin Records /\ NoValue \notin Joins
BY NoValueAssumption

(* The initial state, in which nothing was invited or made.                *)
LEMMA InitIInv == Init => IInv
<1> SUFFICES ASSUME Init PROVE IInv
    OBVIOUS
<1>1. TypeOK
    BY DEF Init, TypeOK
<1>2. Numbered /\ RecordsHoldIssued /\ TakenWereSigned /\ CurrentIsRemembered
      /\ Backed /\ OneAcceptancePerArtifact
    BY DEF Init, Numbered, RecordsHoldIssued, TakenWereSigned,
           CurrentIsRemembered, Backed, OneAcceptancePerArtifact
<1> QED BY <1>1, <1>2 DEF IInv

(* What an invitation puts into a record.                                  *)
LEMMA InvitedRecordFacts ==
    ASSUME TypeOK, NEW u \in Uuids, NEW k \in Keys
    PROVE  /\ InvitedRecord(u, k) \in Records
           /\ InvitedRecord(u, k).acceptance = NoValue
           /\ InvitedRecord(u, k).artifact # NoValue =>
                 /\ invitations[u] # NoValue
                 /\ InvitedRecord(u, k).artifact = invitations[u].artifact
<1>1. CASE invitations[u] = NoValue
    BY <1>1 DEF InvitedRecord, Records, Statuses
<1>2. CASE invitations[u] # NoValue
  <2>1. invitations[u] \in Records
      BY <1>2 DEF TypeOK
  <2> QED BY <1>2, <2>1 DEF InvitedRecord, Records, Statuses
<1> QED BY <1>1, <1>2

(* InviteIdentities keeps the artifact and drops the acceptance.           *)
LEMMA InviteStep ==
    ASSUME IInv, NEW u \in Uuids, NEW k \in Keys, InviteIdentities(u, k)
    PROVE  IInv'
<1> DEFINE rec == InvitedRecord(u, k)
<1>1. /\ invitations' = [invitations EXCEPT ![u] = rec]
      /\ UNCHANGED <<artifacts, issued, expired, consumed, acceptances,
                     conditions, contracts, joining, accepted>>
    BY DEF InviteIdentities
<1>2. /\ rec \in Records
      /\ rec.acceptance = NoValue
      /\ rec.artifact # NoValue =>
             invitations[u] # NoValue /\ rec.artifact = invitations[u].artifact
    BY InvitedRecordFacts DEF IInv
<1> HIDE DEF rec
<1>3. \A w \in Uuids : invitations'[w] = IF w = u THEN rec ELSE invitations[w]
    BY <1>1 DEF IInv, TypeOK
<1>4. TypeOK'
    BY <1>1, <1>2 DEF IInv, TypeOK
<1>5. Numbered' /\ TakenWereSigned' /\ OneAcceptancePerArtifact'
    BY <1>1 DEF IInv, Numbered, TakenWereSigned, OneAcceptancePerArtifact
<1>6. RecordsHoldIssued' /\ Backed'
    BY <1>1, <1>2, <1>3 DEF IInv, RecordsHoldIssued, Backed
<1>7. CurrentIsRemembered'
  <2>1. \A row \in accepted : row.artifact # NoValue
      BY NoValueDistinct DEF IInv, TypeOK, ConsumedRows
  <2> QED BY <1>1, <1>2, <1>3, <2>1 DEF IInv, CurrentIsRemembered
<1> QED BY <1>4, <1>5, <1>6, <1>7 DEF IInv

(* A new artifact: fresh, and the only thing its record carries.           *)
LEMMA ReissueFacts ==
    ASSUME IInv, NEW u \in Uuids, invitations[u] # NoValue
    PROVE  /\ NextArtifact(u) \in Artifacts
           /\ NextArtifact(u) \notin artifacts
           /\ NextArtifact(u).uuid = u /\ NextArtifact(u).n = issued[u] + 1
           /\ ReissuedRecord(u) \in Records
           /\ ReissuedRecord(u).artifact = NextArtifact(u)
           /\ ReissuedRecord(u).acceptance = NoValue
<1>1. invitations[u] \in Records /\ issued[u] \in Nat
    BY DEF IInv, TypeOK
<1>2. NextArtifact(u) \in Artifacts
    BY <1>1 DEF NextArtifact, Artifacts, Records
<1>3. NextArtifact(u).uuid = u /\ NextArtifact(u).n = issued[u] + 1
    BY DEF NextArtifact
<1>4. NextArtifact(u) \notin artifacts
    BY <1>1, <1>3 DEF IInv, Numbered
<1> HIDE DEF NextArtifact
<1>5. /\ ReissuedRecord(u) \in Records
      /\ ReissuedRecord(u).artifact = NextArtifact(u)
      /\ ReissuedRecord(u).acceptance = NoValue
    BY <1>1, <1>2 DEF ReissuedRecord, Records, Statuses
<1> QED BY <1>2, <1>3, <1>4, <1>5

(* GenerateInvitationArtifacts forgets only the rows of what it replaces.  *)
LEMMA GenerateStep ==
    ASSUME IInv, NEW T \in SUBSET Uuids, NEW F \in SUBSET T,
           GenerateInvitationArtifacts(T, F)
    PROVE  IInv'
<1> DEFINE new == Reissued(T) \ F
           undeclined(u) == [invitations[u] EXCEPT
                                 !.status = IF @ = "declined" THEN "pending" ELSE @]
<1>1. /\ T \subseteq Eligible /\ F \subseteq Reissued(T)
      /\ invitations' =
             [u \in Uuids |-> IF u \in new THEN ReissuedRecord(u)
                              ELSE IF u \in F THEN undeclined(u)
                              ELSE invitations[u]]
      /\ issued' = [u \in Uuids |->
                       IF u \in new THEN issued[u] + 1 ELSE issued[u]]
      /\ artifacts' = artifacts \cup {NextArtifact(u) : u \in new}
      /\ consumed' = {row \in consumed :
                         \A u \in new : row.artifact # invitations[u].artifact}
      /\ UNCHANGED <<expired, acceptances, conditions, contracts, joining,
                     accepted>>
    BY DEF GenerateInvitationArtifacts
<1>2. \A u \in T : u \in Uuids /\ invitations[u] # NoValue
    BY <1>1 DEF Eligible, Invited
<1>3. new \subseteq T
    BY DEF Reissued
<1>4. \A u \in F : /\ undeclined(u) \in Records
                   /\ undeclined(u).artifact = invitations[u].artifact
                   /\ undeclined(u).acceptance = invitations[u].acceptance
  <2> TAKE u \in F
  <2>1. invitations[u] \in Records
      BY <1>2 DEF IInv, TypeOK
  <2> QED BY <2>1 DEF Records, Statuses
<1>5. \A u \in new : /\ NextArtifact(u) \in Artifacts
                     /\ NextArtifact(u) \notin artifacts
                     /\ NextArtifact(u).uuid = u
                     /\ NextArtifact(u).n = issued[u] + 1
                     /\ ReissuedRecord(u) \in Records
                     /\ ReissuedRecord(u).artifact = NextArtifact(u)
                     /\ ReissuedRecord(u).acceptance = NoValue
    BY <1>2, <1>3, ReissueFacts
<1> HIDE DEF new, undeclined
<1>6. \A u \in Uuids :
          invitations'[u] = IF u \in new THEN ReissuedRecord(u)
                            ELSE IF u \in F THEN undeclined(u)
                            ELSE invitations[u]
    BY <1>1
<1>7. TypeOK'
  <2>1. invitations' \in [Uuids -> Records \cup {NoValue}]
      BY <1>1, <1>4, <1>5 DEF IInv, TypeOK
  <2>2. issued' \in [Uuids -> Nat]
      BY <1>1 DEF IInv, TypeOK
  <2>3. artifacts' \subseteq Artifacts
      BY <1>1, <1>5 DEF IInv, TypeOK
  <2> QED BY <1>1, <2>1, <2>2, <2>3 DEF IInv, TypeOK
<1>8. Numbered'
  <2> SUFFICES ASSUME NEW a \in artifacts' PROVE a.n <= issued'[a.uuid]
      BY DEF Numbered
  <2>1. CASE a \in artifacts
    <3>1. a \in Artifacts /\ a.n <= issued[a.uuid]
        BY <2>1 DEF IInv, TypeOK, Numbered
    <3>2. a.n \in Nat /\ a.uuid \in Uuids
        BY <3>1 DEF Artifacts
    <3>3. issued[a.uuid] \in Nat
        BY <3>2 DEF IInv, TypeOK
    <3>4. issued'[a.uuid] \in {issued[a.uuid], issued[a.uuid] + 1}
        BY <1>1, <3>2
    <3> QED BY <3>1, <3>2, <3>3, <3>4
  <2>2. CASE a \notin artifacts
    <3>1. PICK u \in new : a = NextArtifact(u)
        BY <1>1, <2>2
    <3>2. u \in Uuids
        BY <1>2, <1>3
    <3>3. a.uuid = u /\ a.n = issued[u] + 1
        BY <1>5, <3>1
    <3>4. issued'[u] = issued[u] + 1 /\ issued[u] \in Nat
        BY <1>1, <3>2 DEF IInv, TypeOK
    <3> QED BY <3>3, <3>4
  <2> QED BY <2>1, <2>2
<1>9. \A u \in Uuids : u \notin new =>
          /\ invitations'[u] # NoValue => invitations[u] # NoValue
          /\ invitations[u] # NoValue =>
                /\ invitations'[u].artifact = invitations[u].artifact
                /\ invitations'[u].acceptance = invitations[u].acceptance
    BY <1>2, <1>4, <1>6
<1>10. \A u \in new : /\ u \in Uuids /\ invitations[u] # NoValue
                      /\ invitations'[u].artifact = NextArtifact(u)
                      /\ invitations'[u].acceptance = NoValue
    BY <1>2, <1>3, <1>5, <1>6
<1>11. \A u \in new : NextArtifact(u) \in artifacts'
    BY <1>1
<1>12. RecordsHoldIssued'
    BY <1>1, <1>5, <1>9, <1>10, <1>11 DEF IInv, RecordsHoldIssued
<1>13. TakenWereSigned' /\ OneAcceptancePerArtifact'
    BY <1>1 DEF IInv, TakenWereSigned, OneAcceptancePerArtifact
<1>14. \A u \in Uuids : u \notin new /\ invitations[u] # NoValue =>
           \A row \in consumed :
               row.artifact = invitations[u].artifact => row \in consumed'
  <2> SUFFICES ASSUME NEW u \in Uuids, u \notin new, invitations[u] # NoValue,
                      NEW row \in consumed,
                      row.artifact = invitations[u].artifact
               PROVE  row \in consumed'
      OBVIOUS
  <2>1. row.artifact # NoValue
      BY NoValueDistinct DEF IInv, TypeOK, ConsumedRows
  <2>2. row.artifact.uuid = u
      BY <2>1 DEF IInv, RecordsHoldIssued
  <2>3. \A w \in new : row.artifact # invitations[w].artifact
      BY <1>10, <2>1, <2>2 DEF IInv, RecordsHoldIssued
  <2> QED BY <1>1, <2>3
<1>15. CurrentIsRemembered'
  <2>1. consumed' \subseteq accepted'
      BY <1>1 DEF IInv, CurrentIsRemembered
  <2>2. \A u \in new : \A row \in accepted : row.artifact # NextArtifact(u)
      BY <1>5 DEF IInv, TakenWereSigned
  <2>3. ASSUME NEW u \in Uuids, invitations'[u] # NoValue,
               NEW row \in accepted, row.artifact = invitations'[u].artifact
        PROVE  row \in consumed'
    <3>1. u \notin new
        BY <1>10, <2>2, <2>3
    <3>2. invitations[u] # NoValue /\ row.artifact = invitations[u].artifact
        BY <1>9, <2>3, <3>1
    <3>3. row \in consumed
        BY <3>2 DEF IInv, CurrentIsRemembered
    <3> QED BY <1>14, <3>1, <3>2, <3>3
  <2> QED BY <1>1, <2>1, <2>3 DEF CurrentIsRemembered
<1>16. Backed'
  <2> SUFFICES ASSUME NEW u \in Uuids, invitations'[u] # NoValue,
                      invitations'[u].acceptance # NoValue
               PROVE  [artifact |-> invitations'[u].artifact,
                       id |-> invitations'[u].acceptance] \in consumed'
      BY DEF Backed
  <2>1. u \notin new
      BY <1>10
  <2>2. /\ invitations[u] # NoValue
        /\ invitations'[u].artifact = invitations[u].artifact
        /\ invitations'[u].acceptance = invitations[u].acceptance
      BY <1>9, <2>1
  <2>3. [artifact |-> invitations[u].artifact,
         id |-> invitations[u].acceptance] \in consumed
      BY <2>2 DEF IInv, Backed
  <2> QED BY <1>14, <2>1, <2>2, <2>3
<1> QED BY <1>7, <1>8, <1>12, <1>13, <1>15, <1>16 DEF IInv

(* BuildAcceptance adds to what invitees have signed.                      *)
LEMMA BuildStep ==
    ASSUME IInv, NEW a \in artifacts, NEW id \in AcceptanceIds,
           BuildAcceptance(a, id)
    PROVE  IInv'
<1>1. /\ acceptances' = acceptances \cup {[id |-> id, artifact |-> a]}
      /\ UNCHANGED <<invitations, artifacts, issued, expired, consumed,
                     conditions, contracts, joining, accepted>>
    BY DEF BuildAcceptance
<1>2. TypeOK'
    BY <1>1 DEF IInv, TypeOK, Acceptances
<1>3. TakenWereSigned'
    BY <1>1 DEF IInv, TakenWereSigned
<1>4. Numbered' /\ RecordsHoldIssued' /\ CurrentIsRemembered' /\ Backed'
      /\ OneAcceptancePerArtifact'
    BY <1>1 DEF IInv, Numbered, RecordsHoldIssued, CurrentIsRemembered, Backed,
                OneAcceptancePerArtifact
<1> QED BY <1>2, <1>3, <1>4 DEF IInv

(* AcceptInvitationArtifact: the current artifact's rows are all still in  *)
(* the consumed table, so a second acceptance is noticed.                  *)
LEMMA AcceptStep ==
    ASSUME IInv, NEW x \in acceptances, NEW a \in artifacts,
           AcceptInvitationArtifact(x, a)
    PROVE  IInv'
<1> DEFINE row == [artifact |-> a, id |-> x.id]
           u == a.uuid
<1>1. /\ x \in acceptances /\ x.artifact = a
      /\ invitations[u] # NoValue /\ invitations[u].artifact = a
      /\ row \in consumed \/ \A r \in consumed : r.artifact # a /\ r.id # x.id
      /\ invitations' = [invitations EXCEPT ![u] =
             [@ EXCEPT !.status = "accepted", !.artifact = a, !.acceptance = x.id]]
      /\ consumed' = {r \in consumed : r.artifact # a} \cup {row}
      /\ accepted' = accepted \cup {row}
      /\ UNCHANGED <<artifacts, issued, expired, acceptances, conditions,
                     contracts, joining>>
    BY DEF AcceptInvitationArtifact, VerifyAcceptance, Acceptable
<1>2. /\ a \in Artifacts /\ u \in Uuids /\ x.id \in AcceptanceIds
      /\ row \in ConsumedRows /\ row.artifact = a /\ row.id = x.id
    BY DEF IInv, TypeOK, Acceptances, Artifacts, ConsumedRows
<1>3. invitations[u] \in Records
    BY <1>1, <1>2 DEF IInv, TypeOK
<1>4. /\ invitations'[u] \in Records
      /\ invitations'[u].artifact = a /\ invitations'[u].acceptance = x.id
  <2>1. invitations'[u] = [invitations[u] EXCEPT
            !.status = "accepted", !.artifact = a, !.acceptance = x.id]
      BY <1>1, <1>2 DEF IInv, TypeOK
  <2> QED BY <1>2, <1>3, <2>1 DEF Records, Statuses
<1>5. \A w \in Uuids : w # u => invitations'[w] = invitations[w]
    BY <1>1, <1>2 DEF IInv, TypeOK
<1>6. [id |-> x.id, artifact |-> a] = x
    BY <1>1 DEF IInv, TypeOK, Acceptances
<1> HIDE DEF row, u
<1>7. TypeOK'
  <2>1. invitations' \in [Uuids -> Records \cup {NoValue}]
      BY <1>1, <1>2, <1>4, <1>5 DEF IInv, TypeOK
  <2> QED BY <1>1, <1>2, <2>1 DEF IInv, TypeOK
<1>8. \A r \in accepted : r.artifact = a => r.id = x.id
  <2> SUFFICES ASSUME NEW r \in accepted, r.artifact = a PROVE r.id = x.id
      OBVIOUS
  <2>1. r \in consumed
      BY <1>1, <1>2 DEF IInv, CurrentIsRemembered
  <2>2. row \in consumed
      BY <1>1, <2>1
  <2> QED BY <1>2, <2>1, <2>2 DEF IInv, CurrentIsRemembered,
                                   OneAcceptancePerArtifact
<1>9. OneAcceptancePerArtifact'
    BY <1>1, <1>2, <1>8 DEF IInv, OneAcceptancePerArtifact
<1>10. Numbered'
    BY <1>1 DEF IInv, Numbered
<1>11. RecordsHoldIssued'
    BY <1>1, <1>4, <1>5 DEF IInv, RecordsHoldIssued, u
<1>12. TakenWereSigned'
  <2>1. [id |-> row.id, artifact |-> row.artifact] \in acceptances'
      BY <1>1, <1>2, <1>6
  <2> QED BY <1>1, <1>2, <2>1 DEF IInv, TakenWereSigned
<1>13. \A w \in Uuids : w # u /\ invitations[w] # NoValue =>
           invitations[w].artifact # a
    BY <1>2, NoValueDistinct DEF IInv, RecordsHoldIssued, u
<1>14. CurrentIsRemembered'
  <2>1. consumed' \subseteq accepted'
      BY <1>1 DEF IInv, CurrentIsRemembered
  <2>2. ASSUME NEW w \in Uuids, invitations'[w] # NoValue,
               NEW r \in accepted', r.artifact = invitations'[w].artifact
        PROVE  r \in consumed'
    <3>1. CASE w = u
      <4>1. r.artifact = a
          BY <1>4, <2>2, <3>1
      <4>2. r.id = x.id
          BY <1>1, <1>2, <1>8, <4>1
      <4>3. r \in ConsumedRows
          BY <1>1, <1>2 DEF IInv, TypeOK
      <4>4. r = row
          BY <1>2, <4>1, <4>2, <4>3 DEF ConsumedRows
      <4> QED BY <1>1, <4>4
    <3>2. CASE w # u
      <4>1. invitations[w] # NoValue /\ r.artifact = invitations[w].artifact
          BY <1>5, <2>2, <3>2
      <4>2. r.artifact # a
          BY <1>13, <3>2, <4>1
      <4>3. r \in accepted
          BY <1>1, <1>2, <4>2
      <4> QED BY <1>1, <4>1, <4>2, <4>3 DEF IInv, CurrentIsRemembered
    <3> QED BY <3>1, <3>2
  <2> QED BY <2>1, <2>2 DEF CurrentIsRemembered
<1>15. Backed'
  <2> SUFFICES ASSUME NEW w \in Uuids, invitations'[w] # NoValue,
                      invitations'[w].acceptance # NoValue
               PROVE  [artifact |-> invitations'[w].artifact,
                       id |-> invitations'[w].acceptance] \in consumed'
      BY DEF Backed
  <2>1. CASE w = u
      BY <1>1, <1>4, <2>1 DEF row
  <2>2. CASE w # u
    <3>1. [artifact |-> invitations[w].artifact,
           id |-> invitations[w].acceptance] \in consumed
        BY <1>5, <2>2 DEF IInv, Backed
    <3> QED BY <1>1, <1>5, <1>13, <2>2, <3>1
  <2> QED BY <2>1, <2>2
<1> QED BY <1>7, <1>9, <1>10, <1>11, <1>12, <1>14, <1>15 DEF IInv

(* UpdateStatuses touches nothing but the status.                          *)
LEMMA UpdateStep ==
    ASSUME IInv, NEW T \in SUBSET Uuids, NEW status \in Statuses,
           UpdateStatuses(T, status)
    PROVE  IInv'
<1> DEFINE upd(u) == [invitations[u] EXCEPT !.status = status]
<1>1. /\ T \subseteq Invited
      /\ invitations' = [u \in Uuids |->
                            IF u \in T THEN upd(u) ELSE invitations[u]]
      /\ UNCHANGED <<artifacts, issued, expired, consumed, acceptances,
                     conditions, contracts, joining, accepted>>
    BY DEF UpdateStatuses
<1>2. \A u \in T : /\ invitations[u] # NoValue
                   /\ upd(u) \in Records
                   /\ upd(u).artifact = invitations[u].artifact
                   /\ upd(u).acceptance = invitations[u].acceptance
  <2> TAKE u \in T
  <2>1. invitations[u] # NoValue
      BY <1>1 DEF Invited
  <2>2. invitations[u] \in Records
      BY <2>1 DEF IInv, TypeOK
  <2> QED BY <2>1, <2>2 DEF Records
<1> HIDE DEF upd
<1>3. TypeOK'
    BY <1>1, <1>2 DEF IInv, TypeOK
<1>4. \A u \in Uuids :
          /\ invitations'[u] # NoValue => invitations[u] # NoValue
          /\ invitations[u] # NoValue =>
                /\ invitations'[u].artifact = invitations[u].artifact
                /\ invitations'[u].acceptance = invitations[u].acceptance
    BY <1>1, <1>2
<1>5. Numbered' /\ TakenWereSigned' /\ OneAcceptancePerArtifact'
    BY <1>1 DEF IInv, Numbered, TakenWereSigned, OneAcceptancePerArtifact
<1>6. RecordsHoldIssued'
    BY <1>1, <1>4 DEF IInv, RecordsHoldIssued
<1>7. CurrentIsRemembered'
    BY <1>1, <1>4 DEF IInv, CurrentIsRemembered
<1>8. Backed'
    BY <1>1, <1>4 DEF IInv, Backed
<1> QED BY <1>3, <1>5, <1>6, <1>7, <1>8 DEF IInv

(* ClearInvites leaves no record that could be current.                    *)
LEMMA ClearStep ==
    ASSUME IInv, ClearInvites
    PROVE  IInv'
<1>1. TypeOK'
    BY DEF IInv, TypeOK, ClearInvites
<1>2. Numbered' /\ TakenWereSigned' /\ OneAcceptancePerArtifact'
    BY DEF IInv, Numbered, TakenWereSigned, OneAcceptancePerArtifact, ClearInvites
<1>3. RecordsHoldIssued' /\ CurrentIsRemembered' /\ Backed'
    BY DEF RecordsHoldIssued, CurrentIsRemembered, Backed, ClearInvites
<1> QED BY <1>1, <1>2, <1>3 DEF IInv

(* The steps that leave the invitations alone.                             *)
LEMMA OtherSteps ==
    ASSUME IInv, TypeOK',
           UNCHANGED <<invitations, artifacts, issued, consumed, acceptances,
                       accepted>>
    PROVE  IInv'
BY DEF IInv, Numbered, RecordsHoldIssued, TakenWereSigned, CurrentIsRemembered,
       Backed, OneAcceptancePerArtifact

(* Every step of the chat preserves the inductive invariant.               *)
LEMMA NextIInv == IInv /\ [Next]_vars => IInv'
<1> SUFFICES ASSUME IInv, [Next]_vars PROVE IInv'
    OBVIOUS
<1>1. ASSUME NEW u \in Uuids, NEW k \in Keys, InviteIdentities(u, k)
      PROVE  IInv'
    BY <1>1, InviteStep
<1>2. ASSUME NEW T \in SUBSET Uuids, NEW F \in SUBSET T,
             GenerateInvitationArtifacts(T, F)
      PROVE  IInv'
    BY <1>2, GenerateStep
<1>3. ASSUME NEW a \in artifacts, NEW id \in AcceptanceIds,
             BuildAcceptance(a, id)
      PROVE  IInv'
    BY <1>3, BuildStep
<1>4. ASSUME NEW x \in acceptances, NEW a \in artifacts,
             AcceptInvitationArtifact(x, a)
      PROVE  IInv'
    BY <1>4, AcceptStep
<1>5. ASSUME NEW T \in SUBSET Uuids,
             NEW status \in {"accepted", "declined", "revoked"},
             UpdateStatuses(T, status)
      PROVE  IInv'
  <2>1. status \in Statuses
      BY DEF Statuses
  <2> QED BY <1>5, <2>1, UpdateStep
<1>6. CASE ClearInvites
    BY <1>6, ClearStep
<1>7. ASSUME NEW C \in SUBSET ConditionNames, SetAdmissionConditions(C)
      PROVE  IInv'
  <2>1. TypeOK'
      BY <1>7 DEF IInv, TypeOK, SetAdmissionConditions
  <2> QED BY <1>7, <2>1, OtherSteps DEF SetAdmissionConditions
<1>8. ASSUME NEW r \in Requesters, NEW approved \in BOOLEAN,
             RequestAgreement(r, approved)
      PROVE  IInv'
  <2>1. [remaining |-> conditions, approved |-> approved] \in Joins
      BY <1>8 DEF IInv, TypeOK, Joins, RequestAgreement
  <2>2. TypeOK'
      BY <1>8, <2>1 DEF IInv, TypeOK, RequestAgreement
  <2> QED BY <1>8, <2>2, OtherSteps DEF RequestAgreement
<1>9. ASSUME NEW r \in Requesters, ApproveAgreement(r)
      PROVE  IInv'
  <2>1. SignedContract(r, TRUE) \in Contracts
      BY DEF IInv, TypeOK, SignedContract, Contracts
  <2>2. TypeOK'
      BY <1>9, <2>1 DEF IInv, TypeOK, ApproveAgreement
  <2> QED BY <1>9, <2>2, OtherSteps DEF ApproveAgreement
<1>10. ASSUME NEW r \in Requesters, NEW name \in ConditionNames,
              CheckCondition(r, name)
       PROVE  IInv'
  <2> DEFINE next == IF ConditionHolds(name, r)
                     THEN [joining[r] EXCEPT !.remaining = @ \ {name}]
                     ELSE NoValue
  <2>1. /\ joining[r] \in Joins
        /\ ConditionHolds(name, r) => joining[r].remaining \ {name} # {}
      BY <1>10 DEF IInv, TypeOK, CheckCondition
  <2>2. next \in Joins \cup {NoValue}
      BY <2>1 DEF Joins
  <2>3. UNCHANGED <<invitations, artifacts, issued, expired, consumed,
                    acceptances, conditions, contracts, accepted>>
      BY <1>10 DEF CheckCondition
  <2>4. joining' \in [Requesters -> Joins \cup {NoValue}]
    <3>1. CASE ConditionHolds(name, r)
      <4>1. joining' = [joining EXCEPT ![r] =
                            [joining[r] EXCEPT !.remaining = @ \ {name}]]
          BY <1>10, <3>1 DEF CheckCondition, IInv, TypeOK
      <4> QED BY <2>2, <3>1, <4>1 DEF IInv, TypeOK
    <3>2. CASE ~ConditionHolds(name, r)
      <4>1. joining' = [joining EXCEPT ![r] = NoValue]
          BY <1>10, <3>2 DEF CheckCondition
      <4> QED BY <4>1 DEF IInv, TypeOK
    <3> QED BY <3>1, <3>2
  <2>5. TypeOK'
      BY <2>3, <2>4 DEF IInv, TypeOK
  <2> QED BY <2>3, <2>5, OtherSteps
<1>11. ASSUME NEW r \in Requesters, NEW name \in ConditionNames,
              SignContract(r, name)
       PROVE  IInv'
  <2>1. joining[r] \in Joins
      BY <1>11 DEF IInv, TypeOK, SignContract
  <2>2. SignedContract(r, joining[r].approved) \in Contracts
      BY <2>1 DEF IInv, TypeOK, SignedContract, Contracts, Joins
  <2>3. TypeOK'
      BY <1>11, <2>2 DEF IInv, TypeOK, SignContract
  <2> QED BY <1>11, <2>3, OtherSteps DEF SignContract
<1>12. ASSUME NEW u \in Uuids, RemoveContracts(u)
       PROVE  IInv'
  <2>1. TypeOK'
      BY <1>12 DEF IInv, TypeOK, RemoveContracts
  <2> QED BY <1>12, <2>1, OtherSteps DEF RemoveContracts
<1>13. ASSUME NEW u \in Uuids, ExpireArtifact(u)
       PROVE  IInv'
  <2>1. TypeOK'
      BY <1>13 DEF IInv, TypeOK, ExpireArtifact
  <2> QED BY <1>13, <2>1, OtherSteps DEF ExpireArtifact
<1>14. ASSUME NEW c \in contracts, ExpireContract(c)
       PROVE  IInv'
  <2>1. TypeOK'
      BY <1>14 DEF IInv, TypeOK, ExpireContract
  <2> QED BY <1>14, <2>1, OtherSteps DEF ExpireContract
<1>15. CASE UNCHANGED vars
  <2>1. TypeOK'
      BY <1>15 DEF IInv, TypeOK, vars
  <2> QED BY <1>15, <2>1, OtherSteps DEF vars
<1> QED BY <1>1, <1>2, <1>3, <1>4, <1>5, <1>6, <1>7, <1>8, <1>9, <1>10, <1>11,
           <1>12, <1>13, <1>14, <1>15 DEF Next

(* The inductive invariant holds in every state of the chat.               *)
THEOREM ChatInvariance == Spec => []IInv
BY InitIInv, NextIInv, PTL DEF Spec

(* The fields keep their types (cells/chat.py, general_cell.py).           *)
THEOREM ChatTypeCorrect == Spec => []TypeOK
<1>1. IInv => TypeOK
    BY DEF IInv
<1> QED BY <1>1, ChatInvariance, PTL

(* accept_invitation_artifact takes one acceptance per artifact, ever.     *)
THEOREM SingleAcceptance == Spec => []OneAcceptancePerArtifact
<1>1. IInv => OneAcceptancePerArtifact
    BY DEF IInv
<1> QED BY <1>1, ChatInvariance, PTL

(* An acceptance in a record is in the consumed table.                     *)
THEOREM RecordsBacked == Spec => []AcceptedRecordIsBacked
<1>1. IInv => AcceptedRecordIsBacked
    BY DEF IInv, Backed, AcceptedRecordIsBacked, Invited
<1> QED BY <1>1, ChatInvariance, PTL

(* invitationAccepted holds only where the invitee signed (chat.py,        *)
(* admission_condition_holds).                                             *)
THEOREM SignedAdmission == Spec => []AdmissionIsSigned
<1>1. ASSUME IInv PROVE AdmissionIsSigned
  <2> SUFFICES ASSUME NEW r \in Requesters,
                      ConditionHolds("invitationAccepted", r)
               PROVE  /\ [id |-> invitations[r.uuid].acceptance,
                          artifact |-> invitations[r.uuid].artifact]
                             \in acceptances
                      /\ invitations[r.uuid].artifact.uuid = r.uuid
      BY DEF AdmissionIsSigned
  <2> DEFINE u == r.uuid
             row == [artifact |-> invitations[u].artifact,
                     id |-> invitations[u].acceptance]
  <2>1. /\ u \in Uuids /\ invitations[u] # NoValue
        /\ invitations[u].artifact # NoValue /\ row \in consumed
      BY DEF ConditionHolds, IsMember, Requesters
  <2>2. row \in accepted
      BY <1>1, <2>1 DEF IInv, CurrentIsRemembered
  <2>3. [id |-> row.id, artifact |-> row.artifact] \in acceptances
      BY <1>1, <2>2 DEF IInv, TakenWereSigned
  <2>4. invitations[u].artifact.uuid = u
      BY <1>1, <2>1 DEF IInv, RecordsHoldIssued
  <2> QED BY <2>3, <2>4
<1> QED BY <1>1, ChatInvariance, PTL

(* inspect and accept_invitation_artifact agree on what can be accepted.   *)
THEOREM InspectAgrees == Spec => []AcceptableIsIssued
<1>1. ASSUME IInv PROVE AcceptableIsIssued
  <2> SUFFICES ASSUME NEW x \in acceptances,
                      VerifyInvitation(x.artifact),
                      Acceptable(x.artifact, x.id),
                      [artifact |-> x.artifact, id |-> x.id] \notin accepted
               PROVE  Inspect(x.artifact) = "issued"
      BY DEF AcceptableIsIssued
  <2> DEFINE a == x.artifact
             rec == invitations[a.uuid]
  <2>1. a \in Artifacts /\ a.uuid \in Uuids /\ a # NoValue
      BY <1>1, NoValueDistinct DEF IInv, TypeOK, Acceptances, Artifacts
  <2>2. rec # NoValue /\ rec.artifact = a /\ rec.status \notin {"revoked", "declined"}
      BY DEF Acceptable
  <2>3. [artifact |-> a, id |-> x.id] \notin consumed
      BY <1>1 DEF IInv, CurrentIsRemembered
  <2>4. \A row \in consumed : row.artifact # a
      BY <2>3 DEF Acceptable
  <2>5. rec.acceptance = NoValue
      BY <1>1, <2>1, <2>2, <2>4 DEF IInv, Backed
  <2>6. Unexpired(a)
      BY DEF VerifyInvitation
  <2>7. ArtifactState(rec) = "issued"
      BY <2>1, <2>2, <2>5, <2>6 DEF ArtifactState
  <2> QED BY <2>1, <2>2, <2>7 DEF Inspect, Invited
<1> QED BY <1>1, ChatInvariance, PTL

(* No withdrawing step makes a condition hold that did not.                *)
LEMMA WithdrawnConditions ==
    ASSUME IInv, Withdraws, NEW r \in Requesters,
           NEW name \in ConditionNames, ConditionHolds(name, r)'
    PROVE  ConditionHolds(name, r)
<1> DEFINE u == r.uuid
<1>0. u \in Uuids
    BY DEF Requesters
<1>1. ASSUME NEW T \in SUBSET Uuids, NEW status \in {"declined", "revoked"},
             UpdateStatuses(T, status)
      PROVE  ConditionHolds(name, r)
  <2>1. u \notin T
    <3>1. SUFFICES ASSUME u \in T PROVE FALSE
        OBVIOUS
    <3>2. invitations[u] \in Records
        BY <1>0, <1>1, <3>1 DEF UpdateStatuses, Invited, IInv, TypeOK
    <3>3. invitations'[u].status = status
        BY <1>0, <1>1, <3>1, <3>2 DEF UpdateStatuses, Records
    <3> QED BY <3>3 DEF ConditionHolds, IsMember
  <2>2. invitations'[u] = invitations[u]
      BY <1>0, <1>1, <2>1 DEF UpdateStatuses
  <2> QED BY <1>1, <2>2 DEF UpdateStatuses, ConditionHolds, IsMember, Unexpired
<1>2. ASSUME NEW T \in SUBSET Uuids, NEW F \in SUBSET T,
             GenerateInvitationArtifacts(T, F)
      PROVE  ConditionHolds(name, r)
  <2> DEFINE new == Reissued(T) \ F
  <2>1. /\ T \subseteq Invited
        /\ invitations' =
               [w \in Uuids |->
                   IF w \in new THEN ReissuedRecord(w)
                   ELSE IF w \in F
                   THEN [invitations[w] EXCEPT
                             !.status = IF @ = "declined" THEN "pending" ELSE @]
                   ELSE invitations[w]]
        /\ consumed' \subseteq consumed /\ expired' = expired
        /\ new \subseteq T
      BY <1>2 DEF GenerateInvitationArtifacts, Eligible, Reissued
  <2> HIDE DEF new
  <2>2. CASE u \in new
    <3>1. invitations[u] \in Records /\ invitations[u] # NoValue
        BY <1>0, <2>1, <2>2 DEF Invited, IInv, TypeOK
    <3>2. invitations'[u] = ReissuedRecord(u)
        BY <1>0, <2>1, <2>2
    <3>3. /\ invitations'[u].acceptance = NoValue
          /\ invitations'[u].key = invitations[u].key
          /\ invitations'[u].status = "accepted" =>
                 invitations[u].status = "accepted"
        BY <3>1, <3>2 DEF ReissuedRecord, Records
    <3> QED BY <3>1, <3>3 DEF ConditionHolds, IsMember
  <2>3. CASE u \in F /\ u \notin new
    <3>1. invitations[u] \in Records /\ invitations[u] # NoValue
        BY <1>0, <2>1, <2>3 DEF Invited, IInv, TypeOK
    <3>2. /\ invitations'[u].acceptance = invitations[u].acceptance
          /\ invitations'[u].artifact = invitations[u].artifact
          /\ invitations'[u].key = invitations[u].key
          /\ invitations'[u].status = "accepted" =>
                 invitations[u].status = "accepted"
        BY <1>0, <2>1, <2>3, <3>1 DEF Records
    <3> QED BY <2>1, <3>1, <3>2 DEF ConditionHolds, IsMember, Unexpired
  <2>4. CASE u \notin F /\ u \notin new
    <3>1. invitations'[u] = invitations[u]
        BY <1>0, <2>1, <2>4
    <3> QED BY <2>1, <3>1 DEF ConditionHolds, IsMember, Unexpired
  <2> QED BY <2>2, <2>3, <2>4
<1>3. CASE ClearInvites
    BY <1>0, <1>3 DEF ClearInvites, ConditionHolds, IsMember
<1>4. ASSUME NEW w \in Uuids, RemoveContracts(w)
      PROVE  ConditionHolds(name, r)
    BY <1>4 DEF RemoveContracts, ConditionHolds, IsMember, Unexpired
<1>5. ASSUME NEW w \in Uuids, ExpireArtifact(w)
      PROVE  ConditionHolds(name, r)
  <2>1. /\ expired' = [expired EXCEPT ![w] = @ + 1]
        /\ UNCHANGED <<invitations, consumed>>
      BY <1>5 DEF ExpireArtifact
  <2>2. CASE name = "member"
      BY <2>1, <2>2 DEF ConditionHolds, IsMember
  <2>3. CASE name # "member"
    <3> DEFINE a == invitations[u].artifact
    <3>1. /\ IsMember(r) /\ a # NoValue
          /\ invitations[u].acceptance # NoValue
          /\ [artifact |-> a, id |-> invitations[u].acceptance] \in consumed
          /\ a.n > expired'[a.uuid]
        BY <2>1, <2>3 DEF ConditionHolds, IsMember, Unexpired
    <3>2. a \in Artifacts
        BY <1>0, <3>1 DEF IsMember, IInv, TypeOK, Records
    <3>3. a.n \in Nat /\ a.uuid \in Uuids
        BY <3>2 DEF Artifacts
    <3>4. /\ expired[a.uuid] \in Nat
          /\ expired'[a.uuid] \in {expired[a.uuid], expired[a.uuid] + 1}
        BY <2>1, <3>3 DEF IInv, TypeOK
    <3>5. a.n > expired[a.uuid]
        BY <3>1, <3>3, <3>4
    <3> QED BY <3>1, <3>5 DEF ConditionHolds, Unexpired
  <2> QED BY <2>2, <2>3
<1>6. ASSUME NEW c \in contracts, ExpireContract(c)
      PROVE  ConditionHolds(name, r)
    BY <1>6 DEF ExpireContract, ConditionHolds, IsMember, Unexpired
<1> QED BY <1>1, <1>2, <1>3, <1>4, <1>5, <1>6 DEF Withdraws

(* Declining, revoking, clearing, regenerating, removing and expiry never  *)
(* let anybody in (contract_allows).                                       *)
THEOREM NoAdmissionByWithdrawal == Spec => WithdrawalNeverAdmits
<1>1. ASSUME IInv, Withdraws, NEW r \in Requesters, Allows(r)'
      PROVE  Allows(r)
  <2>1. contracts' \subseteq contracts /\ conditions' = conditions
      BY <1>1 DEF Withdraws, UpdateStatuses, GenerateInvitationArtifacts,
                  ClearInvites, RemoveContracts, ExpireArtifact, ExpireContract
  <2>2. PICK c \in contracts' :
            /\ c.subject = r
            /\ c.conditions = conditions'
            /\ \A name \in c.conditions : ConditionHolds(name, r)'
      BY <1>1 DEF Allows
  <2>3. conditions \subseteq ConditionNames
      BY <1>1 DEF IInv, TypeOK
  <2>4. \A name \in c.conditions : ConditionHolds(name, r)
      BY <1>1, <2>1, <2>2, <2>3, WithdrawnConditions
  <2> QED BY <2>1, <2>2, <2>4 DEF Allows
<1>2. IInv => [Withdraws => \A r \in Requesters : Allows(r)' => Allows(r)]_vars
    BY <1>1
<1> QED BY <1>2, ChatInvariance, PTL DEF WithdrawalNeverAdmits

(* A revoked record changes only by the owner's act on it (chat.py,        *)
(* accept_invitation_artifact and generate_invitation_artifacts).          *)
THEOREM RevocationLasts == Spec => RevokedUntilReinstated
<1>1. ASSUME IInv, [Next]_vars, NEW u \in Invited,
             invitations[u].status = "revoked", ~Reinstated(u)
      PROVE  invitations'[u] = invitations[u]
  <2>0. u \in Uuids /\ invitations[u] # NoValue
      BY DEF Invited
  <2>1. ASSUME NEW w \in Uuids, NEW k \in Keys, InviteIdentities(w, k)
        PROVE  invitations'[u] = invitations[u]
    <3>1. w # u
        BY <1>1, <2>1 DEF Reinstated
    <3> QED BY <1>1, <2>0, <2>1, <3>1 DEF InviteIdentities, IInv, TypeOK
  <2>2. ASSUME NEW T \in SUBSET Uuids, NEW F \in SUBSET T,
               GenerateInvitationArtifacts(T, F)
        PROVE  invitations'[u] = invitations[u]
    <3>1. u \notin T
        BY <1>1, <2>2 DEF GenerateInvitationArtifacts, Eligible
    <3> QED BY <2>0, <2>2, <3>1 DEF GenerateInvitationArtifacts, Reissued
  <2>3. ASSUME NEW x \in acceptances, NEW a \in artifacts,
               AcceptInvitationArtifact(x, a)
        PROVE  invitations'[u] = invitations[u]
    <3>1. a.uuid # u
        BY <1>1, <2>3 DEF AcceptInvitationArtifact, Acceptable
    <3> QED BY <1>1, <2>0, <2>3, <3>1 DEF AcceptInvitationArtifact, IInv, TypeOK
  <2>4. ASSUME NEW T \in SUBSET Uuids,
               NEW status \in {"accepted", "declined", "revoked"},
               UpdateStatuses(T, status)
        PROVE  invitations'[u] = invitations[u]
    <3>1. u \notin T
        BY <1>1, <2>4 DEF Reinstated, Statuses
    <3> QED BY <2>0, <2>4, <3>1 DEF UpdateStatuses
  <2>5. ~ClearInvites
      BY <1>1 DEF Reinstated
  <2>6. UNCHANGED vars => invitations' = invitations
      BY DEF vars
  <2>7. ASSUME NEW r \in Requesters,
               \/ ApproveAgreement(r)
               \/ \E approved \in BOOLEAN : RequestAgreement(r, approved)
               \/ \E name \in ConditionNames :
                      CheckCondition(r, name) \/ SignContract(r, name)
        PROVE  invitations' = invitations
      BY <2>7 DEF ApproveAgreement, RequestAgreement, CheckCondition, SignContract
  <2>8. ASSUME NEW w \in Uuids, RemoveContracts(w) \/ ExpireArtifact(w)
        PROVE  invitations' = invitations
      BY <2>8 DEF RemoveContracts, ExpireArtifact
  <2>9. ASSUME NEW c \in contracts, ExpireContract(c)
        PROVE  invitations' = invitations
      BY <2>9 DEF ExpireContract
  <2>10. ASSUME NEW a \in artifacts, NEW id \in AcceptanceIds,
                BuildAcceptance(a, id)
         PROVE  invitations' = invitations
      BY <2>10 DEF BuildAcceptance
  <2>11. ASSUME NEW C \in SUBSET ConditionNames, SetAdmissionConditions(C)
         PROVE  invitations' = invitations
      BY <2>11 DEF SetAdmissionConditions
  <2> QED BY <1>1, <2>1, <2>2, <2>3, <2>4, <2>5, <2>6, <2>7, <2>8, <2>9,
             <2>10, <2>11 DEF Next
<1>2. IInv /\ [Next]_vars =>
          [\A u \in Invited :
               invitations[u].status = "revoked" /\ ~Reinstated(u) =>
                   invitations'[u] = invitations[u]]_vars
    BY <1>1
<1> QED BY <1>2, ChatInvariance, PTL DEF Spec, RevokedUntilReinstated
=============================================================================

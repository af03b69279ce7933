------------------------- MODULE BridgeChannelProofs -------------------------
(***************************************************************************)
(* Theorems about BridgeChannel for any numbers of connects, sessions,     *)
(* identities, keys and endpoints, and any lifetimes.                      *)
(***************************************************************************)
EXTENDS BridgeChannel, TLAPS

(* What a client remembers: its transcript is for its own connect, and it  *)
(* signs only after it has one and before it waits for the answer.         *)
ClientOK(c, r) ==
    /\ r.transcript # NoValue =>
        /\ r.transcript.clientNonce = c
        /\ r.transcript.identity = r.identity
        /\ r.transcript.endpoint = r.endpoint
    /\ r.state \in {"signing", "proofSent", "authenticated"} \/ r.signed
        => r.transcript # NoValue
    /\ r.state \in {"new", "helloSent", "signing"} => ~r.signed
    /\ r.state \in {"proofSent", "authenticated"} => r.signed

(* What a session remembers: a pending transcript is its own; it is        *)
(* admitted at most once, from the challenge it issued.                    *)
ServerOK(s, r) ==
    /\ r.pending # NoValue => r.pending.session = s /\ r.pending.endpoint = EndpointOf[s]
    /\ r.state = "challengeIssued" => r.pending # NoValue
    /\ r.state \in {"idle", "unauthenticated", "challengeIssued"}
        => r.admitted = NoValue /\ r.feeds = 0
    /\ r.state = "closing" => r.feeds > 0
    /\ r.state \in {"authenticated", "serving"} \/ r.feeds > 0
        => r.admitted # NoValue

(* How long an unadmitted session has been waiting.                        *)
WaitOK(r) ==
    r.state \in PreAuth =>
        /\ r.waitSince < r.deadline
        /\ clock.mono <= r.waitSince + PreAuthDeadline

ClientInv == \A c \in Connects : ClientOK(c, client[c])

ServerInv == \A s \in Sessions : ServerOK(s, server[s])

WaitInv == \A s \in Sessions : WaitOK(server[s])

(* Every proof on the network is the signature of the connect it names.    *)
ProofInv ==
    \A m \in net : m.type = "proof" =>
        LET t == m.signature.data IN
        /\ m.session = t.session
        /\ m.signature.key = KeyOf[t.identity]
        /\ client[t.clientNonce].signed
        /\ client[t.clientNonce].transcript = t

(* Every acknowledgement on the network is of an admission.                *)
AcceptedInv ==
    \A m \in net : m.type = "accepted" =>
        server[m.transcript.session].admitted = m.transcript

IInv ==
    /\ TypeOK /\ ClientInv /\ ServerInv /\ ProofInv /\ AcceptedInv /\ WaitInv
    /\ AdmissionAgreement /\ ConfirmedOnBothSides
    /\ OnlyAdmittedCommandsReachCell /\ NothingSentAfterExpiry

-----------------------------------------------------------------------------
(* Whatever arrives at a client or at a session is a frame.                *)
LEMMA ToClientType ==
    ASSUME TypeOK, NEW c \in Connects PROVE ToClient(c) \subseteq Frames
<1> SUFFICES ASSUME NEW n \in net, n.type = "challenge"
             PROVE  [n EXCEPT !.transcript =
                        [n.transcript EXCEPT !.endpoint = client[c].endpoint,
                                             !.identity = client[c].identity,
                                             !.clientNonce = c]] \in Frames
    BY DEF TypeOK, Frames, ToClient
<1>1. n \in ChallengeFrames
    BY DEF TypeOK, Frames, HelloFrames, ChallengeFrames, ProofFrames,
           AcceptedFrames, CommandFrames
<1> QED
    BY <1>1 DEF TypeOK, ClientRecords, ChallengeFrames, Transcripts, Frames

LEMMA ToSessionType ==
    ASSUME TypeOK, NEW s \in Sessions PROVE ToSession(s) \subseteq Frames
<1> SUFFICES ASSUME NEW n \in net, n.type = "proof"
             PROVE  [n EXCEPT !.session = s] \in Frames
    BY DEF TypeOK, Frames, ToSession
<1>1. n \in ProofFrames
    BY DEF TypeOK, Frames, HelloFrames, ChallengeFrames, ProofFrames,
           AcceptedFrames, CommandFrames
<1> QED BY <1>1 DEF ProofFrames, Frames

(* A step that replaces one client's record and nothing else, keeping what *)
(* the connect is and what it has signed, preserves the invariant.         *)
LEMMA ClientUpdate ==
    ASSUME IInv, NEW c \in Connects, NEW r \in ClientRecords,
           client' = [client EXCEPT ![c] = r],
           UNCHANGED <<server, net, clock, handled, sent>>,
           r.identity = client[c].identity, r.endpoint = client[c].endpoint,
           r.signed = client[c].signed,
           r.signed => r.transcript = client[c].transcript,
           ClientOK(c, r),
           r.state = "authenticated" =>
                server[r.transcript.session].admitted = r.transcript
    PROVE  IInv'
<1>1. TypeOK'
    BY DEF IInv, TypeOK
<1>2. ClientInv'
    BY DEF IInv, TypeOK, ClientInv, ClientOK
<1>3. ServerInv' /\ AcceptedInv' /\ WaitInv' /\ NothingSentAfterExpiry'
    BY DEF IInv, ServerInv, ServerOK, AcceptedInv, WaitInv, WaitOK, NothingSentAfterExpiry
<1>4. ProofInv'
    BY DEF IInv, TypeOK, ProofInv
<1>5. AdmissionAgreement'
    BY DEF IInv, TypeOK, AdmissionAgreement
<1>6. ConfirmedOnBothSides'
    BY DEF IInv, TypeOK, ConfirmedOnBothSides
<1>7. OnlyAdmittedCommandsReachCell'
    BY DEF IInv, TypeOK, OnlyAdmittedCommandsReachCell, ClientInv, ClientOK
<1> QED BY <1>1, <1>2, <1>3, <1>4, <1>5, <1>6, <1>7 DEF IInv

(* Every proof on the network names a connect and is a well-formed frame.  *)
LEMMA ProofFrameType ==
    ASSUME TypeOK, NEW m \in net
    PROVE  /\ m.type = "proof" => m \in ProofFrames
           /\ m.type = "accepted" => m \in AcceptedFrames
BY DEF TypeOK, Frames, HelloFrames, ChallengeFrames, ProofFrames,
       AcceptedFrames, CommandFrames

(* A step that replaces one session's record, keeping its admission, and   *)
(* records traffic only within it, preserves the invariant.  It may issue  *)
(* a challenge.                                                            *)
LEMMA ServerUpdate ==
    ASSUME IInv, NEW s \in Sessions, NEW r \in ServerRecords,
           server' = [server EXCEPT ![s] = r],
           UNCHANGED <<client, clock>>,
           net' = net \/ \E f \in ChallengeFrames : net' = net \cup {f},
           r.admitted = server[s].admitted,
           ServerOK(s, r), WaitOK(r),
           handled' = handled \/
                \E i \in {r.admitted.identity, NoValue} :
                    handled' = handled \cup {[session |-> s, identity |-> i,
                                              at |-> clock.server]},
           sent' = sent \/ sent' = sent \cup {[session |-> s, at |-> clock.server]},
           handled' # handled \/ sent' # sent =>
                r.admitted # NoValue /\ clock.server < r.admitted.expires
    PROVE  IInv'
<1>0. \A m \in net' : m.type \in {"proof", "accepted"} => m \in net
    BY DEF ChallengeFrames
<1>1. TypeOK'
    BY DEF IInv, TypeOK, ServerRecords, Transcripts, Clocks, Frames
<1>2. ClientInv' /\ ProofInv'
    BY <1>0 DEF IInv, ClientInv, ClientOK, ProofInv
<1>3. ServerInv'
    BY DEF IInv, TypeOK, ServerInv, ServerOK
<1>4. WaitInv'
    BY DEF IInv, TypeOK, WaitInv, WaitOK
<1>5. \A x \in Sessions : server'[x].admitted = server[x].admitted
    BY DEF IInv, TypeOK
<1>6. AcceptedInv'
    <2> SUFFICES ASSUME NEW m \in net, m.type = "accepted"
                 PROVE  server'[m.transcript.session].admitted = m.transcript
        BY <1>0 DEF AcceptedInv
    <2>1. m \in AcceptedFrames
        BY ProofFrameType DEF IInv
    <2> QED BY <2>1, <1>5 DEF IInv, AcceptedInv, AcceptedFrames, Transcripts
<1>7. AdmissionAgreement'
    BY <1>5 DEF IInv, AdmissionAgreement
<1>8. ConfirmedOnBothSides'
    BY <1>5 DEF IInv, TypeOK, ConfirmedOnBothSides, ClientInv, ClientOK,
                ClientRecords, Transcripts
<1>9. OnlyAdmittedCommandsReachCell'
    <2>1. \A h \in handled : h.session \in Sessions
        BY DEF IInv, TypeOK
    <2>2. r.admitted # NoValue =>
            \E c \in Connects :
                client[c].signed /\ client[c].transcript.session = s
        <3> SUFFICES ASSUME r.admitted # NoValue
                     PROVE  \E c \in Connects :
                                client[c].signed /\ client[c].transcript.session = s
            OBVIOUS
        <3>1. server[s].admitted \in Transcripts
            BY DEF IInv, TypeOK, ServerRecords
        <3>2. /\ client[server[s].admitted.clientNonce].signed
              /\ client[server[s].admitted.clientNonce].transcript.session = s
            BY DEF IInv, AdmissionAgreement
        <3> QED BY <3>1, <3>2 DEF Transcripts
    <2> QED BY <1>5, <2>1, <2>2 DEF IInv, OnlyAdmittedCommandsReachCell
<1>10. NothingSentAfterExpiry'
    BY <1>5 DEF IInv, TypeOK, NothingSentAfterExpiry
<1> QED
    BY <1>1, <1>2, <1>3, <1>4, <1>6, <1>7, <1>8, <1>9, <1>10 DEF IInv

(* A failing client and a failing session keep the invariant.              *)
LEMMA ClientFailInv ==
    ASSUME IInv, NEW c \in Connects, ClientFail(c) PROVE IInv'
<1> DEFINE r == [client[c] EXCEPT !.state = "closed"]
<1>1. r \in ClientRecords
    BY DEF IInv, TypeOK, ClientRecords, ClientStates
<1>2. ClientOK(c, r)
    BY DEF IInv, TypeOK, ClientInv, ClientOK, ClientRecords
<1>3. /\ r.identity = client[c].identity /\ r.endpoint = client[c].endpoint
      /\ r.signed = client[c].signed /\ r.transcript = client[c].transcript
      /\ r.state # "authenticated"
    BY DEF IInv, TypeOK, ClientRecords
<1> QED BY <1>1, <1>2, <1>3, ClientUpdate DEF ClientFail, SetClient

LEMMA ServerFailInv ==
    ASSUME IInv, NEW s \in Sessions, ServerFail(s) PROVE IInv'
<1>1. server[s] \in ServerRecords
    BY DEF IInv, TypeOK
<1>2. PICK state \in Cleanup(server[s].feeds, server[s].broken) :
            server' = [server EXCEPT ![s] = Failed(s, state)]
    BY DEF ServerFail, SetServer
<1>3. Failed(s, state) \in ServerRecords /\ Failed(s, state).admitted = server[s].admitted
    BY <1>1 DEF Failed, ServerRecords, ServerStates, Cleanup
<1>4. ServerOK(s, Failed(s, state)) /\ WaitOK(Failed(s, state))
    BY <1>1 DEF IInv, ServerInv, ServerOK, WaitOK, PreAuth, Failed, ServerRecords, Cleanup
<1> QED BY <1>2, <1>3, <1>4, ServerUpdate DEF ServerFail

(* A step that may change one client's record and send one frame, where a  *)
(* signature, once made, stays, and a new proof is the client's own.       *)
LEMMA ClientSends ==
    ASSUME IInv, NEW c \in Connects, NEW r \in ClientRecords, NEW f \in Frames,
           client' = [client EXCEPT ![c] = r],
           net' = net \cup {f},
           UNCHANGED <<server, clock, handled, sent>>,
           r.identity = client[c].identity, r.endpoint = client[c].endpoint,
           r.transcript = client[c].transcript,
           client[c].signed => r.signed,
           ClientOK(c, r),
           r.state # "authenticated",
           f.type # "accepted",
           f.type = "proof" =>
                /\ f.signature.data = r.transcript
                /\ r.transcript # NoValue
                /\ f.session = r.transcript.session
                /\ f.signature.key = KeyOf[r.identity]
                /\ r.signed
    PROVE  IInv'
<1>1. TypeOK'
    BY DEF IInv, TypeOK
<1>2. ClientInv'
    BY DEF IInv, TypeOK, ClientInv, ClientOK
<1>3. ServerInv' /\ WaitInv' /\ NothingSentAfterExpiry'
    BY DEF IInv, ServerInv, ServerOK, WaitInv, WaitOK, NothingSentAfterExpiry
<1>4. \A x \in Connects : /\ client[x].signed => client'[x].signed
                          /\ client'[x].transcript = client[x].transcript
                          /\ client'[x].identity = client[x].identity
                          /\ client'[x].endpoint = client[x].endpoint
                          /\ client'[x].state = "authenticated"
                                => client[x].state = "authenticated"
    BY DEF IInv, TypeOK
<1>5. AcceptedInv'
    BY DEF IInv, AcceptedInv
<1>6. ProofInv'
    <2> SUFFICES ASSUME NEW m \in net', m.type = "proof"
                 PROVE  LET t == m.signature.data IN
                        /\ m.session = t.session
                        /\ m.signature.key = KeyOf[t.identity]
                        /\ client'[t.clientNonce].signed
                        /\ client'[t.clientNonce].transcript = t
        BY DEF ProofInv
    <2>1. CASE m \in net
        <3>1. m.signature.data.clientNonce \in Connects
            BY <2>1, ProofFrameType DEF IInv, ProofFrames, Transcripts
        <3> QED BY <2>1, <3>1, <1>4 DEF IInv, ProofInv
    <2>2. CASE m = f
        BY <2>2 DEF IInv, TypeOK, ClientOK
    <2> QED BY <2>1, <2>2
<1>7. AdmissionAgreement'
    <2> SUFFICES ASSUME NEW s \in Sessions, server[s].admitted # NoValue
                 PROVE  LET t == server[s].admitted IN
                        /\ t.session = s /\ t.endpoint = EndpointOf[s]
                        /\ client'[t.clientNonce].signed
                        /\ client'[t.clientNonce].transcript = t
                        /\ client'[t.clientNonce].identity = t.identity
                        /\ client'[t.clientNonce].endpoint = EndpointOf[s]
        BY DEF AdmissionAgreement
    <2>1. server[s].admitted.clientNonce \in Connects
        BY DEF IInv, TypeOK, ServerRecords, Transcripts
    <2> QED BY <2>1, <1>4 DEF IInv, AdmissionAgreement
<1>8. ConfirmedOnBothSides'
    BY <1>4 DEF IInv, ConfirmedOnBothSides
<1>9. OnlyAdmittedCommandsReachCell'
    BY <1>4 DEF IInv, OnlyAdmittedCommandsReachCell
<1> QED
    BY <1>1, <1>2, <1>3, <1>5, <1>6, <1>7, <1>8, <1>9 DEF IInv

(* Every step of a client preserves the invariant.                         *)
LEMMA ClientStepInv ==
    ASSUME IInv, NEW c \in Connects, ClientStep(c) PROVE IInv'
<1>0. /\ client[c] \in ClientRecords /\ ClientOK(c, client[c])
      /\ net \subseteq Frames /\ clock \in Clocks
    BY DEF IInv, TypeOK, ClientInv
<1>1. CASE Hello(c)
    <2> DEFINE r == [client[c] EXCEPT !.state = "helloSent", !.startedAt = clock.mono]
               f == [type |-> "hello", identity |-> client[c].identity, clientNonce |-> c]
    <2>1. /\ clock.mono \in Nat
          /\ client[c].identity \in Identities
        BY <1>0 DEF Clocks, ClientRecords
    <2>a. r \in ClientRecords
        BY <1>0, <2>1 DEF ClientRecords, ClientStates
    <2>b. f \in Frames
        BY <2>1 DEF Frames, HelloFrames
    <2>2. /\ ClientOK(c, r)
          /\ r.identity = client[c].identity /\ r.endpoint = client[c].endpoint
          /\ r.transcript = client[c].transcript /\ r.signed = client[c].signed
          /\ r.state # "authenticated"
        BY <1>0, <1>1 DEF ClientRecords, ClientOK, Hello
    <2>3. f.type \notin {"accepted", "proof"}
        OBVIOUS
    <2> QED BY <1>1, <2>a, <2>b, <2>2, <2>3, ClientSends DEF Hello, SetClient
<1>2. CASE FinishChallenge(c)
    <2> DEFINE r == [client[c] EXCEPT !.state = "proofSent", !.signed = TRUE]
               f == [type |-> "proof", session |-> client[c].transcript.session,
                     signature |-> [key |-> KeyOf[client[c].identity],
                                    data |-> client[c].transcript]]
    <2>1. client[c].transcript \in Transcripts /\ client[c].transcript # NoValue
        BY <1>0, <1>2 DEF FinishChallenge, ClientOK, ClientRecords
    <2>2. r \in ClientRecords
        BY <1>0 DEF ClientRecords, ClientStates
    <2>3. KeyOf[client[c].identity] \in Keys
        BY <1>0, IdentityAssumption DEF ClientRecords
    <2>4. f \in Frames
        BY <2>1, <2>3 DEF Frames, ProofFrames, Transcripts
    <2>5. /\ ClientOK(c, r)
          /\ r.identity = client[c].identity /\ r.endpoint = client[c].endpoint
          /\ r.transcript = client[c].transcript /\ r.signed
          /\ r.state # "authenticated"
        BY <1>0, <2>1 DEF ClientRecords, ClientOK
    <2>6. /\ f.type # "accepted" /\ f.signature.data = r.transcript
          /\ f.session = r.transcript.session /\ f.signature.key = KeyOf[r.identity]
        BY <2>5
    <2> HIDE DEF r, f
    <2>7. client' = [client EXCEPT ![c] = r] /\ net' = net \cup {f}
        BY <1>2 DEF FinishChallenge, SetClient, r, f
    <2> QED
        BY <1>2, <2>1, <2>2, <2>4, <2>5, <2>6, <2>7, ClientSends DEF FinishChallenge
<1>3. ASSUME NEW m \in ToClient(c), BeginChallenge(c, m) PROVE IInv'
    <2> DEFINE r == [client[c] EXCEPT !.state = "signing", !.transcript = m.transcript]
    <2>1. m \in ChallengeFrames
        BY <1>3, ToClientType DEF IInv, BeginChallenge, MatchesConnect, Frames,
            HelloFrames, ChallengeFrames, ProofFrames, AcceptedFrames, CommandFrames
    <2>2. m.transcript \in Transcripts /\ m.transcript # NoValue
        BY <2>1, NoValueAssumption DEF ChallengeFrames
    <2>3. r \in ClientRecords
        BY <1>0, <2>2 DEF ClientRecords, ClientStates
    <2>4. /\ ClientOK(c, r)
          /\ r.identity = client[c].identity /\ r.endpoint = client[c].endpoint
          /\ r.signed = client[c].signed /\ ~r.signed /\ r.state # "authenticated"
        BY <1>0, <1>3, <2>2 DEF ClientRecords, ClientOK, BeginChallenge, MatchesConnect
    <2> QED BY <1>3, <2>3, <2>4, ClientUpdate DEF BeginChallenge, SetClient
<1>4. ASSUME NEW m \in ToClient(c), Accept(c, m) PROVE IInv'
    <2> DEFINE r == [client[c] EXCEPT !.state = "authenticated"]
    <2>1. m \in net
        <3>1. \A n \in net : n.type = "challenge" => n \in ChallengeFrames
            BY <1>0 DEF Frames, HelloFrames, ChallengeFrames, ProofFrames,
                        AcceptedFrames, CommandFrames
        <3>2. m.type = "accepted"
            BY <1>4 DEF Accept, Acknowledges
        <3> QED BY <1>4, <3>1, <3>2 DEF ToClient, CommandFrames, ChallengeFrames
    <2>2. server[m.transcript.session].admitted = m.transcript
        BY <1>4, <2>1 DEF IInv, AcceptedInv, Accept, Acknowledges
    <2>3. r \in ClientRecords
        BY <1>0 DEF ClientRecords, ClientStates
    <2>4. /\ ClientOK(c, r)
          /\ r.identity = client[c].identity /\ r.endpoint = client[c].endpoint
          /\ r.signed = client[c].signed /\ r.transcript = client[c].transcript
          /\ r.transcript = m.transcript
        BY <1>0, <1>4 DEF ClientRecords, ClientOK, Accept, Acknowledges
    <2> QED BY <1>4, <2>2, <2>3, <2>4, ClientUpdate DEF Accept, SetClient
<1>5. ASSUME \/ \E m \in ToClient(c) : ClientRefuse(c, m)
             \/ SigningFails(c) \/ ClientTimeout(c) \/ ClientDisconnect(c)
      PROVE  IInv'
    BY <1>5, ClientFailInv DEF ClientRefuse, SigningFails, ClientTimeout, ClientDisconnect
<1> QED BY <1>1, <1>2, <1>3, <1>4, <1>5 DEF ClientStep

(* Every step of the handshake's server side preserves the invariant.      *)
LEMMA AdmissionStepInv ==
    ASSUME IInv, NEW s \in Sessions, AdmissionStep(s) PROVE IInv'
<1>0. /\ server[s] \in ServerRecords /\ ServerOK(s, server[s])
      /\ WaitOK(server[s]) /\ clock \in Clocks
    BY DEF IInv, TypeOK, ServerInv, WaitInv
<1>a. clock.mono \in Nat /\ clock.server \in Int
      /\ PreAuthDeadline \in Nat \ {0} /\ ChannelLifetime \in Nat
    BY <1>0, TimeAssumption DEF Clocks
<1>1. CASE Open(s)
    <2> DEFINE r == [server[s] EXCEPT !.state = "unauthenticated",
                                      !.deadline = clock.mono + PreAuthDeadline,
                                      !.waitSince = clock.mono]
    <2>0. clock.mono + PreAuthDeadline \in Nat
        BY <1>a
    <2>1. r \in ServerRecords
        BY <1>0, <1>a, <2>0 DEF ServerRecords, ServerStates
    <2>2. ServerOK(s, r) /\ WaitOK(r) /\ r.admitted = server[s].admitted
        BY <1>0, <1>a, <1>1 DEF ServerRecords, ServerOK, WaitOK, PreAuth, Open
    <2> QED BY <1>1, <2>1, <2>2, ServerUpdate DEF Open, SetServer
<1>2. ASSUME NEW m \in ToSession(s), OnHello(s, m) PROVE IInv'
    <2> DEFINE t == Challenge(s, m)
               r == [server[s] EXCEPT !.state = "challengeIssued",
                                      !.pending = t, !.waitSince = clock.mono]
               f == [type |-> "challenge", transcript |-> t]
    <2>1. m \in HelloFrames
        BY <1>2, ToSessionType DEF IInv, OnHello, HelloHolds, Frames,
            HelloFrames, ChallengeFrames, ProofFrames, AcceptedFrames, CommandFrames
    <2>2. /\ t \in Transcripts /\ t # NoValue
          /\ t.session = s /\ t.endpoint = EndpointOf[s]
        BY <1>a, <2>1, EndpointAssumption, NoValueAssumption
            DEF Challenge, Transcripts, HelloFrames
    <2> HIDE DEF t
    <2>3. r \in ServerRecords /\ f \in ChallengeFrames
        BY <1>0, <1>a, <2>2 DEF ServerRecords, ServerStates, ChallengeFrames
    <2>4. ServerOK(s, r) /\ WaitOK(r) /\ r.admitted = server[s].admitted
        BY <1>0, <1>a, <1>2, <2>2
            DEF ServerRecords, ServerOK, WaitOK, PreAuth, OnHello, HelloHolds, PastDeadline
    <2>5. /\ server' = [server EXCEPT ![s] = r] /\ net' = net \cup {f}
          /\ UNCHANGED <<client, clock, handled, sent>>
        BY <1>2 DEF OnHello, SetServer, t
    <2> QED BY <2>3, <2>4, <2>5, ServerUpdate
<1>3. ASSUME NEW m \in ToSession(s), OnProof(s, m) PROVE IInv'
    <2> DEFINE t == server[s].pending
               c == t.clientNonce
               r == [server[s] EXCEPT !.state = "authenticated",
                                      !.pending = NoValue, !.admitted = t]
               f == [type |-> "accepted", transcript |-> t]
    <2>1. /\ t \in Transcripts /\ t # NoValue
          /\ t.session = s /\ t.endpoint = EndpointOf[s]
          /\ server[s].admitted = NoValue /\ server[s].feeds = 0
        BY <1>0, <1>3 DEF ServerRecords, ServerOK, OnProof
    <2>2. c \in Connects
        BY <2>1 DEF Transcripts
    <2>3. client[c].signed /\ client[c].transcript = t
        <3>1. m.type = "proof" /\ m.signature.data = t
            BY <1>3 DEF OnProof, ProofHolds, Verify
        <3>2. PICK n \in net : n.type = "proof" /\ n.signature = m.signature
            BY <1>3, <3>1, ProofFrameType
                DEF IInv, ToSession, HelloFrames, CommandFrames, ProofFrames
        <3> QED BY <3>1, <3>2 DEF IInv, ProofInv
    <2>4. client[c].identity = t.identity /\ client[c].endpoint = EndpointOf[s]
        BY <2>1, <2>2, <2>3 DEF IInv, ClientInv, ClientOK
    <2>5. r \in ServerRecords /\ f \in Frames
        BY <1>0, <2>1 DEF ServerRecords, ServerStates, Frames, AcceptedFrames
    <2>6. ServerOK(s, r) /\ WaitOK(r) /\ r.admitted = t
        BY <1>0, <2>1 DEF ServerRecords, ServerOK, WaitOK, PreAuth
    <2>7. /\ server' = [server EXCEPT ![s] = r] /\ net' = net \cup {f}
          /\ f.type = "accepted" /\ f.transcript = t
          /\ UNCHANGED <<client, clock, handled, sent>>
        BY <1>3 DEF OnProof, SetServer
    <2> HIDE DEF r, f
    <2>8. \A x \in Sessions :
            server'[x].admitted = IF x = s THEN t ELSE server[x].admitted
        BY <2>6, <2>7 DEF IInv, TypeOK
    <2>9. \A x \in Sessions : server[x].admitted # NoValue
                                => server'[x].admitted = server[x].admitted
        BY <2>1, <2>8
    <2>10. TypeOK'
        BY <2>5, <2>7 DEF IInv, TypeOK
    <2>11. ClientInv' /\ ProofInv'
        BY <2>7 DEF IInv, ClientInv, ClientOK, ProofInv
    <2>12. ServerInv' /\ WaitInv'
        BY <2>6, <2>7 DEF IInv, TypeOK, ServerInv, ServerOK, WaitInv, WaitOK
    <2>13. AcceptedInv'
        <3> SUFFICES ASSUME NEW n \in net', n.type = "accepted"
                     PROVE  server'[n.transcript.session].admitted = n.transcript
            BY DEF AcceptedInv
        <3>1. CASE n \in net
            <4>1. n.transcript \in Transcripts
                BY <3>1, ProofFrameType DEF IInv, AcceptedFrames
            <4> QED
                BY <2>9, <3>1, <4>1, NoValueAssumption DEF IInv, AcceptedInv, Transcripts
        <3>2. CASE n = f
            BY <2>1, <2>7, <2>8, <3>2
        <3> QED BY <2>7, <3>1, <3>2
    <2>14. AdmissionAgreement'
        BY <2>1, <2>3, <2>4, <2>7, <2>8 DEF IInv, AdmissionAgreement
    <2>15. ConfirmedOnBothSides'
        <3> SUFFICES ASSUME NEW x \in Connects, client[x].state = "authenticated"
                     PROVE  server'[client[x].transcript.session].admitted
                                = client[x].transcript
            BY <2>7 DEF ConfirmedOnBothSides
        <3>1. client[x].transcript \in Transcripts /\ client[x].transcript # NoValue
            BY DEF IInv, TypeOK, ClientRecords, ClientInv, ClientOK
        <3> QED BY <2>9, <3>1 DEF IInv, ConfirmedOnBothSides, Transcripts
    <2>16. OnlyAdmittedCommandsReachCell' /\ NothingSentAfterExpiry'
        BY <2>7, <2>9 DEF IInv, TypeOK, OnlyAdmittedCommandsReachCell, NothingSentAfterExpiry
    <2> QED BY <2>10, <2>11, <2>12, <2>13, <2>14, <2>15, <2>16 DEF IInv
<1>4. ASSUME \/ \E m \in ToSession(s) : PolicyRefuses(s, m) \/ ServerRefuse(s, m)
             \/ ServerTimeout(s) \/ PeerGone(s)
      PROVE  IInv'
    BY <1>4, ServerFailInv DEF PolicyRefuses, ServerRefuse, ServerTimeout, PeerGone
<1> QED BY <1>1, <1>2, <1>3, <1>4 DEF AdmissionStep

(* Every step of an admitted session preserves the invariant.              *)
LEMMA ServingStepInv ==
    ASSUME IInv, NEW s \in Sessions, ServingStep(s) PROVE IInv'
<1>0. /\ server[s] \in ServerRecords /\ ServerOK(s, server[s]) /\ WaitOK(server[s])
      /\ server \in [Sessions -> ServerRecords] /\ MaxFeeds \in Nat
    BY TimeAssumption DEF IInv, TypeOK, ServerInv, WaitInv
<1>a. server[s].admitted # NoValue =>
        server[s].admitted.expires \in Int /\ clock.server \in Int
    BY <1>0 DEF IInv, TypeOK, ServerRecords, Transcripts, Clocks
<1>1. CASE OpenEndpoint(s)
    <2> DEFINE r == [server[s] EXCEPT !.state = "serving"]
    <2>1. r \in ServerRecords
        BY <1>0 DEF ServerRecords, ServerStates
    <2>2. ServerOK(s, r) /\ WaitOK(r) /\ r.admitted = server[s].admitted
        BY <1>0, <1>1 DEF ServerRecords, ServerOK, WaitOK, PreAuth, OpenEndpoint
    <2> QED BY <1>1, <2>1, <2>2, ServerUpdate DEF OpenEndpoint, SetServer
<1>2. ASSUME NEW m \in ToSession(s), HandleCommand(s, m) PROVE IInv'
    <2> DEFINE r == [server[s] EXCEPT !.busy = TRUE]
    <2>1. r \in ServerRecords
        BY <1>0 DEF ServerRecords
    <2>2. /\ ServerOK(s, r) /\ WaitOK(r) /\ r.admitted = server[s].admitted
          /\ r.admitted # NoValue
        BY <1>0, <1>2 DEF ServerRecords, ServerOK, WaitOK, PreAuth, HandleCommand
    <2>3. /\ m.identity \in {r.admitted.identity, NoValue}
          /\ clock.server < r.admitted.expires
        BY <1>a, <1>2, <2>2 DEF HandleCommand, Check, Expired
    <2> QED BY <1>2, <2>1, <2>2, <2>3, ServerUpdate DEF HandleCommand, SetServer
<1>3. ASSUME NEW m \in ToSession(s), StartFeed(s, m) PROVE IInv'
    <2> DEFINE r == [server[s] EXCEPT !.feeds = @ + 1]
    <2>1. r \in ServerRecords
        BY <1>0, <1>3 DEF ServerRecords, StartFeed
    <2>2. /\ ServerOK(s, r) /\ WaitOK(r) /\ r.admitted = server[s].admitted
          /\ r.admitted # NoValue
        BY <1>0, <1>3 DEF ServerRecords, ServerOK, WaitOK, PreAuth, StartFeed
    <2>3. /\ m.identity \in {r.admitted.identity, NoValue}
          /\ clock.server < r.admitted.expires
        BY <1>a, <1>3, <2>2 DEF StartFeed, Check, Expired
    <2> QED BY <1>3, <2>1, <2>2, <2>3, ServerUpdate DEF StartFeed, SetServer
<1>4. CASE SendResponse(s) \/ SendFeed(s)
    <2>1. server[s].admitted # NoValue
        BY <1>0, <1>4 DEF ServerRecords, ServerOK, SendResponse, SendFeed, RunnableFeeds
    <2>2. clock.server < server[s].admitted.expires
        BY <1>a, <1>4, <2>1 DEF SendResponse, SendFeed, Expired
    <2>3. server' = [server EXCEPT ![s] = server[s]]
        BY <1>0, <1>4 DEF SendResponse, SendFeed
    <2> QED
        BY <1>0, <1>4, <2>1, <2>2, <2>3, ServerUpdate DEF SendResponse, SendFeed, Send
<1>5. CASE ResponsesDone(s)
    <2> DEFINE r == [server[s] EXCEPT !.busy = FALSE]
    <2>1. r \in ServerRecords
        BY <1>0 DEF ServerRecords
    <2>2. ServerOK(s, r) /\ WaitOK(r) /\ r.admitted = server[s].admitted
        BY <1>0 DEF ServerRecords, ServerOK, WaitOK
    <2> QED BY <1>5, <2>1, <2>2, ServerUpdate DEF ResponsesDone, SetServer
<1>6. CASE FeedEnds(s) \/ FeedRaises(s) \/ Discard(s)
    <2>1. PICK r : /\ server' = [server EXCEPT ![s] = r]
                   /\ \/ r = [server[s] EXCEPT !.feeds = @ - 1] /\ RunnableFeeds(s) > 0
                      \/ /\ r = [server[s] EXCEPT !.feeds = @ - 1, !.broken = TRUE]
                         /\ RunnableFeeds(s) > 0
                      \/ r = [server[s] EXCEPT !.broken = FALSE]
        BY <1>6 DEF FeedEnds, FeedRaises, Discard, SetServer
    <2>2. r \in ServerRecords
        <3>1. RunnableFeeds(s) > 0 => server[s].feeds - 1 \in 0..MaxFeeds
            BY <1>0 DEF ServerRecords, RunnableFeeds
        <3> QED BY <1>0, <2>1, <3>1 DEF ServerRecords
    <2>3. ServerOK(s, r) /\ WaitOK(r) /\ r.admitted = server[s].admitted
        BY <1>0, <2>1 DEF ServerRecords, ServerOK, WaitOK, RunnableFeeds
    <2> QED BY <1>6, <2>1, <2>2, <2>3, ServerUpdate DEF FeedEnds, FeedRaises, Discard
<1>7. CASE CancelFeed(s)
    <2>1. PICK state \in Cleanup(server[s].feeds - 1, server[s].broken) :
            server' = [server EXCEPT ![s] =
                          [server[s] EXCEPT !.feeds = @ - 1, !.state = state]]
        BY <1>7 DEF CancelFeed, SetServer
    <2> DEFINE r == [server[s] EXCEPT !.feeds = @ - 1, !.state = state]
    <2>2. server[s].feeds - 1 \in 0..MaxFeeds
        BY <1>0, <1>7 DEF ServerRecords, ServerOK, CancelFeed
    <2>3. r \in ServerRecords
        BY <1>0, <2>2 DEF ServerRecords, ServerStates, Cleanup
    <2>4. ServerOK(s, r) /\ WaitOK(r) /\ r.admitted = server[s].admitted
        BY <1>0, <1>7, <2>2 DEF ServerRecords, ServerOK, WaitOK, PreAuth, CancelFeed, Cleanup
    <2> QED BY <1>7, <2>1, <2>3, <2>4, ServerUpdate DEF CancelFeed
<1>8. ASSUME \/ \E m \in ToSession(s) : RefuseCommand(s, m)
             \/ Unavailable(s) \/ ResponseExpired(s)
      PROVE  IInv'
    BY <1>8, ServerFailInv DEF RefuseCommand, Unavailable, ResponseExpired
<1> QED BY <1>1, <1>2, <1>3, <1>4, <1>5, <1>6, <1>7, <1>8 DEF ServingStep

(* The passing of time and a corrected wall clock preserve the invariant.  *)
LEMMA ClockInv ==
    ASSUME IInv, Tick \/ ClockStep PROVE IInv'
<1>0. clock \in Clocks /\ MaxTime \in Nat /\ ClockSteps \subseteq Int
      /\ PreAuthDeadline \in Nat
    BY TimeAssumption DEF IInv, TypeOK
<1>1. UNCHANGED <<client, server, net, handled, sent>>
    BY DEF Tick, ClockStep
<1>2. clock' \in Clocks
    <2>1. CASE Tick
        <3>1. /\ clock.mono + 1 \in 0..MaxTime
              /\ clock.server + 1 \in Int /\ clock.client + 1 \in Int
            BY <1>0, <2>1 DEF Tick, Clocks
        <3> QED BY <1>0, <2>1, <3>1 DEF Tick, Clocks
    <2>2. CASE ClockStep
        <3>1. PICK d \in ClockSteps :
                \/ clock' = [clock EXCEPT !.server = @ + d, !.stepped = TRUE]
                \/ clock' = [clock EXCEPT !.client = @ + d, !.stepped = TRUE]
            BY <2>2 DEF ClockStep
        <3>2. clock.server + d \in Int /\ clock.client + d \in Int
            BY <1>0 DEF Clocks
        <3> QED BY <1>0, <3>1, <3>2 DEF Clocks
    <2> QED BY <2>1, <2>2
<1>3. TypeOK'
    BY <1>1, <1>2 DEF IInv, TypeOK
<1>4. WaitInv'
    <2> SUFFICES ASSUME NEW s \in Sessions, server[s].state \in PreAuth
                 PROVE  /\ server[s].waitSince < server[s].deadline
                        /\ clock'.mono <= server[s].waitSince + PreAuthDeadline
        BY <1>1 DEF WaitInv, WaitOK
    <2>1. /\ server[s].waitSince < server[s].deadline
          /\ clock.mono <= server[s].waitSince + PreAuthDeadline
          /\ server[s].waitSince \in Nat
        BY DEF IInv, WaitInv, WaitOK, TypeOK, ServerRecords
    <2>2. CASE Tick
        BY <1>0, <2>1, <2>2 DEF Tick, ServerTimerDue, Clocks
    <2>3. CASE ClockStep
        BY <1>0, <2>1, <2>3 DEF ClockStep, Clocks
    <2> QED BY <2>2, <2>3
<1> QED
    BY <1>1, <1>3, <1>4 DEF IInv, ClientInv, ServerInv, ClientOK, ServerOK, ProofInv,
        AcceptedInv, AdmissionAgreement, ConfirmedOnBothSides,
        OnlyAdmittedCommandsReachCell, NothingSentAfterExpiry

(* The invariant holds initially, and every step preserves it.             *)
THEOREM Invariance == Spec => []IInv
<1>1. Init => IInv
    <2> SUFFICES ASSUME Init PROVE IInv
        OBVIOUS
    <2>1. PICK id \in [Connects -> Identities], ep \in [Connects -> Endpoints] :
            client = [c \in Connects |->
                [state |-> "new", identity |-> id[c], endpoint |-> ep[c],
                 startedAt |-> 0, transcript |-> NoValue, signed |-> FALSE]]
        BY DEF Init
    <2>2. TypeOK
        BY <2>1, TimeAssumption
            DEF Init, TypeOK, ClientRecords, ClientStates, ServerRecords, ServerStates, Clocks
    <2>3. ClientInv
        BY <2>1 DEF ClientInv, ClientOK
    <2>4. ServerInv /\ WaitInv /\ AdmissionAgreement
        BY DEF Init, ServerInv, ServerOK, WaitInv, WaitOK, PreAuth, AdmissionAgreement
    <2>5. ConfirmedOnBothSides
        BY <2>1 DEF ConfirmedOnBothSides
    <2> QED
        BY <2>2, <2>3, <2>4, <2>5 DEF Init, IInv, ProofInv, AcceptedInv,
            OnlyAdmittedCommandsReachCell, NothingSentAfterExpiry
<1>2. IInv /\ [Next]_vars => IInv'
    <2> SUFFICES ASSUME IInv, [Next]_vars PROVE IInv'
        OBVIOUS
    <2>1. CASE UNCHANGED vars
        BY <2>1 DEF vars, IInv, TypeOK, ClientInv, ClientOK, ServerInv, ServerOK,
            ProofInv, AcceptedInv, WaitInv, WaitOK, AdmissionAgreement,
            ConfirmedOnBothSides, OnlyAdmittedCommandsReachCell, NothingSentAfterExpiry
    <2>2. CASE Next
        BY <2>2, ClientStepInv, AdmissionStepInv, ServingStepInv, ClockInv DEF Next
    <2> QED BY <2>1, <2>2
<1> QED BY <1>1, <1>2, PTL DEF Spec

(* The variables keep their types.                                         *)
THEOREM TypeCorrect == Spec => []TypeOK
<1>1. IInv => TypeOK
    BY DEF IInv
<1> QED BY <1>1, Invariance, PTL

(* A session is admitted only for a connect that signed its transcript.    *)
THEOREM Agreement == Spec => []AdmissionAgreement
<1>1. IInv => AdmissionAgreement
    BY DEF IInv
<1> QED BY <1>1, Invariance, PTL

(* A client lets out at most one proof and admits at most one session.     *)
THEOREM Injectivity == Spec => []OneProofPerConnect
<1>1. IInv => OneProofPerConnect
    <2> SUFFICES ASSUME IInv PROVE OneProofPerConnect
        OBVIOUS
    <2>1. ASSUME NEW m1 \in net, NEW m2 \in net, m1.type = "proof", m2.type = "proof",
                 m1.signature.data.clientNonce = m2.signature.data.clientNonce
          PROVE  m1 = m2
        <3>1. m1 \in ProofFrames /\ m2 \in ProofFrames
            BY <2>1, ProofFrameType DEF IInv
        <3>2. m1.signature.data = m2.signature.data
            BY <2>1 DEF IInv, ProofInv
        <3>3. m1.signature.key = m2.signature.key /\ m1.session = m2.session
            BY <2>1, <3>2 DEF IInv, ProofInv
        <3> QED BY <3>1, <3>2, <3>3 DEF ProofFrames
    <2>2. ASSUME NEW s1 \in Sessions, NEW s2 \in Sessions,
                 server[s1].admitted # NoValue, server[s2].admitted # NoValue,
                 server[s1].admitted.clientNonce = server[s2].admitted.clientNonce
          PROVE  s1 = s2
        BY <2>2 DEF IInv, AdmissionAgreement
    <2> QED BY <2>1, <2>2 DEF OneProofPerConnect
<1> QED BY <1>1, Invariance, PTL

(* A client that knows itself admitted was admitted by that session.       *)
THEOREM Confirmation == Spec => []ConfirmedOnBothSides
<1>1. IInv => ConfirmedOnBothSides
    BY DEF IInv
<1> QED BY <1>1, Invariance, PTL

(* Only admitted commands, in time, reach a Cell.                          *)
THEOREM AdmittedCommands == Spec => []OnlyAdmittedCommandsReachCell
<1>1. IInv => OnlyAdmittedCommandsReachCell
    BY DEF IInv
<1> QED BY <1>1, Invariance, PTL

(* Nothing is sent after the channel has expired.                          *)
THEOREM SilentAfterExpiry == Spec => []NothingSentAfterExpiry
<1>1. IInv => NothingSentAfterExpiry
    BY DEF IInv
<1> QED BY <1>1, Invariance, PTL

(* An unadmitted session lasts less than two pre-authentication deadlines. *)
THEOREM ShortUnadmitted == Spec => []UnadmittedSessionsAreShort
<1>1. IInv => UnadmittedSessionsAreShort
    BY TimeAssumption DEF IInv, TypeOK, Clocks, ServerRecords, WaitInv, WaitOK,
                          UnadmittedSessionsAreShort
<1> QED BY <1>1, Invariance, PTL

-----------------------------------------------------------------------------
(* Refinement: each step of the handshake is a step of ChannelAdmission or *)
(* leaves the mapped state alone.                                          *)

(* A failing client loses its confirmation, if it had one.                 *)
LEMMA FailLoses ==
    ASSUME TypeOK, NEW c \in Connects, ClientFail(c) PROVE Promise!Lose(c)
<1>1. client[c] \in ClientRecords
    BY DEF TypeOK
<1>2. \A x \in Connects :
        /\ client'[x].endpoint = client[x].endpoint
        /\ client'[x].signed = client[x].signed
        /\ client'[x].transcript = client[x].transcript
        /\ (client'[x].state = "authenticated") =
                (client[x].state = "authenticated" /\ x # c)
    BY <1>1 DEF TypeOK, ClientFail, SetClient, ClientRecords
<1>3. Target' = Target /\ Authorised' = Authorised
    BY <1>2 DEF Target, Authorised
<1>4. Admitted' = Admitted
    BY DEF Admitted, ClientFail
<1>5. Confirmed' = Confirmed \ {c}
    BY <1>2 DEF Confirmed
<1> QED BY <1>3, <1>4, <1>5 DEF Promise!Lose

(* A step of the server side other than OnProof changes no admission.      *)
LEMMA AdmissionKept ==
    ASSUME TypeOK, NEW s \in Sessions, NEW r, r.admitted = server[s].admitted,
           server' = [server EXCEPT ![s] = r], UNCHANGED client
    PROVE  UNCHANGED <<Target, Authorised, Admitted, Confirmed>>
<1>1. \A x \in Sessions : server'[x].admitted = server[x].admitted
    BY DEF TypeOK
<1> QED BY <1>1 DEF Target, Authorised, Admitted, Confirmed

(* The handshake implements the abstract admission, for every number of    *)
(* connects and sessions and whatever the network delivers.                *)
THEOREM Refinement == Spec => ImplementsAdmission
<1>1. Init => Promise!Init
    <2> SUFFICES ASSUME Init PROVE Promise!Init
        OBVIOUS
    <2>1. PICK id \in [Connects -> Identities], ep \in [Connects -> Endpoints] :
            client = [c \in Connects |->
                [state |-> "new", identity |-> id[c], endpoint |-> ep[c],
                 startedAt |-> 0, transcript |-> NoValue, signed |-> FALSE]]
        BY DEF Init
    <2>2. Target \in [Connects -> Endpoints] /\ Confirmed = {}
        BY <2>1 DEF Target, Confirmed
    <2>3. Authorised = [c \in Connects |-> NoValue]
        BY <2>1 DEF Authorised
    <2>4. Admitted = [s \in Sessions |-> NoValue]
        BY DEF Init, Admitted
    <2> QED BY <2>2, <2>3, <2>4 DEF Promise!Init
<1>2. IInv /\ [Next]_vars => [Promise!Next]_(Promise!vars)
    <2> SUFFICES ASSUME IInv, [Next]_vars
                 PROVE  Promise!Next \/ UNCHANGED <<Target, Authorised, Admitted, Confirmed>>
        BY DEF Promise!vars
    <2>0. TypeOK
        BY DEF IInv
    <2>1. ASSUME NEW c \in Connects, ClientFail(c) PROVE Promise!Next
        BY <2>0, <2>1, FailLoses DEF Promise!Next
    <2>2. ASSUME NEW c \in Connects, ClientStep(c)
          PROVE  Promise!Next \/ UNCHANGED <<Target, Authorised, Admitted, Confirmed>>
        <3>0. client[c] \in ClientRecords /\ ClientOK(c, client[c])
            BY DEF IInv, TypeOK, ClientInv
        <3>1. CASE Hello(c) \/ \E m \in ToClient(c) : BeginChallenge(c, m)
            <4> DEFINE Kept ==
                    \A x \in Connects :
                    /\ client'[x].endpoint = client[x].endpoint
                    /\ client'[x].signed = client[x].signed
                    /\ client[x].signed => client'[x].transcript = client[x].transcript
                    /\ client'[x].state = "authenticated"
                            <=> client[x].state = "authenticated"
            <4>1. Kept
                <5>1. CASE Hello(c)
                    BY <2>0, <3>0, <5>1 DEF TypeOK, ClientRecords, Hello, SetClient
                <5>2. ASSUME NEW m \in ToClient(c), BeginChallenge(c, m)
                      PROVE  Kept
                    BY <2>0, <3>0, <5>2
                        DEF TypeOK, ClientRecords, ClientOK, BeginChallenge, SetClient
                <5> QED BY <3>1, <5>1, <5>2
            <4>2. server' = server
                BY <3>1 DEF Hello, BeginChallenge
            <4> QED BY <4>1, <4>2 DEF Target, Authorised, Admitted, Confirmed
        <3>2. CASE FinishChallenge(c)
            <4> DEFINE s == client[c].transcript.session
            <4>1. s \in Sessions /\ ~client[c].signed
                BY <3>0, <3>2 DEF FinishChallenge, ClientOK, ClientRecords, Transcripts
            <4>2. \A x \in Connects :
                    /\ client'[x].endpoint = client[x].endpoint
                    /\ client'[x].signed = (client[x].signed \/ x = c)
                    /\ client'[x].transcript = client[x].transcript
                    /\ client'[x].state = "authenticated"
                            <=> client[x].state = "authenticated"
                BY <2>0, <3>0, <3>2 DEF TypeOK, ClientRecords, FinishChallenge, SetClient
            <4>3. UNCHANGED <<Target, Admitted, Confirmed>>
                BY <3>2, <4>2 DEF Target, Admitted, Confirmed, FinishChallenge
            <4>4. Authorised[c] = NoValue /\ Authorised' = [Authorised EXCEPT ![c] = s]
                BY <4>1, <4>2 DEF Authorised
            <4>5. Promise!Authorise(c, s)
                BY <4>3, <4>4 DEF Promise!Authorise
            <4> QED BY <4>1, <4>5 DEF Promise!Next
        <3>3. ASSUME NEW m \in ToClient(c), Accept(c, m) PROVE Promise!Next
            <4> DEFINE s == client[c].transcript.session
            <4>1. m \in net
                <5>1. \A n \in net : n.type = "challenge" => n \in ChallengeFrames
                    BY <2>0 DEF TypeOK, Frames, HelloFrames, ChallengeFrames, ProofFrames,
                                AcceptedFrames, CommandFrames
                <5>2. m.type = "accepted"
                    BY <3>3 DEF Accept, Acknowledges
                <5> QED BY <3>3, <5>1, <5>2 DEF ToClient, CommandFrames, ChallengeFrames
            <4>2. /\ client[c].signed /\ client[c].transcript \in Transcripts
                  /\ client[c].transcript.clientNonce = c
                  /\ client[c].transcript # NoValue
                BY <3>0, <3>3 DEF ClientOK, ClientRecords, Accept
            <4>3. server[s].admitted = client[c].transcript /\ s \in Sessions
                BY <3>3, <4>1, <4>2 DEF IInv, AcceptedInv, Accept, Acknowledges, Transcripts
            <4>4. Authorised[c] = s /\ Admitted[s] = c
                BY <4>2, <4>3 DEF Authorised, Admitted
            <4>5. \A x \in Connects :
                    /\ client'[x].endpoint = client[x].endpoint
                    /\ client'[x].signed = client[x].signed
                    /\ client'[x].transcript = client[x].transcript
                    /\ client'[x].state = "authenticated"
                            <=> client[x].state = "authenticated" \/ x = c
                BY <2>0, <3>0, <3>3 DEF TypeOK, ClientRecords, Accept, SetClient
            <4>6. UNCHANGED <<Target, Authorised, Admitted>>
                BY <3>3, <4>5 DEF Target, Authorised, Admitted, Accept
            <4>7. Confirmed' = Confirmed \cup {c}
                BY <4>5 DEF Confirmed
            <4>8. Promise!Confirm(c, s)
                BY <4>4, <4>6, <4>7 DEF Promise!Confirm
            <4> QED BY <4>3, <4>8 DEF Promise!Next
        <3>4. ASSUME \/ \E m \in ToClient(c) : ClientRefuse(c, m)
                     \/ SigningFails(c) \/ ClientTimeout(c) \/ ClientDisconnect(c)
              PROVE  Promise!Next
            BY <2>1, <3>4 DEF ClientRefuse, SigningFails, ClientTimeout, ClientDisconnect
        <3> QED BY <2>2, <3>1, <3>2, <3>3, <3>4 DEF ClientStep
    <2>3. ASSUME NEW s \in Sessions, NEW m \in ToSession(s), OnProof(s, m)
          PROVE  Promise!Next
        <3> DEFINE t == server[s].pending
                   c == t.clientNonce
                   r == [server[s] EXCEPT !.state = "authenticated",
                                          !.pending = NoValue, !.admitted = t]
        <3>1. /\ server[s] \in ServerRecords /\ t \in Transcripts /\ t # NoValue
              /\ t.session = s /\ t.endpoint = EndpointOf[s]
              /\ server[s].admitted = NoValue
            BY <2>3 DEF IInv, TypeOK, ServerInv, ServerOK, ServerRecords, OnProof
        <3>2. c \in Connects
            BY <3>1 DEF Transcripts
        <3>3. client[c].signed /\ client[c].transcript = t
            <4>1. m.type = "proof" /\ m.signature.data = t
                BY <2>3 DEF OnProof, ProofHolds, Verify
            <4>2. PICK n \in net : n.type = "proof" /\ n.signature = m.signature
                BY <2>0, <2>3, <4>1, ProofFrameType
                    DEF ToSession, HelloFrames, CommandFrames, ProofFrames
            <4> QED BY <4>1, <4>2 DEF IInv, ProofInv
        <3>4. client[c].endpoint = EndpointOf[s]
            BY <3>1, <3>2, <3>3 DEF IInv, ClientInv, ClientOK
        <3>5. \A x \in Sessions :
                server'[x].admitted = IF x = s THEN t ELSE server[x].admitted
            BY <2>0, <2>3, <3>1 DEF TypeOK, OnProof, SetServer, ServerRecords
        <3>6. UNCHANGED <<Target, Authorised, Confirmed>>
            BY <2>3 DEF Target, Authorised, Confirmed, OnProof
        <3>7. Admitted[s] = NoValue /\ Admitted' = [Admitted EXCEPT ![s] = c]
            BY <3>1, <3>5 DEF Admitted
        <3>8. Authorised[c] = s /\ Target[c] = EndpointOf[s]
            BY <3>1, <3>2, <3>3, <3>4 DEF Authorised, Target
        <3>9. Promise!Admit(c, s)
            BY <3>6, <3>7, <3>8 DEF Promise!Admit
        <3> QED BY <3>2, <3>9 DEF Promise!Next
    <2>5. ASSUME NEW s \in Sessions, AdmissionStep(s)
          PROVE  Promise!Next \/ UNCHANGED <<Target, Authorised, Admitted, Confirmed>>
        <3>0. server[s] \in ServerRecords
            BY <2>0 DEF TypeOK
        <3>1. CASE Open(s) \/ (\E m \in ToSession(s) : OnHello(s, m)) \/ ServerFail(s)
            <4>1. /\ UNCHANGED client
                  /\ \E r : /\ server' = [server EXCEPT ![s] = r]
                           /\ r.admitted = server[s].admitted
                BY <3>0, <3>1 DEF Open, OnHello, ServerFail, Failed, SetServer, ServerRecords
            <4> QED BY <2>0, <4>1, AdmissionKept
        <3>2. CASE \E m \in ToSession(s) : OnProof(s, m)
            BY <2>3, <3>2
        <3> QED
            BY <2>5, <3>1, <3>2 DEF AdmissionStep, PolicyRefuses, ServerRefuse,
                                    ServerTimeout, PeerGone
    <2>6. ASSUME NEW s \in Sessions, ServingStep(s)
          PROVE  UNCHANGED <<Target, Authorised, Admitted, Confirmed>>
        <3>0. server[s] \in ServerRecords
            BY <2>0 DEF TypeOK
        <3> DEFINE Kept == /\ UNCHANGED client
                           /\ \E r : /\ server' = [server EXCEPT ![s] = r]
                                    /\ r.admitted = server[s].admitted
        <3>1. CASE \/ OpenEndpoint(s) \/ ResponsesDone(s) \/ FeedEnds(s)
                   \/ FeedRaises(s) \/ Discard(s) \/ CancelFeed(s)
            <4>1. Kept
                BY <3>0, <3>1 DEF OpenEndpoint, ResponsesDone, FeedEnds, FeedRaises,
                                  Discard, CancelFeed, SetServer, ServerRecords
            <4> QED BY <2>0, <4>1, AdmissionKept
        <3>2. CASE \E m \in ToSession(s) : HandleCommand(s, m) \/ StartFeed(s, m)
            <4>1. Kept
                BY <3>0, <3>2 DEF HandleCommand, StartFeed, SetServer, ServerRecords
            <4> QED BY <2>0, <4>1, AdmissionKept
        <3>3. CASE ServerFail(s)
            <4>1. Kept
                BY <3>0, <3>3 DEF ServerFail, Failed, SetServer, ServerRecords
            <4> QED BY <2>0, <4>1, AdmissionKept
        <3>4. CASE SendResponse(s) \/ SendFeed(s)
            BY <3>4 DEF SendResponse, SendFeed, Target, Authorised, Admitted, Confirmed
        <3> QED
            BY <2>6, <3>1, <3>2, <3>3, <3>4 DEF ServingStep, Unavailable, RefuseCommand,
                                                ResponseExpired
    <2>7. CASE Tick \/ ClockStep \/ UNCHANGED vars
        BY <2>7 DEF Tick, ClockStep, vars, Target, Authorised, Admitted, Confirmed
    <2> QED BY <2>2, <2>5, <2>6, <2>7 DEF Next
<1> QED BY <1>1, <1>2, Invariance, PTL DEF Spec, ImplementsAdmission, Promise!Spec

=============================================================================

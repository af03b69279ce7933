---------------------------- MODULE BridgeChannel ----------------------------
(***************************************************************************)
(* Bridge channel admission, `org.haven.bridge-channel.v1`: the four-frame *)
(* handshake of interop/channel.py, the session that runs the server side  *)
(* and then serves Cell commands (cellprotocol_scaffold/bridge_auth.py),   *)
(* and the client side as bridge.py drives it (_authenticate_channel).     *)
(*                                                                         *)
(* Each element of Connects is one ChannelClient, each element of Sessions *)
(* one AuthenticatedBridgeSession with its ChannelServer.  Random values   *)
(* are symbolic: a connect is its own client nonce, a session is its own   *)
(* server nonce, session identifier and generation.  A signature is the    *)
(* pair of the key that made it and the transcript it covers.  The network *)
(* keeps every frame ever sent and may deliver any of them to any          *)
(* connection, any number of times, in any order, or never.                *)
(***************************************************************************)
EXTENDS Integers, FiniteSets

CONSTANTS
    Connects,           \* ChannelClient instances
    Sessions,           \* inbound WebSocket connections
    Identities,         \* public identities (uuid and key)
    Keys,               \* signing keys
    KeyOf,              \* the public key of an identity
    Endpoints,          \* (origin, route, domain) triples
    EndpointOf,         \* the endpoint a session's host is configured with
    NoValue,            \* Python's None
    PreAuthDeadline,    \* PRE_AUTH_DEADLINE, in ticks
    ChallengeLifetime,  \* CHALLENGE_LIFETIME, in ticks
    ChannelLifetime,    \* CHANNEL_LIFETIME, in ticks
    AllowedSkew,        \* how far in the future a challenge may be issued
    ResponseTimeout,    \* WebSocketBridgeClient.response_timeout, in ticks
    LastStart,          \* bound: no connection starts later than this
    MaxTime,            \* bound on the monotonic clock
    ClockSteps,         \* sizes of a wall-clock correction
    MaxFeeds,           \* bound on concurrent feed tasks of a session
    MaxTraffic          \* bound on commands handled, and on frames sent, in all

ASSUME IdentityAssumption == KeyOf \in [Identities -> Keys]

ASSUME EndpointAssumption == EndpointOf \in [Sessions -> Endpoints]

ASSUME TimeAssumption ==
    /\ PreAuthDeadline \in Nat \ {0} /\ ChallengeLifetime \in Nat \ {0}
    /\ ChannelLifetime \in Nat \ {0} /\ AllowedSkew \in Nat
    /\ ResponseTimeout \in Nat \ {0} /\ LastStart \in Nat /\ MaxTime \in Nat
    /\ ClockSteps \subseteq Int /\ MaxFeeds \in Nat /\ MaxTraffic \in Nat

VARIABLES
    client,     \* [Connects -> the ChannelClient's fields]
    server,     \* [Sessions -> the ChannelServer's and the session's fields]
    net,        \* every frame sent so far
    clock,      \* monotonic time, and the wall clocks of the two hosts
    handled,    \* history: commands given to the Cell, by session and identity
    sent        \* history: frames sent after admission, by session and wall time

vars == <<client, server, net, clock, handled, sent>>

-----------------------------------------------------------------------------
(* Transcripts and frames *)

Transcripts ==
    [endpoint: Endpoints, identity: Identities, clientNonce: Connects,
     session: Sessions, issued: Int, expires: Int]

ASSUME NoValueAssumption ==
    NoValue \notin Sessions \cup Connects \cup Identities \cup Transcripts

HelloFrames == [type: {"hello"}, identity: Identities, clientNonce: Connects]

ChallengeFrames == [type: {"challenge"}, transcript: Transcripts]

ProofFrames ==
    [type: {"proof"}, session: Sessions,
     signature: [key: Keys, data: Transcripts]]

AcceptedFrames == [type: {"accepted"}, transcript: Transcripts]

CommandKinds == {"request", "feed", "ready", "response"}

CommandFrames ==
    [type: {"command"}, kind: CommandKinds, identity: Identities \cup {NoValue}]

Frames == HelloFrames \cup ChallengeFrames \cup ProofFrames
            \cup AcceptedFrames \cup CommandFrames

(* What may arrive at a client: any frame a handshake produced, any        *)
(* command, and a challenge whose transcript was rewritten for this very   *)
(* connect.  The acknowledgement carries no signature: that it comes from  *)
(* the server is the secure transport's doing.                             *)
ToClient(c) ==
    net \cup CommandFrames \cup
    {[m EXCEPT !.transcript =
        [m.transcript EXCEPT !.endpoint = client[c].endpoint,
                             !.identity = client[c].identity,
                             !.clientNonce = c]] :
        m \in {n \in net : n.type = "challenge"}}

(* What may arrive at a session: any frame a handshake produced, any hello *)
(* and any command, since a peer composes those alone, and a signature     *)
(* under this session's identifier.  Only the signature itself binds.      *)
ToSession(s) ==
    net \cup HelloFrames \cup CommandFrames \cup
    {[m EXCEPT !.session = s] : m \in {n \in net : n.type = "proof"}}

(* Mutant: any signature by the identity's key will do.                    *)
VerifyKeyOnly(signature, data) == signature.key = KeyOf[data.identity]

(* verify_signature: made by the identity's key, over exactly this data. *)
Verify(signature, data) ==
    /\ signature.data = data
    /\ signature.key = KeyOf[data.identity]

-----------------------------------------------------------------------------
(* State *)

ClientStates ==
    {"new", "helloSent", "signing", "proofSent", "authenticated", "closed"}

ServerStates ==
    {"idle", "unauthenticated", "challengeIssued", "authenticated", "serving",
     "closing", "closed", "raised"}

PreAuth == {"unauthenticated", "challengeIssued"}

ClientRecords ==
    [state: ClientStates, identity: Identities, endpoint: Endpoints,
     startedAt: Nat, transcript: Transcripts \cup {NoValue}, signed: BOOLEAN]

ServerRecords ==
    [state: ServerStates, deadline: Nat, waitSince: Nat,
     pending: Transcripts \cup {NoValue}, admitted: Transcripts \cup {NoValue},
     busy: BOOLEAN,
     feeds: 0..MaxFeeds,   \* the feed tasks that have not ended
     broken: BOOLEAN]      \* _flow_tasks still has one that raised

Clocks == [mono: 0..MaxTime, server: Int, client: Int, stepped: BOOLEAN]

Init ==
    /\ \E id \in [Connects -> Identities], ep \in [Connects -> Endpoints] :
        client = [c \in Connects |->
            [state |-> "new", identity |-> id[c], endpoint |-> ep[c],
             startedAt |-> 0, transcript |-> NoValue, signed |-> FALSE]]
    /\ server = [s \in Sessions |->
            [state |-> "idle", deadline |-> 0, waitSince |-> 0,
             pending |-> NoValue, admitted |-> NoValue,
             busy |-> FALSE, feeds |-> 0, broken |-> FALSE]]
    /\ net = {}
    /\ clock = [mono |-> 0, server |-> 0, client |-> 0, stepped |-> FALSE]
    /\ handled = {}
    /\ sent = {}

-----------------------------------------------------------------------------
(* Client side: ChannelClient, driven by _authenticate_channel *)

SetClient(c, record) == client' = [client EXCEPT ![c] = record]

(* A failure closes the client; the transcript it kept is not cleared.     *)
ClientFail(c) ==
    /\ SetClient(c, [client[c] EXCEPT !.state = "closed"])
    /\ UNCHANGED <<server, net, clock, handled, sent>>

PastClientDeadline(c) == clock.mono >= client[c].startedAt + PreAuthDeadline

(* ChannelClient() and hello(): the deadline runs from here.               *)
Hello(c) ==
    /\ client[c].state = "new"
    /\ clock.mono <= LastStart
    /\ SetClient(c, [client[c] EXCEPT !.state = "helloSent",
                                      !.startedAt = clock.mono])
    /\ net' = net \cup {[type |-> "hello", identity |-> client[c].identity,
                         clientNonce |-> c]}
    /\ UNCHANGED <<server, clock, handled, sent>>

(* A challenge, in time, for this connect, fresh, of the agreed lifetime.  *)
MatchesConnect(c, m) ==
    /\ m.type = "challenge"
    /\ ~PastClientDeadline(c)
    /\ m.transcript.endpoint = client[c].endpoint
    /\ m.transcript.identity = client[c].identity
    /\ m.transcript.clientNonce = c
    /\ m.transcript.issued <= clock.client + AllowedSkew
    /\ m.transcript.issued > clock.client - ChallengeLifetime
    /\ m.transcript.expires > clock.client
    /\ m.transcript.expires - m.transcript.issued = ChannelLifetime

(* Mutant: a second challenge is considered after a proof was sent.        *)
BeginChallengeAgain(c, m) ==
    /\ client[c].state \in {"helloSent", "proofSent"}
    /\ MatchesConnect(c, m)
    /\ SetClient(c, [client[c] EXCEPT !.state = "signing",
                                      !.transcript = m.transcript])
    /\ UNCHANGED <<server, net, clock, handled, sent>>

(* begin_challenge: the only challenge this connect will consider.  The    *)
(* vault is then awaited, so time and other frames may pass.               *)
BeginChallenge(c, m) ==
    /\ client[c].state = "helloSent"
    /\ MatchesConnect(c, m)
    /\ SetClient(c, [client[c] EXCEPT !.state = "signing",
                                      !.transcript = m.transcript])
    /\ UNCHANGED <<server, net, clock, handled, sent>>

(* The signing challenge validated again once the vault has answered.      *)
StillValid(t) ==
    /\ t.issued <= clock.client + AllowedSkew
    /\ t.issued + ChallengeLifetime >= clock.client

(* identity.sign returned, finish_challenge accepts it, the proof is sent. *)
FinishChallenge(c) ==
    /\ client[c].state = "signing"
    /\ ~PastClientDeadline(c)
    /\ StillValid(client[c].transcript)
    /\ SetClient(c, [client[c] EXCEPT !.state = "proofSent", !.signed = TRUE])
    /\ net' = net \cup
            {[type |-> "proof", session |-> client[c].transcript.session,
              signature |-> [key |-> KeyOf[client[c].identity],
                             data |-> client[c].transcript]]}
    /\ UNCHANGED <<server, clock, handled, sent>>

(* Mutant: any acknowledgement is taken for one's own.                     *)
AcknowledgesAny(c, m) == m.type = "accepted" /\ ~PastClientDeadline(c)

(* The acknowledgement names the session and the transcript's digest.      *)
Acknowledges(c, m) ==
    /\ m.type = "accepted"
    /\ ~PastClientDeadline(c)
    /\ m.transcript = client[c].transcript
    /\ clock.client < client[c].transcript.expires

Accept(c, m) ==
    /\ client[c].state = "proofSent"
    /\ Acknowledges(c, m)
    /\ SetClient(c, [client[c] EXCEPT !.state = "authenticated"])
    /\ UNCHANGED <<server, net, clock, handled, sent>>

(* Any other frame while a reply is awaited, or a refused one: closed.     *)
ClientRefuse(c, m) ==
    /\ \/ client[c].state = "helloSent" /\ ~MatchesConnect(c, m)
       \/ client[c].state = "proofSent" /\ ~Acknowledges(c, m)
    /\ ClientFail(c)

(* The vault refuses, or its answer comes too late: nothing is sent.       *)
SigningFails(c) ==
    /\ client[c].state = "signing"
    /\ ClientFail(c)

(* wait_for(_authenticate_channel(), response_timeout), or the peer hung up.*)
ClientTimerDue(c) ==
    /\ client[c].state \in {"helloSent", "signing", "proofSent"}
    /\ clock.mono >= client[c].startedAt + ResponseTimeout

ClientTimeout(c) == ClientTimerDue(c) /\ ClientFail(c)

ClientDisconnect(c) ==
    /\ client[c].state \notin {"new", "closed"}
    /\ ClientFail(c)

-----------------------------------------------------------------------------
(* Server side before admission: ChannelServer inside _admit *)

SetServer(s, record) == server' = [server EXCEPT ![s] = record]

(* The finally block of run goes through its list of feed tasks, in any    *)
(* order: it cancels one and waits for it; or it meets one that raised and *)
(* raises that, with the feeds behind it and the socket left as they are;  *)
(* or it is through and closes the socket.                                 *)
Cleanup(feeds, broken) ==
    {state \in {"closing", "raised", "closed"} :
        /\ state = "closing" => feeds > 0
        /\ state = "raised" => broken
        /\ state = "closed" => feeds = 0 /\ ~broken}

(* A failure ends the session: no admission is pending any more.           *)
Failed(s, state) ==
    [server[s] EXCEPT !.state = state, !.pending = NoValue, !.busy = FALSE]

ServerFail(s) ==
    /\ \E state \in Cleanup(server[s].feeds, server[s].broken) :
           SetServer(s, Failed(s, state))
    /\ UNCHANGED <<client, net, clock, handled, sent>>

(* A WebSocket arrives; ChannelServer() takes its deadline.                *)
Open(s) ==
    /\ server[s].state = "idle"
    /\ clock.mono <= LastStart
    /\ SetServer(s, [server[s] EXCEPT !.state = "unauthenticated",
                                      !.deadline = clock.mono + PreAuthDeadline,
                                      !.waitSince = clock.mono])
    /\ UNCHANGED <<client, net, clock, handled, sent>>

PastDeadline(s) == clock.mono >= server[s].deadline

Challenge(s, m) ==
    [endpoint |-> EndpointOf[s], identity |-> m.identity,
     clientNonce |-> m.clientNonce, session |-> s,
     issued |-> clock.server, expires |-> clock.server + ChannelLifetime]

(* Mutant: the deadline is left to the receive timer.                      *)
HelloHoldsLate(s, m) == m.type = "hello"

HelloHolds(s, m) == m.type = "hello" /\ ~PastDeadline(s)

(* _on_hello: a fresh transcript is pending, the challenge goes out.       *)
OnHello(s, m) ==
    /\ server[s].state = "unauthenticated"
    /\ HelloHolds(s, m)
    /\ SetServer(s, [server[s] EXCEPT !.state = "challengeIssued",
                                      !.pending = Challenge(s, m),
                                      !.waitSince = clock.mono])
    /\ net' = net \cup {[type |-> "challenge", transcript |-> Challenge(s, m)]}
    /\ UNCHANGED <<client, clock, handled, sent>>

(* What _on_proof requires of a proof frame for the pending transcript.    *)
ProofHolds(s, m) ==
    /\ m.type = "proof"
    /\ ~PastDeadline(s)
    /\ clock.server < server[s].pending.issued + ChallengeLifetime
    /\ m.session = server[s].pending.session
    /\ Verify(m.signature, server[s].pending)
    /\ clock.server < server[s].pending.expires

(* _on_proof: the pending challenge is consumed, the channel is admitted.  *)
OnProof(s, m) ==
    /\ server[s].state = "challengeIssued"
    /\ ProofHolds(s, m)
    /\ SetServer(s, [server[s] EXCEPT !.state = "authenticated",
                                      !.pending = NoValue,
                                      !.admitted = server[s].pending])
    /\ net' = net \cup {[type |-> "accepted", transcript |-> server[s].pending]}
    /\ UNCHANGED <<client, clock, handled, sent>>

(* The policy recheck refuses a proof that verified: revoked.              *)
PolicyRefuses(s, m) ==
    /\ server[s].state = "challengeIssued"
    /\ ProofHolds(s, m)
    /\ ServerFail(s)

(* Any other frame before admission is terminal.                           *)
ServerRefuse(s, m) ==
    /\ \/ server[s].state = "unauthenticated" /\ ~HelloHolds(s, m)
       \/ server[s].state = "challengeIssued" /\ ~ProofHolds(s, m)
    /\ ServerFail(s)

(* Mutant: only the first frame is waited for with a timeout.              *)
ServerTimerDueOnce(s) ==
    /\ server[s].state = "unauthenticated"
    /\ clock.mono >= server[s].waitSince + PreAuthDeadline

(* wait_for(_receive_frame(), PRE_AUTH_DEADLINE): restarted by each frame. *)
ServerTimerDue(s) ==
    /\ server[s].state \in PreAuth
    /\ clock.mono >= server[s].waitSince + PreAuthDeadline

ServerTimeout(s) == ServerTimerDue(s) /\ ServerFail(s)

-----------------------------------------------------------------------------
(* Server side after admission: open_endpoint, _serve, _send_feed *)

OpenEndpoint(s) ==
    /\ server[s].state = "authenticated"
    /\ SetServer(s, [server[s] EXCEPT !.state = "serving"])
    /\ UNCHANGED <<client, net, clock, handled, sent>>

Unavailable(s) ==
    /\ server[s].state = "authenticated"
    /\ ServerFail(s)

Expired(s) == clock.server >= server[s].admitted.expires

(* Mutant: the identity a command carries is believed.                     *)
CheckAnyIdentity(s, m) == m.type = "command" /\ m.kind # "ready" /\ ~Expired(s)

(* _check: not a handshake or ready frame, not expired, the admitted key.  *)
Check(s, m) ==
    /\ m.type = "command"
    /\ m.kind # "ready"
    /\ ~Expired(s)
    /\ IF m.identity = NoValue THEN m.kind = "response"
                               ELSE m.identity = server[s].admitted.identity

(* endpoint.handle runs the command; the loop reads no frame meanwhile.    *)
HandleCommand(s, m) ==
    /\ server[s].state = "serving" /\ ~server[s].busy
    /\ Cardinality(handled) < MaxTraffic
    /\ Check(s, m)
    /\ m.kind # "feed"
    /\ SetServer(s, [server[s] EXCEPT !.busy = TRUE])
    /\ handled' = handled \cup {[session |-> s, identity |-> m.identity,
                                 at |-> clock.server]}
    /\ UNCHANGED <<client, net, clock, sent>>

(* A feed command starts a task of its own and the loop goes on.           *)
StartFeed(s, m) ==
    /\ server[s].state = "serving" /\ ~server[s].busy
    /\ server[s].feeds < MaxFeeds
    /\ Cardinality(handled) < MaxTraffic
    /\ Check(s, m)
    /\ m.kind = "feed"
    /\ SetServer(s, [server[s] EXCEPT !.feeds = @ + 1])
    /\ handled' = handled \cup {[session |-> s, identity |-> m.identity,
                                 at |-> clock.server]}
    /\ UNCHANGED <<client, net, clock, sent>>

RefuseCommand(s, m) ==
    /\ server[s].state = "serving" /\ ~server[s].busy
    /\ ~Check(s, m)
    /\ ServerFail(s)

Send(s) ==
    /\ Cardinality(sent) < MaxTraffic
    /\ sent' = sent \cup {[session |-> s, at |-> clock.server]}

(* Mutant: expiry is checked when a command arrives and not again.         *)
SendResponseUnchecked(s) ==
    /\ server[s].state = "serving" /\ server[s].busy
    /\ Send(s)
    /\ UNCHANGED <<client, server, net, clock, handled>>

(* Each response of endpoint.handle is checked again before it is sent.    *)
SendResponse(s) ==
    /\ server[s].state = "serving" /\ server[s].busy
    /\ ~Expired(s)
    /\ Send(s)
    /\ UNCHANGED <<client, server, net, clock, handled>>

ResponseExpired(s) ==
    /\ server[s].state = "serving" /\ server[s].busy
    /\ Expired(s)
    /\ ServerFail(s)

(* The list of responses is exhausted (it may be empty).                   *)
ResponsesDone(s) ==
    /\ server[s].state = "serving" /\ server[s].busy
    /\ SetServer(s, [server[s] EXCEPT !.busy = FALSE])
    /\ UNCHANGED <<client, net, clock, handled, sent>>

(* Feed tasks able to run: while closing, one of them is being cancelled.  *)
RunnableFeeds(s) ==
    IF server[s].state = "closing" THEN server[s].feeds - 1 ELSE server[s].feeds

SendFeed(s) ==
    /\ RunnableFeeds(s) > 0
    /\ ~Expired(s)
    /\ Send(s)
    /\ UNCHANGED <<client, server, net, clock, handled>>

(* The flow ends, or the channel has expired: the task returns, silently.  *)
FeedEnds(s) ==
    /\ RunnableFeeds(s) > 0
    /\ SetServer(s, [server[s] EXCEPT !.feeds = @ - 1])
    /\ UNCHANGED <<client, net, clock, handled, sent>>

(* flow() is refused, or a send fails: the task ends by raising.           *)
FeedRaises(s) ==
    /\ RunnableFeeds(s) > 0
    /\ SetServer(s, [server[s] EXCEPT !.feeds = @ - 1, !.broken = TRUE])
    /\ UNCHANGED <<client, net, clock, handled, sent>>

(* The done callback of a feed that raised; the list that the finally      *)
(* block goes through is a copy.                                           *)
Discard(s) ==
    /\ server[s].broken
    /\ server[s].state \notin {"closing", "closed", "raised"}
    /\ SetServer(s, [server[s] EXCEPT !.broken = FALSE])
    /\ UNCHANGED <<client, net, clock, handled, sent>>

(* The finally block of run: the cancelled task has ended, and it goes on. *)
CancelFeed(s) ==
    /\ server[s].state = "closing"
    /\ \E state \in Cleanup(server[s].feeds - 1, server[s].broken) :
           SetServer(s, [server[s] EXCEPT !.feeds = @ - 1, !.state = state])
    /\ UNCHANGED <<client, net, clock, handled, sent>>

(* The peer went away, seen by a receive or by a send.                     *)
PeerGone(s) ==
    /\ server[s].state \notin {"idle", "closing", "closed", "raised"}
    /\ ServerFail(s)

-----------------------------------------------------------------------------
(* Time.  A timer fires before the clock moves past it; a frame arriving   *)
(* at that very instant may still win the race.                            *)

Tick ==
    /\ clock.mono < MaxTime
    /\ \A c \in Connects : ~ClientTimerDue(c)
    /\ \A s \in Sessions : ~ServerTimerDue(s)
    /\ clock' = [clock EXCEPT !.mono = @ + 1, !.server = @ + 1, !.client = @ + 1]
    /\ UNCHANGED <<client, server, net, handled, sent>>

(* One correction of one host's wall clock; monotonic clocks never jump.   *)
ClockStep ==
    /\ ~clock.stepped
    /\ \E d \in ClockSteps :
        \/ clock' = [clock EXCEPT !.server = @ + d, !.stepped = TRUE]
        \/ clock' = [clock EXCEPT !.client = @ + d, !.stepped = TRUE]
    /\ UNCHANGED <<client, server, net, handled, sent>>

-----------------------------------------------------------------------------
ClientStep(c) ==
    \/ Hello(c)
    \/ \E m \in ToClient(c) :
        BeginChallenge(c, m) \/ Accept(c, m) \/ ClientRefuse(c, m)
    \/ FinishChallenge(c) \/ SigningFails(c)
    \/ ClientTimeout(c) \/ ClientDisconnect(c)

AdmissionStep(s) ==
    \/ Open(s)
    \/ \E m \in ToSession(s) :
        OnHello(s, m) \/ OnProof(s, m) \/ PolicyRefuses(s, m) \/ ServerRefuse(s, m)
    \/ ServerTimeout(s) \/ PeerGone(s)

ServingStep(s) ==
    \/ OpenEndpoint(s) \/ Unavailable(s)
    \/ \E m \in ToSession(s) :
        HandleCommand(s, m) \/ StartFeed(s, m) \/ RefuseCommand(s, m)
    \/ SendResponse(s) \/ ResponseExpired(s) \/ ResponsesDone(s)
    \/ SendFeed(s) \/ FeedEnds(s) \/ FeedRaises(s) \/ Discard(s) \/ CancelFeed(s)

Next ==
    \/ \E c \in Connects : ClientStep(c)
    \/ \E s \in Sessions : AdmissionStep(s) \/ ServingStep(s)
    \/ Tick \/ ClockStep

Spec == Init /\ [][Next]_vars

(* asyncio runs a due timer and a task whose await has ended; nothing is   *)
(* assumed of the peer, the network or the vault.                          *)
Fairness ==
    /\ WF_vars(Tick)
    /\ \A c \in Connects : WF_vars(ClientTimeout(c))
    /\ \A s \in Sessions : WF_vars(ServerTimeout(s)) /\ WF_vars(CancelFeed(s))

LiveSpec == Spec /\ Fairness

-----------------------------------------------------------------------------
(* Properties *)

(* Every variable keeps its type; a session never counts fewer than no     *)
(* feed tasks, though a task may end while another is being cancelled.     *)
TypeOK ==
    /\ client \in [Connects -> ClientRecords]
    /\ server \in [Sessions -> ServerRecords]
    /\ net \subseteq Frames
    /\ clock \in Clocks
    /\ handled \subseteq [session: Sessions, identity: Identities \cup {NoValue}, at: Int]
    /\ sent \subseteq [session: Sessions, at: Int]

(* A session is admitted only for a connect that signed exactly this       *)
(* session's transcript with its own identity, for this session's endpoint,*)
(* however frames are lost, repeated, delayed or delivered elsewhere       *)
(* (ChannelServer._on_proof, ChannelClient.begin_challenge).               *)
AdmissionAgreement ==
    \A s \in Sessions : server[s].admitted # NoValue =>
        LET t == server[s].admitted IN
        /\ t.session = s /\ t.endpoint = EndpointOf[s]
        /\ client[t.clientNonce].signed
        /\ client[t.clientNonce].transcript = t
        /\ client[t.clientNonce].identity = t.identity
        /\ client[t.clientNonce].endpoint = EndpointOf[s]

(* One connect never admits two sessions, and it lets out at most one      *)
(* proof: "Only one challenge is ever accepted" (begin_challenge).         *)
OneProofPerConnect ==
    /\ \A m1, m2 \in net :
        /\ m1.type = "proof" /\ m2.type = "proof"
        /\ m1.signature.data.clientNonce = m2.signature.data.clientNonce
        => m1 = m2
    /\ \A s1, s2 \in Sessions :
        /\ server[s1].admitted # NoValue /\ server[s2].admitted # NoValue
        /\ server[s1].admitted.clientNonce = server[s2].admitted.clientNonce
        => s1 = s2

(* A client that holds an AdmittedChannel was admitted by the very session *)
(* whose challenge it signed (ChannelClient._on_accepted).                 *)
ConfirmedOnBothSides ==
    \A c \in Connects : client[c].state = "authenticated" =>
        server[client[c].transcript.session].admitted = client[c].transcript

(* "nothing reaches a Cell before admission, and every later command must  *)
(* carry the admitted public key" (README): each command the Cell was      *)
(* given came in an admitted, unexpired session, with the admitted         *)
(* identity or, for a response, none; that identity's key signed for it.   *)
OnlyAdmittedCommandsReachCell ==
    \A h \in handled :
        /\ server[h.session].admitted # NoValue
        /\ h.identity \in {server[h.session].admitted.identity, NoValue}
        /\ h.at < server[h.session].admitted.expires
        /\ \E c \in Connects :
            client[c].signed /\ client[c].transcript.session = h.session

(* No response and no flow element is sent at or after the channel's       *)
(* expiry, also when the Cell was still working or a feed was running      *)
(* when it came (_serve, _send_feed).                                      *)
NothingSentAfterExpiry ==
    \A x \in sent :
        /\ server[x.session].admitted # NoValue
        /\ x.at < server[x.session].admitted.expires

(* A peer that is not admitted holds its socket for less than twice the    *)
(* pre-authentication deadline: each frame restarts the wait, but only one *)
(* frame before the deadline is answered (_admit, ChannelServer.receive).  *)
UnadmittedSessionsAreShort ==
    \A s \in Sessions : server[s].state \in PreAuth =>
        clock.mono < server[s].deadline + PreAuthDeadline

(* Every handshake ends on both sides, whatever the peer, the network and  *)
(* the vault do, and a session that failed comes to an end: it has closed  *)
(* its socket, or run() has raised what one of its feeds had raised.       *)
HandshakesEnd ==
    /\ \A c \in Connects :
        client[c].state = "helloSent" ~> client[c].state \in {"authenticated", "closed"}
    /\ \A s \in Sessions :
        /\ server[s].state = "unauthenticated" ~> server[s].state \notin PreAuth
        /\ server[s].state = "closing" ~> server[s].state \in {"closed", "raised"}

(* What the channel promises, and the mapping that shows it.               *)
Target == [c \in Connects |-> client[c].endpoint]

Authorised == [c \in Connects |->
    IF client[c].signed THEN client[c].transcript.session ELSE NoValue]

Admitted == [s \in Sessions |->
    IF server[s].admitted = NoValue THEN NoValue ELSE server[s].admitted.clientNonce]

Confirmed == {c \in Connects : client[c].state = "authenticated"}

Promise == INSTANCE ChannelAdmission WITH
    target <- Target, authorised <- Authorised, admitted <- Admitted,
    confirmed <- Confirmed

(* The handshake implements the abstract admission, step by step.          *)
ImplementsAdmission == Promise!Spec
=============================================================================

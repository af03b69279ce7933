# PyCellProtocol in TLA+

PyCellProtocol is a Python implementation of the Cell protocol: Cells hold state
for an owner and answer other identities under Agreements; bridges carry Cell
commands over WebSockets; a scaffold hosts Cells and small services. This
directory models the parts whose correctness rests on the order of events
(handshakes, admission, withdrawal, late answers, shared connections), checks
small instances of them with TLC and proves, with TLAPS, that they are correct
for every instance.

Paths are relative to `src/src/` unless they begin with `src/`.

## 1. The system

| Component | State it keeps | Operations | Talks to |
|---|---|---|---|
| Channel handshake, `cellprotocol/interop/channel.py` | client: state, pending transcript, deadline; server: state, pending challenge, admitted identity, expiry | `hello`, `begin_challenge`, `finish_challenge`, `accept`; `receive` (`_on_hello`, `_on_proof`), the deadline and expiry checks | the peer's half, through frames |
| Authenticated session, `cellprotocol_scaffold/bridge_auth.py` | one `ChannelServer`, the admitted channel, the set of feed tasks | `run`, `_admit`, `_check`, `_serve`, `_send_feed` | handshake, `BridgeEndpoint`, Cells |
| Outbound client, `cellprotocol/bridge.py` (`WebSocketBridgeClient`) | socket, receive task, ready future, connect lock, `_pending`, `_streams`, used signing challenges | `connect`, `close`, `flow`, commands, `_receive_loop`, `_answer_sign` | handshake, vault, callers |
| Publisher session, `cellprotocol/bridge.py` (`CloudBridgePublisherSession`) | serve task, feed tasks, stop event, the bridge with its command queue | `start`, `run`, `close`, `_serve_commands`, `_send_feed` | bridgehead, Cells |
| Chat audience, `cellprotocol/cells/chat.py`, `interop/chat.py` | invitations, artifacts, consumed acceptances, admission conditions | invite, issue, accept, decline, revoke, clear, inspect, set conditions | Agreements |
| Agreements, `cellprotocol/general_cell.py`, `agreement.py` | Agreement template, signed contracts | `add_agreement`, `remove_contracts`, the check on each access | the Cell's own conditions |
| Invitation landing, `cellprotocol_scaffold/invite_landing.py` | published tickets, replies, in memory | publish, status, revoke, collect, reply, open, purge | issuer, invitee, over HTTP |
| Invitation Cell, `cellprotocol/cells/invitation.py`, `interop/invite.py` | settings, outbox, inbox | prepare, publish, mark sent, refresh status, pull, accept, revoke, respond | one or two landings |
| Entity anchor, `cellprotocol/cells/entity_anchor.py`, with `interop/identity_link.py` | genesis seal, link records and their proofs, used approval ids | genesis, approve, complete, revoke, `entity.batchPersist`, direct writes | new keys and other keys of the entity, through signed pieces |
| Entity extension, `cellprotocol/cells/entity_extension.py` | outgoing requests, links | begin, review, approve, accept, revoke, clear | the same Cell at the other place, by packets that people carry |
| Flows of a Cell, `cellprotocol/general_cell.py` | attachments, pump tasks, the flow queue | `attach`, `absorb_flow`, `drop_flow`, `detach`, `push_flow` | other Cells, consumers of its flow |
| Identity vault, `cellprotocol/identity.py` | identities and contexts in memory, the vault file, the master key file | `initialize`, `identity`, `add_identity`, `save`, `_master_key` | other processes on the same files, the file system |
| Resolver, small Cells, codecs | registries, tables | register, resolve | all of the above |

What is hard in it:

* **Untrusted order.** The bridge takes frames from a network that may repeat,
  delay or redirect them; a landing takes publications and replies that come late
  or twice; an invitee may present an acceptance again after it was withdrawn; the
  pieces of several enrolments may be put together into one completion.
* **Awaits between a check and its use.** The client's vault is awaited between a
  challenge and its proof; `add_agreement` awaits each condition and reads the
  template again afterwards; a command's Cell works while the channel expires;
  `close` awaits a socket while another call opens one.
* **Several clocks.** Deadlines are monotonic, expiry is wall-clock time.
* **Lost answers.** The issuer cannot tell a landing that never saw a call from
  one whose answer was lost; it has a fallback and tries again.
* **Partial failure.** A batch whose signing fails half-way; a landing that
  restarts with an empty store; a pump or a feed that raises while it is being
  ended.
* **Crashes.** A process may be killed, or the power go, between any two of the
  system calls that create the master key and replace the vault.
* **Cancellation.** `drop_flow` and `close` cancel a task and wait for it; what they
  read before the wait may be different after it, and a cancellation of the waiting
  task itself is taken for the other's.
* **Waiting.** A flow has no timeout: somebody must end it when its connection is
  lost.

What makes each part correct: only the holder of the key, in this session, is
admitted (channel); nothing goes out after expiry (session); nobody waits for a
connection that is gone (client); admission rests on a signed acceptance of what
is in force and withdrawal lasts (chat); what is held was signed, fits its limit
and belongs to the code it is served under (landing); what the issuer believes is
what landings were told and invitees signed (invitation Cell); a link rests on the
signatures of both keys, and a revoked one stays revoked (entity anchor); a place
has one link in force to an identity, the one for its newest request, and what its
issuer granted (entity extension); what runs can be found and stopped (flows,
publisher); what was saved can be read again with the key that is there (vault).

`PROJECT.json` lists every component, with the ones that are not modelled, the
source lines behind each definition, and the hazards with the properties that
would notice them.

## 2. Modules

| Module | Models | Uses |
|---|---|---|
| `ChannelAdmission` | what a channel handshake promises: authorise, admit, confirm, or lose | |
| `BridgeChannel` | handshake, session and the client side of the handshake | refines `ChannelAdmission` |
| `BridgeClient` | the outbound client's tasks around one connection | |
| `ChatAdmission` | audience of a chat, Agreements and contracts | |
| `InviteLanding` | one landing | |
| `Invitation` | the issuer's Cell with its landings and lossy calls | the operators of `InviteLanding`, once per landing |
| `EntityAnchor` | the entity's anchor and the enrolment of keys | |
| `EntityExtension` | the extension Cells of an entity's places | |
| `CellFlows` | attachments, pumps and flow queue of one Cell | |
| `CellPublisher` | the publisher session: serve task, feeds, `close` | extends `CellFlows`, the Cell it publishes |
| `IdentityVault` | the processes that share a vault and their files | |
| `BridgeChannelProofs`, `BridgeClientProofs`, `ChatAdmissionProofs`, `InviteLandingProofs`, `InvitationProofs`, `CellPublisherProofs`, `IdentityVaultProofs` | theorems | the module named |
| `EntityProofs` | theorems about both, which share no state | `EntityAnchor`, `EntityExtension` |
| `MC...` | instances for TLC | the module named |

### BridgeChannel

`client[c]` is a `ChannelClient` with the identity and endpoint it was given;
`server[s]` is a `ChannelServer` together with its `AuthenticatedBridgeSession`
(feed count, time of the last wait, responses still to be sent). An action is what
runs between two awaits: one per frame handler and state, the two halves of the
client's answer to a challenge (`begin_challenge`, then the vault, then
`finish_challenge`), the per-frame timer of `_admit`, one command, one response,
one feed element, expiry, disconnect, the end of a feed, silently (`FeedEnds`) or by
raising (`FeedRaises`, and `Discard` for its done callback), and the `finally` block of
`run`, which goes through the feeds one wait at a time (`Cleanup`, `CancelFeed`). It
ends `closed`, or `raised` when it meets a feed that had raised: it suppresses
`CancelledError` only.

Nonces, session ids and generations are symbolic: a connect is its own client
nonce, a session its own server nonce. A signature is a key and the transcript it
covers; transcripts are compared field by field, which is what the canonical JSON
comparison does. `net` keeps every frame, and any of them may
arrive at any connection at any time. So may any hello and any command, a challenge
rewritten for the connect it arrives at, and a proof under another session's
identifier; nobody makes a signature with a key that is not theirs. The
acknowledgement has no signature, so that it comes from the server is left to the
transport, as the code leaves it. `clock` has monotonic time and two wall clocks;
`ClockStep` sets a wall clock back or forward.

`send_text` is taken to complete: a send that never returns would keep the server
in `_admit` beyond what `UnadmittedSessionsAreShort` says.

`ChannelAdmission` is the protocol without frames. `ImplementsAdmission` maps a
client's signed transcript to `authorised`, a session's admitted transcript to
`admitted` and the client's authenticated state to `confirmed`.

### BridgeClient

Tasks of one event loop, each step from one suspension to the next. `conn[c]` is
the socket, receive task and ready future that call `c` has opened (a call opens
one at most); `websocket`, `receiver`, `waiter`, `lock`, `pending` and `streams`
are the client's fields. Calls are of four kinds: `connect`, an untracked send, a
request, a flow. They can be cancelled where they wait; requests can time out; the
socket can be lost at any point; the peer can send any answer, and sign commands.
The authentication is here one step that succeeds or fails (its frames are in
`BridgeChannel`). The send lock is left out: a send succeeds or fails in one step,
any time after the call could first have made it.

### ChatAdmission

`get` and `set` run a handler under the Cell's state lock: one action each.
`add_agreement` does not hold the lock; it is `RequestAgreement`, one
`CheckCondition` per condition and `SignContract` on the last of them, with
anything in between, or `ApproveAgreement` when the template has no condition.
An artifact is a uuid, a key and a number; time is the number of artifacts of a
uuid that have expired, oldest first. A batch is a set of invitees and the subset
whose signing fails. Access is the check of a contract's own conditions at the
time of access (`Allows`). Who may write `audience.*` is not a parameter, since
the owner may do all of it at any time; grants do not change and are left out.

### InviteLanding and Invitation

A landing handler holds the landing's lock for all it does. A refused call (400,
403, 404, 409, 410, 429) changes nothing and is not an action. Tickets stand for
signed tokens; a code is a hash and may clash; replies may be forged, and the
landing verifies them.

The Cell's handlers hold its state lock while they call landings, so a handler
with its calls is one action, and each call in it is answered, handled with the
answer lost, or left in `late` to be handled after the Cell gave up. Landings may
restart and then have an empty store; calls on their way to one are dropped with
its connections. There is one clock for all hosts. What is trusted: signed
publications and revocation notices cannot be forged, and a landing's status
answer is believed, as the code does; the replies it relays are verified again.

### EntityAnchor

A handler runs under the Cell's state lock, signing included: one action each. The
pieces of an enrolment (request, approval with credential, presentation) are made
by `SignRequest`, `ApproveEnrollment` and `Present` and stay available for ever;
`CompleteEnrollment` is given any four of them. A request stands for its hash; an
approval and its credential are one package, since the credential repeats what the
approval says, but a completion may take them from two packages. Scopes stand for
domains and identity contexts too, which are compared in the same way. `records`
and `proofs` are the two places where a link is stored. `used` has the jtis in
`usedApprovalJTIs`, which is keyed by `safe_record_key`: `UsedWith` drops the one
that had the key before. Approval ids are UUIDs and therefore fresh; a jti may be
the caller's choice. Direct writes (`set` and `entity.batchPersist` below
`identityLinks` or `proofs`) are counted in `writes`, because whoever makes them may
store anything, the seal and its record included, under another spelling of their paths: the properties of links are about states without them, and
`SealIsKept` about steps that are none of them.

### EntityExtension

A place is its owner's descriptor. A handler runs under the Cell's state lock,
signing included: one action each; `reviewRequest` changes nothing and is the guard
of an approval. `requests` and `approvals` are the packets that were ever signed,
which people carry, so that each may be presented late, again, or never, with or
without the issuer's descriptor; an approval may also be presented with other scopes
under the old signature (`Altered`). `outgoing[p]` is the list a place keeps of its
requests, newest first; `IsNewest` is the first entry, the only one an approval is
compared with. `via` and `request` of a link are history. The lifetime keeps the
code's clamp with its falsy zero (`Ttl`). Its specification is `ExtensionSpec`, so that
`EntityProofs` can extend this module and `EntityAnchor` together.

### CellFlows and CellPublisher

All tasks share one event loop, and an action is what a task does between two
suspensions. In `CellFlows` a call of `absorb_flow`, `drop_flow` or `detach` runs to
its end unless the label's pump still runs: then it takes the pump off the register,
cancels it and waits (`Begin`), and goes on when the pump has ended (`Returns`) or
raises what the pump raised (`Raises`). `drop_all_flows` and `detach_all` go over the
labels registered when they begin (`BeginAll`), wait for one pump after the other with
the `rest` still to do (`Sweep`), and the second clears all attachments in the end.
`clashed` is history: labels on which an `absorb_flow` overlapped another or a `detach`,
or that were absorbed while a `detach_all` waited. One queue serves all consumers.

`CellPublisher` has the session's serve task, which calls the Cell for the remote
side, any number of other tasks that call it too (`Apps`: the application, other
sessions), each of which may be cancelled while it waits, one feed task per `feed`
command with its done callback (`Discard`), and `close()` with each of its waits. A cancellation that
reaches the serve task inside `drop_flow` is used up there (`ServeResumes`). The
bridge is reduced to whether it is connected; a send connects it again when it can.

### IdentityVault

A process takes a step per system call that another process, or a crash, can tell:
reading the key file, looking for its directories, making each that is missing and
syncing what contains it (`LookForParents`, `MakeParents`, `SyncParents`, which are
`_ensure_secure_parent`), creating the file with `O_EXCL`, writing it, the `fsync` of
file and directory, writing the temporary vault, `os.replace` and the last `fsync`. The
two directories are `home`, which holds the vault file, and `secrets` in it, which holds
the key; each is absent, made, or made and synced. `save` asks for the key first, so the
`_ensure_secure_parent` of the vault file itself always finds `home`. `keyLeft` and
`vaultLeft` are what a power loss at this moment may leave at each path, and `Disks` puts
them together with the directories: a change that is not synced may be there or not, and
what is in a directory that goes is gone. A kill ends one process and leaves the files. `memory` has the identities and the context table with its order of
insertion, which decides the one context of an identity that `save` stores. Four
history variables: three name what the code does not guard against, `borrowed` (a key
was read from a file that its writer had not synced), `inherited` (the directories that
a process found made and not synced, and went on with), `overlapped` (a process replaced a
file it had not read), and `settled` has the identities of saves that returned.

## 3. Runs

Each run is one module with one `.cfg`; two workers are enough, and none takes
much over three minutes.

| Run | Instance | Shows |
|---|---|---|
| `bridge_handshake` | 2 connects, 2 sessions, 2 identities that share a key, 2 endpoints; 389 744 states | who is admitted signed that session's transcript (`AdmissionAgreement`), in one connect and for one session (`OneProofPerConnect`); a client that believes it is admitted is (`ConfirmedOnBothSides`); refinement of `ChannelAdmission` |
| `bridge_serving` | 1 connect, 1 session, 2 feeds, 2 commands and sends, feeds that raise, wall clock set back 2 or forward 3; 625 300 states | no command reaches a Cell without admission or after expiry, nothing is sent after expiry, an unadmitted peer holds a session less than two deadlines, every handshake ends, and so does the `finally` block of a failed session, by closing the socket or by raising (`HandshakesEnd`) |
| `bridge_client` | a flow, a request, a close, 2 sign commands with one challenge; 404 579 states | one receive loop per socket, nobody waits for a connection that is gone, a challenge is signed once, a lost connection ends its calls |
| `chat_admission` | 1 invitee with 2 keys, 2 artifacts, 2 acceptances, 1 contract, symmetry; 515 332 states | one acceptance per artifact, records and admissions are backed by signatures, what can be accepted was issued and inspection says so, revocation lasts until reinstatement |
| `invite_landing` | 2 tickets with one code, 4 replies, one forged; 8 208 states | replies are verified and within limits, revocation lasts, a stored answer is reported |
| `invitation_answers` | primary and fallback, 1 restart, a signed and a forged reply, 2 status keys; 418 932 states | what the issuer takes for an answer was signed, a revocation carried out stays so |
| `invitation_duplicates` | 2 tickets for one person whose codes clash, 1 landing; 142 050 states | one open invitation at a time, a link that was handed out leads to its own ticket |
| `entity_anchor` | 2 identities, 2 requests, 2 approvals, 1 chosen jti, 1 direct write; 2 567 464 states | links are signed for by both keys (`LinksAreSigned`), one link per jti, proofs agree with records, a revoked link stays revoked |
| `entity_replay` | as above, with 2 jtis that have one key and no direct write | violation, see section 6 |
| `entity_extension` | a new place and an approving one, 2 requests, 4 records, lifetimes that run out; 906 658 states | one link in force per identity, a verified link was granted and its issuer has a record (`GrantedAndHeld`), the newest request rules, a revoked record is kept |
| `cell_publisher` | 1 label, 3 pumps, 3 commands, 2 calls of another task, 1 element, 1 lost connection; 1 463 545 states | a running pump is registered under a label that is attached (`PumpsAccountedFor`), what may be left after `close` (`ClosedForGood`), `close` ends (`CloseEnds`) |
| `identity_vault` | 2 processes, 2 contexts, 2 identities, 2 master keys, 1 kill, 1 power loss, symmetry; 6 702 362 states | the vault opens with the key beside it, a completed save is kept whatever a crash leaves, a restart gives no context to another identity |

**Bounds and why they are enough.** The handshake's mistakes (replay, redirection,
mixing of identities) need a second connect and a second session to be confused
with, and a second identity under the same key to tell "this key" from "this
identity"; the proofs remove the bound. The serving run has its lifetimes ordered
as the code has them (pre-auth deadline < challenge < channel) and lets time run
past the channel's expiry; two feeds are needed for one to be cancelled while the
other sends. In the chat, two keys of one uuid and two artifacts are the least for
a rebinding and for a stale artifact. Two invitees, for a batch that fails half-way
(56 292 states), were searched as well; `InspectAgrees` and `RevocationLasts` prove
what matters there for any number. A landing
has two tickets because codes clash in pairs, and a limit of one reply with two
good ones so that it is reached. Two landings are all the Cell can be set up with.
An anchor has two requests of one key, one of them for more scopes, and two
approvals, which is the least for mixing pieces and for two approvals under one jti.
An extension has two requests for an older and a newer one, and four records, enough
to approve, accept, revoke and accept again; the proofs remove the bound. A label
needs three pumps for one to be replaced while another is being replaced, and the
publisher three commands: a feed to wait for, a feed to take meanwhile, and a call of
the Cell. With one label a `detach_all` has nothing left to do after its wait; two labels
and three callers were searched for `PumpsAccountedFor` as well, with the session idle,
and the theorem is for any number. A vault needs two processes for the race to create the
key, to make the directories and to save, two identities that want one context, another
context to move to, and a kill as well as a power loss, since the first may prepare what
the second exposes. The exceptions in
`PumpsAccountedFor`, `VaultOpens`, `SavedIsKept` and `RestartKeepsContexts` were each
dropped once: TLC then finds a violation, so each of them is needed.
For the client, an instance with three calls and a closer without signing
(8.25 million states) was searched as well and has no violation; it is too long to
keep as a run.

**Deadlock** is checked in the chat, landing, invitation, anchor, extension and vault
runs. It is off for the bridge runs and the publisher: a session that is over and a
finite set of finished calls may stop, and the clock is bounded by `MaxTime`.

**Fairness.** `BridgeChannel`: time passes, and the event loop runs timers that are
due and tasks it cancelled (`Tick`, `ClientTimeout`, `ServerTimeout`, `CancelFeed`).
Nothing is assumed of the peer or the network, so that the handshake ends is due to
the code's own deadlines. `BridgeClient`: the loop runs ready tasks; authenticating
and the wait for `ready` end, as they run under `wait_for`; opening a socket, which does
not (`bridge.py:342`), ends because `websockets` has an open timeout; a socket that is being closed
closes, because `websockets` has a close timeout; a receive task that was cancelled
or whose socket is closed goes on. Nothing is assumed of the peer, of callers, or of
the request timeout, which a flow does not have. `CellPublisher`: a task whose wait
is over runs again, a cancelled pump or feed ends, a send ends or fails (the time limit
of `connect` and the keepalive of the socket library); nothing is assumed of the remote
side, the application or a pump that runs. Other modules check safety only.

## 4. Proofs

All theorems hold for every value of the constants under the modules' `ASSUME`s,
which say what the constants are (numbers, functions on the right sets, `NoValue`
different from values).

**BridgeChannelProofs.** `Invariance` shows `Spec => []IInv`. `AdmissionAgreement`
is not inductive: that an admitted session's transcript was signed by its connect
depends on which proofs can be on the network. `IInv` therefore adds `ProofInv`
(every proof that was sent is the signature of the connect it names, over that
connect's transcript), `AcceptedInv` (every acceptance that was sent is that of an
admitted session), `ClientInv` and `ServerInv` (what each side remembers in each
state, so that it does not sign or admit twice) and `WaitInv` (how long a wait has
lasted). From it follow `TypeCorrect`, `Agreement`, `Injectivity`, `Confirmation`,
`AdmittedCommands`, `SilentAfterExpiry`, `ShortUnadmitted`, and `Refinement`: every
step of `BridgeChannel` is a step of `ChannelAdmission` or leaves its variables
alone.

**ChatAdmissionProofs.** `IInv` has `Numbered` (artifacts are counted when they are
made, so a new one differs from all before), `RecordsHoldIssued`, `TakenWereSigned`,
`CurrentIsRemembered` (the table of consumed acceptances forgets only artifacts that
are no longer in force, which is what makes clearing safe) and `Backed`. Theorems:
`ChatTypeCorrect`, `SingleAcceptance`, `RecordsBacked`, `SignedAdmission`,
`InspectAgrees`, and the action properties `NoAdmissionByWithdrawal` and
`RevocationLasts`.

**InviteLandingProofs.** One landing by itself. `IInv` is the type invariant,
finiteness of the replies (for counting), `RepliesAreAccounted` and `CodesAreUnique`.
Theorems: `LandingTypeCorrect`, `RepliesAccounted`, `UniqueCodes`,
`RevocationIsFinal`, `AnswersKept`. The last rests on two lemmas: `status` tells an
answer or a revocation from everything else at any age of a ticket
(`StatusTellsAnswers`), and no handler takes either back (`AnsweredStep`).

**InvitationProofs.** The issuer's Cell with any number of landings, of lost and late
calls and of restarts. `PublicationAt`, `RevocationAt`, `ReplyAt` and `PurgeAt` say
once what a handler does to one landing among several. `AnswersAreGenuine` needs
`AnswersAreSigned`: what landings hold and report was signed by an invitee.
`RevokedTakesNoReply` needs `Withdrawals`: a revocation is sent, and carried out, only
for tickets that the Cell will not publish again (`Settled`), and where a ticket is
missing after it was revoked, it is past its day of grace or no publication of it is
on its way there (the restart that dropped it dropped them too). `OneOpenInvitation`
and `PublishedIsHeld` are inductive with the types. Most steps take nothing up (no new
entry, no new record, no new call but a notice); `QuietStep` deals with them together.
Theorems: `InvitationTypeCorrect`, `GenuineAnswers`, `OpenInvitations`,
`LinksLeadSomewhere`, `WithdrawnForGood`.

**EntityProofs, the anchor Cell.** `OneLinkPerJti` and `RevocationLasts` rest on the used jtis
covering the links that exist, so `IInv` adds `LinkedAreUsed` and, so that a link
belongs to one package, `IdsAreFresh`. Both properties are claimed while no two
approvals have jtis with the same key (`KeysApart`); section 6 shows what happens
otherwise. `LinksAreSigned`, `ProofsFollowRecords` and `SealIsKept` do not need it.
Theorems: `AnchorTypeCorrect`, `SignedLinks`, `SingleUse`, `ProofsAgree`,
`RevokedForGood`, `SealKept`.

**EntityProofs, the extension Cells.** `GrantedAndHeld` needs that every approval has a request
behind it and a record at its issuer (`ApprovalsAreBacked`: a record is replaced or
marked, never just dropped), and `NewestRequestRules` that a place accepts approvals
of its own identity only (`AcceptedIsOwn`), so that the new link displaces the one
before. Both are in `ExtensionIInv`; the lemma `Stored` says once what `_store_link` keeps.
Theorems: `ExtensionTypeCorrect`, `SingleLink`, `GrantedLinks`, `NewestRules`,
`RevocationIsKept`.

**IdentityVaultProofs.** Any number of processes, kills and power losses. That the key
beside the vault opens it depends on where every process is in `_master_key` and
`save`: one process at a time creates the key file, and until it has synced the
directory a power loss may leave none (`OneCreator`, which is what `O_EXCL` gives); a
process that goes on with a key has the one in the file (`KeyIsFiled`); what is at a
path is among what a power loss may leave there (`PathsAreLeft`). Over a power loss it
depends on the directories too: a process that has come past `_ensure_secure_parent` and
relies on no directory of another's has both of them synced (`Anchored`,
`ParentsAnchored`), so what it has saved is left (`SavedIsLeft`), with a key that opens it
(`KeysOpen`). `SavedIsKept` is not
inductive without `MemoryCoversBase` (a process has in memory all that was in the file
it read, so that what it writes covers it) and `ReplacedIsThere` (between `os.replace`
and the last `fsync` others only add). `RestartKeepsContexts` follows from the types:
positions in the table of contexts are bounded (`PlacesBounded`) and each identity has
a last one, by well-founded induction. Theorems: `VaultTypeCorrect`, `KeyOpensVault`,
`SavesAreDurable`, `ContextsSurvive`.

**CellPublisherProofs.** `IInv` has a part for the Cell's flows and one for the session.
`PumpsAccountedFor` needs to know of every call that waits inside `drop_flow` that
nothing is registered behind it unless its label has seen a clash (`WaitingOK`,
`ClashesAreMarked`), of a `detach_all` that only the labels it has still to drop are
registered, or marked (`DetachingOK`), that a registered pump is one of its label and not cancelled
(`RegisteredOK`), and that there is room for the pump of each waiting `absorb_flow`
(`RoomForPumps`). `ClosedForGood` needs which feeds `close()` has still to end at each
of its waits (`FeedsInHand`), that the stop event is `close()`'s (`StopIsClose`), that
the serve task takes one feed at most after it (`OneLateFeed`), and in which order
things end (`ServeEndsFirst`, `ConnectedByLate`). Theorems: `PublisherTypeCorrect`,
`PumpsAreFound`, `ClosesForGood`.

**BridgeClientProofs.** Any number of calls and closes. `OneReceiver` comes from the
connect lock and from what `close` waits for, in six parts (`Receivers`): a call that
opens a socket or authenticates has the lock; a loop that has not ended is the one of
`_receiver_task`; at most one loop that has not begun is left while a socket is opened,
and none while the channel is authenticated; a `close` whose loop has ended finds no
other loop in its place; a loop's socket is its own or none. `NobodyWaitsAlone` adds
`Waiters`: who waits is registered, a loop that is cancelled is waited for by the
`close` that cancelled it, and while there is a socket, or somebody waits, a loop, an
authentication or a `close` is under way. `ChallengeSignedOnce` needs that a challenge
is entered before the vault is asked (`SigningIsEntered`). Theorems:
`ClientTypeCorrect`, `ReceiverIsAlone`, `WaitersAreTended`, `SignsOnce`.

**Proved and in no run**: the type invariants of these modules (`TypeOK`) but for those
of `BridgeClient` and `Invitation`, which runs check too,
`WithdrawalNeverAdmits` (`NoAdmissionByWithdrawal`), `CodesAreUnique` (`UniqueCodes`)
and `SealIsKept` (`SealKept`).

**Only model-checked**: liveness (`HandshakesEnd`, `LostConnectionEndsCalls`,
`CloseEnds`), since the prover has no rules for fairness and `ENABLED`. Every safety
property of a run that passes is also a theorem.

## 5. What is not modelled

* Encoding, canonical JSON, URL normalisation and cryptography: equality of values
  and unforgeable signatures stand for them.
* HTTP routing, the landing's rate limiter (a refused call is a call that is not
  handled), link texts, drafts and counters, the issuer's `revoked` list, open
  telemetry of the issuer.
* A chat's composer and messages; grants and keypath matching.
* The resolver: dictionaries that are read and changed under one lock.
* `WebSocketBridgeSession`, the session without authentication, whose feeds are ended
  as the publisher's are.
* Of the vault: a master key, or a path for its file, from the environment; directories
  above the two, which are taken to be there and synced; an `fsync` that reports an error
  after a directory was made; tag keys, identities without a private key, and the refusal
  of legacy files.
* Of an extension: audience, origin, domains, contexts and the human code, which are
  carried along; `last_result`, which nothing reads.
* Of an enrolment: audience, origin, challenge and domain, which are compared with
  values from the same caller; approvals without fresh authentication, which are
  never taken; `verify_genesis`, which the Cell does not call.
* Floating-point analysis Cells and small tables under one lock.

Behaviour the models have that no property is about:

* `collect` deletes replies before its answer is delivered
  (`cellprotocol_scaffold/invite_landing.py:282`), so a lost answer loses them; the
  code has no acknowledgement that would prevent it.
* Nothing under `src/` calls `purge_expired` (line 179), so in practice expired
  tickets stay until the process ends. The model has the action, as an operation
  of the landing.
* A landing that took a publication whose answer was lost is not recorded in the
  entry, so `revoke` does not tell it (`cells/invitation.py:606`) and it goes on
  serving the ticket, although line 608 says "Lenken slutter å virke med én gang."
* `set` compares the paths of the seal and of the genesis record as they are spelt
  (`cells/entity_anchor.py:123`), so `identityLinks..genesis`, or a path below the record,
  gets through; `entity.batchPersist` refuses the plain path of the seal only (line 168);
  and a write to `identityLinks` as a whole drops both, whichever way it is made.
* A feed of an authenticated session that raised while the `finally` block waited for
  another one makes `run` raise (`cellprotocol_scaffold/bridge_auth.py:75`): the feeds
  behind it are not cancelled, and the session does not close its socket.
* An approval is not remembered as used: it may be accepted again after its link was
  revoked, while its request is the newest one listed, and gives a new link
  (`cells/entity_extension.py:448`). Once `clearPending` has taken the newer request
  away, an approval of the older one is accepted. Without the issuer's descriptor no
  signature is checked; the link then has `via = "accepted"`.
* Two overlapping `absorb_flow` calls on a label, or an `absorb_flow` and a `detach`,
  leave a pump that nothing has registered (`general_cell.py:214`): `drop_flow` takes
  the old pump off before it waits for it. `detach_all` clears all attachments after its
  waits (line 229), those of labels absorbed meanwhile too, whose pumps go on. The state
  lock is not held in any of them.
* All consumers of a Cell's flow share one queue (`general_cell.py:256`), so elements
  are divided among them, and a completion ends one of them.
* A feed that the serve task takes on while `close()` waits for another one is never
  cancelled; it lives on after `close()` and connects the bridge again with the next
  element (`bridge.py:638`). `ClosedForGood` says that there is one such at most.
  A `close()` that raises, because a feed or the serve task had failed, leaves the rest
  to a second call.
* `run()` waits for commands on a queue that nothing closes when the connection is
  lost (`bridge.py:660`), so it does not return then.
* A process that reads the master key before its writer has synced it may save a vault
  under a key that a power loss takes away (`identity.py:289`). A process killed
  between the creation of the key file and the write leaves an empty file, and every
  later `save` is refused until somebody removes it (`identity.py:590`).
* A directory for the vault or its key that was made by a process which ended, or was
  overtaken, before the `fsync` of what contains it is never synced by those that find it
  there (`identity.py:632`). A power loss may then take the vault's directory with a save
  that returned, or the key's directory and leave the vault.
* Two processes that loaded one vault save over each other (`identity.py:257`).
* `save` stores one context per identity. An identity that lost its last context to
  another is stored under its display name, and may take that context from the other
  at the next start (`identity.py:263`).
* `verify_completion` does not ask whether the issuer of an approval is a key of the
  entity; who may call `completeEnrollment` decides which issuers are believed.
* When `close` overlaps a `connect`, the socket opened last may stay open with no
  task to read it; the calls that wait for it end (`NobodyWaitsAlone`).

## 6. Disagreements between code and text

One is kept as a run that is expected to fail, since it concerns a test's claim about
every replay:

| Run | What happens | What the repository says |
|---|---|---|
| `entity_replay` | a used jti is stored under a key in which some characters are replaced, so another one may displace it; the first envelope is then completed again, also after a revocation (`cells/entity_anchor.py:256`) | `src/tests/test_entity_anchor_links.py:123`: `assert replay["code"] == "replayDetected"` |

Three more were found in the same way and are in the models, as behaviour that the
properties allow:

* The owner empties the admission conditions while `add_agreement` awaits one; the
  contract is signed with no condition (`general_cell.py:317`), where
  `cells/chat.py:15` says "with none, only an owner-approved Agreement admits".
* Inviting a known uuid under another key keeps the artifact and its status, so the old
  key's acceptance admits the new key (`cells/chat.py:494`), where `cells/chat.py:13`
  says "the requester presented a signed acceptance of a current, unrevoked invitation".
  `AdmissionIsSigned` states what does hold: an admission rests on an acceptance of the
  artifact in force, whoever's key it was made out to.
* Publishing again after a lost answer records a status key that the landing does not
  have (`cells/invitation.py:466`), where line 455 says "(statusKey, landingBase) from
  the first host that accepts". `RevokedTakesNoReply` says what holds: a landing that
  was told stays told.

## 7. Plan

Done: `BridgeChannel` with its abstract specification, `ChatAdmission`,
`InviteLanding`, `Invitation`, `BridgeClient`, `EntityAnchor`, `EntityExtension`,
`CellFlows` with `CellPublisher`, `IdentityVault`; proofs of the safety properties of
all of them.

Next, in this order:

1. Proofs: what the landings of `Invitation` promise one by one (`RepliesAreAccounted`,
   `CodesAreUnique`), for all of them under the issuer's calls; that a publisher whose
   `close()` has returned stays closed (`ClosedForGood` as a step property).
2. `Resolver`: named, scaffold-unique and identity-unique instances under its lock.
3. A chat's messages, for what becomes of a composer whose author loses access.

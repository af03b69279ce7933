----------------------------- MODULE BridgeClient -----------------------------
(***************************************************************************)
(* The outbound bridge client (WebSocketBridgeClient of bridge.py): tasks  *)
(* of one event loop share a connection.  Calls connect when they need to, *)
(* send a command and wait for the answer, or iterate over a flow; other   *)
(* tasks close the client; the receive loop hands out what arrives, and    *)
(* answers the peer's signing challenges in tasks of their own.            *)
(*                                                                         *)
(* A step runs from one suspension to the next.  Opening a socket and      *)
(* closing one always suspend.  The frames of the authentication are those *)
(* of BridgeChannel; here it succeeds or fails.  A call opens at most one  *)
(* socket, so a connection is named after the call that opened it.  The    *)
(* lock around sending is left out: a send succeeds or fails in one step,  *)
(* any time after the call could first have made it.                       *)
(***************************************************************************)
EXTENDS Naturals, FiniteSets

CONSTANTS
    Calls,       \* the calls that need a connection, by their cid
    KindOf,      \* what each of them is
    Closers,     \* the calls of close
    MaxSigns,    \* bound on the sign commands the peer sends
    Challenges,  \* valid signing challenges for this identity
    NoValue      \* Python's None

(* connect, send_untracked, _send_command and flow.                        *)
Kinds == {"connect", "send", "request", "flow"}

ASSUME BoundAssumption == MaxSigns \in Nat

ASSUME KindAssumption == KindOf \in [Calls -> Kinds]

ASSUME NameAssumption == NoValue \notin Calls /\ Calls \cap Closers = {}

VARIABLES
    authenticate,  \* the client's setting
    websocket,     \* _websocket: a connection, or NoValue
    receiver,      \* _receiver_task: that of a connection, or NoValue
    waiter,        \* _ready_waiter: that of a connection, or NoValue
    lock,          \* who holds _connect_lock, or NoValue
    pending,       \* the cids in _pending
    streams,       \* the cids in _streams
    conn,          \* connection -> its socket, receive task and ready future
    task,          \* call -> where it is and what it has got
    used,          \* _used_signing_challenges
    signer         \* signing task -> where it is and its challenge

links == <<websocket, receiver, waiter>>
tables == <<pending, streams>>
signing == <<used, signer>>
vars == <<authenticate, websocket, receiver, waiter, lock, pending, streams, conn,
          task, used, signer>>

Agents == Calls \cup Closers

(* The tasks that answer sign commands, in the order they are made.        *)
SignTasks == 1..MaxSigns

(* cancelled: cancel() was called on the receive task, which has not ended *)
(* yet.                                                                    *)
Connections ==
    [socket: {"none", "open", "closed"}, loop: {"none", "new", "running", "done"},
     cancelled: BOOLEAN, ready: {"none", "pending", "ready", "failed"}]

(* got: the future of a request, or for a flow the end marker in its queue;*)
(* target: the socket, then the task, that close() waits for, or the       *)
(* connection the command was sent on; neither matters after the call.     *)
Tasks ==
    [at: {"idle", "locking", "opening", "authenticating", "awaitingReady", "sending",
          "waiting", "closingSocket", "closingTask", "done", "failed"},
     got: {"none", "response", "error", "cancelled"}, target: Calls \cup {NoValue}]

Signers ==
    [at: {"idle", "signing", "denied", "signed"},
     challenge: Challenges \cup {NoValue}]

Ended(at) == [at |-> at, got |-> "none", target |-> NoValue]

Init ==
    /\ authenticate \in BOOLEAN
    /\ websocket = NoValue /\ receiver = NoValue /\ waiter = NoValue /\ lock = NoValue
    /\ pending = {} /\ streams = {}
    /\ conn = [c \in Calls |->
           [socket |-> "none", loop |-> "none", cancelled |-> FALSE, ready |-> "none"]]
    /\ task = [a \in Agents |-> [at |-> "idle", got |-> "none", target |-> NoValue]]
    /\ used = {}
    /\ signer = [k \in SignTasks |-> [at |-> "idle", challenge |-> NoValue]]

Alive(c) == conn[c].loop \in {"new", "running"}

IsConnected == websocket # NoValue /\ receiver # NoValue /\ Alive(receiver)

-----------------------------------------------------------------------------
(* connect *)

(* Mutant: a flow registers among the requests.                            *)
RegisteredInPending(c) ==
    /\ task' = [task EXCEPT ![c].at = IF KindOf[c] = "connect" THEN "done" ELSE "sending"]
    /\ pending' = IF KindOf[c] \in {"request", "flow"} THEN pending \cup {c} ELSE pending
    /\ streams' = streams

(* connect returned: a request or a flow registers under its cid, without  *)
(* a suspension in between.                                                *)
Registered(c) ==
    /\ task' = [task EXCEPT ![c].at = IF KindOf[c] = "connect" THEN "done" ELSE "sending"]
    /\ pending' = IF KindOf[c] = "request" THEN pending \cup {c} ELSE pending
    /\ streams' = IF KindOf[c] = "flow" THEN streams \cup {c} ELSE streams

Start(c) ==
    /\ task[c].at = "idle"
    /\ IF IsConnected THEN Registered(c)
       ELSE task' = [task EXCEPT ![c].at = "locking"] /\ UNCHANGED tables
    /\ UNCHANGED <<authenticate, links, lock, conn, signing>>

(* Mutant: whether another call has connected meanwhile is not asked.      *)
AcquireAnyway(c) ==
    /\ task[c].at = "locking" /\ lock = NoValue
    /\ lock' = c /\ waiter' = c
    /\ conn' = [conn EXCEPT ![c].ready = "pending"]
    /\ task' = [task EXCEPT ![c].at = "opening"]
    /\ UNCHANGED <<authenticate, websocket, receiver, tables, signing>>

(* The lock is free: look again, then make a new ready future and open.    *)
Acquire(c) ==
    /\ task[c].at = "locking" /\ lock = NoValue
    /\ IF IsConnected
       THEN Registered(c) /\ UNCHANGED <<lock, waiter, conn>>
       ELSE /\ lock' = c /\ waiter' = c
            /\ conn' = [conn EXCEPT ![c].ready = "pending"]
            /\ task' = [task EXCEPT ![c].at = "opening"]
            /\ UNCHANGED tables
    /\ UNCHANGED <<authenticate, websocket, receiver, signing>>

(* What the event loop has scheduled already, a receive task to begin or a *)
(* close to go on after one, runs before a socket can be there whose       *)
(* opening began only after that.                                          *)
Settled ==
    /\ \A i \in Calls : conn[i].loop # "new"
    /\ \A a \in Agents : task[a].at = "closingTask" => Alive(task[a].target)

Opened(c) ==
    /\ task[c].at = "opening" /\ Settled
    /\ websocket' = c
    /\ conn' = [conn EXCEPT ![c].socket = "open",
                            ![c].loop = IF authenticate THEN "none" ELSE "new"]
    /\ IF authenticate
       THEN task' = [task EXCEPT ![c].at = "authenticating"] /\ UNCHANGED <<receiver, lock>>
       ELSE /\ task' = [task EXCEPT ![c].at = "awaitingReady"]
            /\ receiver' = c /\ lock' = NoValue
    /\ UNCHANGED <<authenticate, waiter, tables, signing>>

OpenFails(c) ==
    /\ task[c].at = "opening"
    /\ task' = [task EXCEPT ![c].at = "failed"]
    /\ lock' = NoValue
    /\ UNCHANGED <<authenticate, links, tables, conn, signing>>

(* _authenticate_channel returns.  The last frame may still be read from   *)
(* the socket after somebody has taken _websocket away.                    *)
Authenticated(c) ==
    /\ task[c].at = "authenticating" /\ conn[c].socket = "open"
    /\ conn' = [conn EXCEPT ![c].loop = "new",
                            ![c].ready = IF @ = "pending" THEN "ready" ELSE @]
    /\ receiver' = c /\ lock' = NoValue
    /\ task' = [task EXCEPT ![c].at = "awaitingReady"]
    /\ UNCHANGED <<authenticate, websocket, waiter, tables, signing>>

ReadyArrived(c) ==
    /\ task[c].at = "awaitingReady" /\ conn[c].ready = "ready"
    /\ Registered(c)
    /\ UNCHANGED <<authenticate, links, lock, conn, signing>>

ReadyFailed(c) ==
    /\ task[c].at = "awaitingReady" /\ conn[c].ready = "failed"
    /\ task' = [task EXCEPT ![c].at = "failed"]
    /\ UNCHANGED <<authenticate, links, lock, tables, conn, signing>>

-----------------------------------------------------------------------------
(* close, and _fail_pending with _close_streams *)

(* What the waiting calls have got when both tables are emptied.           *)
Released(a) ==
    IF a \in pending \cup streams /\ task[a].got = "none" THEN "error" ELSE task[a].got

(* After close() a call fails and leaves the lock if it holds it.          *)
Closed(a) ==
    /\ websocket' = NoValue /\ receiver' = NoValue
    /\ pending' = {} /\ streams' = {}
    /\ lock' = IF lock = a THEN NoValue ELSE lock
    /\ task' = [b \in Agents |->
           IF b # a THEN [task[b] EXCEPT !.got = Released(b)]
           ELSE Ended(IF a \in Calls THEN "failed" ELSE "done")]

(* The second half of close: cancel the receive task there is now.         *)
CancelReceiver(a) ==
    IF receiver # NoValue /\ Alive(receiver)
    THEN /\ conn' = [conn EXCEPT ![receiver].cancelled = TRUE]
         /\ task' = [task EXCEPT ![a].at = "closingTask", ![a].target = receiver]
         /\ UNCHANGED <<websocket, receiver, tables, lock>>
    ELSE Closed(a) /\ UNCHANGED conn

CloseStep(a) ==
    /\ IF websocket = NoValue THEN CancelReceiver(a)
       ELSE /\ task' = [task EXCEPT ![a].at = "closingSocket", ![a].target = websocket]
            /\ UNCHANGED <<websocket, receiver, tables, lock, conn>>
    /\ UNCHANGED <<authenticate, waiter, signing>>

Close(a) == a \in Closers /\ task[a].at = "idle" /\ CloseStep(a)

(* The authentication fails or times out, or its caller is cancelled.      *)
AuthenticationFails(c) == task[c].at = "authenticating" /\ CloseStep(c)

ReadyTimeout(c) ==
    /\ task[c].at = "awaitingReady" /\ conn[c].ready = "pending"
    /\ CloseStep(c)

SocketClosed(a) ==
    /\ task[a].at = "closingSocket"
    /\ conn[task[a].target].socket = "closed"
    /\ CancelReceiver(a)
    /\ UNCHANGED <<authenticate, waiter, signing>>

TaskEnded(a) ==
    /\ task[a].at = "closingTask" /\ ~Alive(task[a].target)
    /\ Closed(a)
    /\ UNCHANGED <<authenticate, waiter, conn, signing>>

-----------------------------------------------------------------------------
(* _send_command and flow *)

Forgotten(c) == pending' = pending \ {c} /\ streams' = streams \ {c}

(* The command goes out on whatever socket there is now.                   *)
Send(c) ==
    /\ task[c].at = "sending"
    /\ websocket # NoValue /\ conn[websocket].socket = "open"
    /\ task' = [task EXCEPT ![c] = IF KindOf[c] = "send" THEN Ended("done")
                                    ELSE [@ EXCEPT !.at = "waiting", !.target = websocket]]
    /\ UNCHANGED <<authenticate, links, lock, tables, conn, signing>>

SendFails(c) ==
    /\ task[c].at = "sending"
    /\ websocket # NoValue => conn[websocket].socket = "closed"
    /\ task' = [task EXCEPT ![c] = Ended("failed")]
    /\ Forgotten(c)
    /\ UNCHANGED <<authenticate, links, lock, conn, signing>>

(* The future is done, or the end marker is reached.                       *)
Return(c) ==
    /\ task[c].at = "waiting" /\ task[c].got # "none"
    /\ task' = [task EXCEPT ![c] = Ended(IF task[c].got = "response" \/ KindOf[c] = "flow"
                                         THEN "done" ELSE "failed")]
    /\ Forgotten(c)
    /\ UNCHANGED <<authenticate, links, lock, conn, signing>>

(* wait_for gives up on a request; the reader of a flow goes away.         *)
GiveUp(c) ==
    /\ task[c].at = "waiting" /\ task[c].got = "none"
    /\ task' = [task EXCEPT ![c] = Ended("failed")]
    /\ Forgotten(c)
    /\ UNCHANGED <<authenticate, links, lock, conn, signing>>

(* The caller is cancelled: a request stays in _pending, with its future   *)
(* cancelled.                                                              *)
Cancel(c) ==
    /\ task[c].at \in {"locking", "opening", "awaitingReady", "sending", "waiting"}
    /\ task' = [task EXCEPT ![c] = IF c \notin pending THEN Ended("failed")
                                    ELSE [@ EXCEPT !.at = "failed", !.got = "cancelled"]]
    /\ streams' = streams \ {c}
    /\ lock' = IF lock = c THEN NoValue ELSE lock
    /\ UNCHANGED <<authenticate, links, pending, conn, signing>>

-----------------------------------------------------------------------------
(* _answer_sign *)

(* Mutant: a challenge is entered once its signature is there.             *)
CheckSignLate(k, ch) ==
    /\ signer' = [signer EXCEPT ![k] =
           [at |-> IF \E j \in SignTasks : signer[j] = [at |-> "signed", challenge |-> ch]
                   THEN "denied" ELSE "signing",
            challenge |-> ch]]
    /\ used' = used \cup {ch}

(* The check, and the challenge entered before the vault is awaited.       *)
CheckSign(k, ch) ==
    /\ signer' = [signer EXCEPT ![k] =
           [at |-> IF ch \in used THEN "denied" ELSE "signing", challenge |-> ch]]
    /\ used' = used \cup {ch}

(* A challenge that is malformed, for another identity or key, out of its   *)
(* time or for a channel that is not admitted is refused and not entered.  *)
RefuseSign(k, ch) ==
    /\ signer' = [signer EXCEPT ![k] = [at |-> "denied", challenge |-> ch]]
    /\ UNCHANGED used

(* The vault answers or refuses; a challenge stays used either way.        *)
SignDone(k, outcome) ==
    /\ signer[k].at = "signing"
    /\ signer' = [signer EXCEPT ![k].at = outcome]
    /\ UNCHANGED <<authenticate, links, lock, tables, conn, task, used>>

-----------------------------------------------------------------------------
(* _receive_loop *)

(* A frame can be read: the peer sent it before the socket closed.         *)
Reading(i) == conn[i].loop = "running" /\ conn[i].socket = "open" /\ ~conn[i].cancelled

ReceiveReady(i) ==
    /\ Reading(i) /\ waiter # NoValue
    /\ conn' = [conn EXCEPT ![waiter].ready = IF @ = "pending" THEN "ready" ELSE @]
    /\ UNCHANGED <<authenticate, links, lock, tables, task, signing>>

(* The answer to a command: to its future, unless that is done already; an *)
(* element of a flow goes to its queue and needs no state.  Anything else  *)
(* goes to unhandled_commands.                                             *)
ReceiveResponse(i, c) ==
    /\ Reading(i)
    /\ task[c].target = i /\ c \in pending
    /\ pending' = pending \ {c}
    /\ task' = [task EXCEPT ![c].got = IF @ = "none" THEN "response" ELSE @]
    /\ UNCHANGED <<authenticate, links, lock, streams, conn, signing>>

(* A sign command: _answer_sign becomes a task that begins at the loop's   *)
(* next turn, in the order of arrival, with the check of the challenge.    *)
ReceiveSign(i, k, ch) ==
    /\ Reading(i)
    /\ signer[k].at = "idle" /\ \A j \in 1..(k - 1) : signer[j].at # "idle"
    /\ CheckSign(k, ch) \/ RefuseSign(k, ch)
    /\ UNCHANGED <<authenticate, links, lock, tables, conn, task>>

(* Mutant: the calls that wait for an answer are failed, the streams stay. *)
LoopEndedWithoutStreams(i) ==
    /\ conn' = [c \in Calls |->
           [conn[c] EXCEPT !.loop = IF c = i THEN "done" ELSE @,
                           !.cancelled = IF c = i THEN FALSE ELSE @,
                           !.ready = IF c = waiter /\ @ = "pending" THEN "failed" ELSE @]]
    /\ pending' = {} /\ websocket' = NoValue
    /\ task' = [a \in Agents |->
           IF a \in pending THEN [task[a] EXCEPT !.got = Released(a)] ELSE task[a]]
    /\ UNCHANGED <<authenticate, receiver, waiter, lock, streams, signing>>

(* The finally clause.                                                     *)
LoopEnded(i) ==
    /\ conn' = [c \in Calls |->
           [conn[c] EXCEPT !.loop = IF c = i THEN "done" ELSE @,
                           !.cancelled = IF c = i THEN FALSE ELSE @,
                           !.ready = IF c = waiter /\ @ = "pending" THEN "failed" ELSE @]]
    /\ pending' = {} /\ streams' = {} /\ websocket' = NoValue
    /\ task' = [a \in Agents |-> [task[a] EXCEPT !.got = Released(a)]]
    /\ UNCHANGED <<authenticate, receiver, waiter, lock, signing>>

(* The loop begins, and ends at once when _websocket is gone already.      *)
StartLoop(i) ==
    /\ conn[i].loop = "new" /\ ~conn[i].cancelled
    /\ IF websocket = NoValue THEN LoopEnded(i)
       ELSE /\ conn' = [conn EXCEPT ![i].loop = "running"]
            /\ UNCHANGED <<authenticate, links, lock, tables, task, signing>>

(* The socket is closed, or a frame cannot be decoded.                     *)
LoopFails(i) ==
    /\ conn[i].loop = "running" /\ ~conn[i].cancelled
    /\ LoopEnded(i)

(* CancelledError is raised where the loop waits for a frame; a task that  *)
(* has not begun ends without its finally clause.                          *)
LoopCancelled(i) ==
    /\ Alive(i) /\ conn[i].cancelled
    /\ IF conn[i].loop = "running" THEN LoopEnded(i)
       ELSE /\ conn' = [conn EXCEPT ![i].loop = "done", ![i].cancelled = FALSE]
            /\ UNCHANGED <<authenticate, links, lock, tables, task, signing>>

(* The connection is lost, or a close handshake that began ends.           *)
SocketLost(i) ==
    /\ conn[i].socket = "open"
    /\ conn' = [conn EXCEPT ![i].socket = "closed"]
    /\ UNCHANGED <<authenticate, links, lock, tables, task, signing>>

-----------------------------------------------------------------------------
Connect(c) ==
    \/ Start(c) \/ Acquire(c) \/ Opened(c) \/ OpenFails(c) \/ Authenticated(c)
    \/ AuthenticationFails(c) \/ ReadyArrived(c) \/ ReadyFailed(c) \/ ReadyTimeout(c)

Exchange(c) == Send(c) \/ SendFails(c) \/ Return(c)

Closing(a) == SocketClosed(a) \/ TaskEnded(a)

Loop(i) ==
    \/ StartLoop(i) \/ LoopFails(i) \/ LoopCancelled(i) \/ ReceiveReady(i)
    \/ \E c \in Calls : ReceiveResponse(i, c)
    \/ \E k \in SignTasks, ch \in Challenges : ReceiveSign(i, k, ch)

Next ==
    \/ \E c \in Calls : Connect(c) \/ Exchange(c) \/ GiveUp(c) \/ Cancel(c)
    \/ \E a \in Closers : Close(a)
    \/ \E a \in Agents : Closing(a)
    \/ \E i \in Calls : Loop(i) \/ SocketLost(i)
    \/ \E k \in SignTasks, o \in {"signed", "denied"} : SignDone(k, o)

Spec == Init /\ [][Next]_vars

(* The event loop runs every task that can go on; the opening of a socket  *)
(* ends one way or the other (the socket library has a time out for it),   *)
(* and so does the authentication (wait_for); and a socket that is being   *)
(* closed does close.  A receive loop goes on when it is cancelled or its  *)
(* socket is closed.  Nothing is assumed of the peer, of callers, or of    *)
(* the time out of a request.                                              *)
Fairness ==
    /\ \A c \in Calls :
        /\ WF_vars(task[c].at # "idle" /\ Connect(c))
        /\ WF_vars(Exchange(c))
        /\ WF_vars(StartLoop(c) \/ LoopCancelled(c))
        /\ WF_vars(conn[c].socket = "closed" /\ LoopFails(c))
        /\ WF_vars((\E a \in Agents : task[a].at = "closingSocket" /\ task[a].target = c)
                   /\ SocketLost(c))
    /\ \A a \in Agents : WF_vars(Closing(a))

LiveSpec == Spec /\ Fairness

-----------------------------------------------------------------------------
(* Properties *)

(* Every variable keeps its type.                                          *)
TypeOK ==
    /\ authenticate \in BOOLEAN
    /\ {websocket, receiver, waiter, lock} \subseteq Calls \cup {NoValue}
    /\ pending \subseteq {c \in Calls : KindOf[c] = "request"}
    /\ streams \subseteq {c \in Calls : KindOf[c] = "flow"}
    /\ conn \in [Calls -> Connections]
    /\ task \in [Agents -> Tasks]
    /\ used \subseteq Challenges
    /\ signer \in [SignTasks -> Signers]

(* However calls that connect and calls that close overlap, there is one   *)
(* receive loop at a time, and it never reads the socket of another        *)
(* connection through _websocket (connect, close, _receive_loop).          *)
OneReceiver ==
    \A i \in Calls : Alive(i) =>
        /\ receiver = i
        /\ websocket \in {i, NoValue}

(* A call that waits for an answer or for the next element is never left   *)
(* alone: its entry is there and a receive loop will read the answer or    *)
(* fail it, or a connection or a close is under way that will (_pending,   *)
(* _streams, _fail_pending, _close_streams).                               *)
NobodyWaitsAlone ==
    \A c \in Calls : task[c].at = "waiting" /\ task[c].got = "none" =>
        /\ c \in pending \cup streams
        /\ \/ \E i \in Calls : Alive(i)
           \/ \E a \in Agents :
                 task[a].at \in {"authenticating", "closingSocket", "closingTask"}

(* When its connection is lost, every call that was sent on it returns,    *)
(* a flow without a time out of its own too.                               *)
LostConnectionEndsCalls ==
    \A c \in Calls :
        (task[c].at = "waiting" /\ conn[task[c].target].socket = "closed")
            ~> task[c].at # "waiting"

(* No challenge is signed twice, though the vault is awaited between the   *)
(* check and the answer and several answers are under way at a time        *)
(* (_answer_sign).                                                         *)
ChallengeSignedOnce ==
    \A j, k \in SignTasks :
        signer[j].at = "signed" /\ signer[k].at = "signed"
        /\ signer[j].challenge = signer[k].challenge => j = k
=============================================================================

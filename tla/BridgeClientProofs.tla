------------------------- MODULE BridgeClientProofs --------------------------
(* Theorems about BridgeClient, for any number of calls, of closes and of   *)
(* signing challenges.                                                      *)
EXTENDS BridgeClient, TLAPS

(* ------------------------- The inductive invariant ----------------------- *)

(* A call that opens a socket or authenticates holds the lock: these are   *)
(* the steps from which a receive loop can come.                           *)
ConnectorHoldsLock ==
    \A c \in Calls : task[c].at \in {"opening", "authenticating"} => lock = c

(* A loop that has not ended is the one of _receiver_task, and one that    *)
(* has begun reads the socket it was made for.                             *)
LoopIsReceiver ==
    \A i \in Calls :
        /\ Alive(i) => receiver = i
        /\ conn[i].loop = "running" => websocket = i

(* A socket is opened while no loop reads: at most one is left that has    *)
(* not begun and that finds no socket when it does.                        *)
OpeningIsQuiet ==
    \A c, i \in Calls : task[c].at = "opening" /\ Alive(i) =>
        conn[i].loop = "new" /\ websocket = NoValue

(* Nor is there a loop, or a close waiting for one, while the channel is   *)
(* authenticated, and the socket is nobody else's.                         *)
AuthenticatingIsQuiet ==
    \A c \in Calls : task[c].at = "authenticating" =>
        /\ \A i \in Calls : ~Alive(i)
        /\ \A a \in Agents : task[a].at # "closingTask"
        /\ websocket \in {c, NoValue}

(* A close that waited for a loop which has ended finds no other loop in   *)
(* its place.                                                              *)
NoLoopBehindClose ==
    \A a \in Agents : task[a].at = "closingTask" =>
        /\ task[a].target \in Calls
        /\ Alive(task[a].target) \/ \A i \in Calls : ~Alive(i)

(* A new loop has the socket of its connection, or none.                   *)
SocketIsOwn == \A i \in Calls : Alive(i) => websocket \in {i, NoValue}

Receivers ==
    /\ ConnectorHoldsLock /\ LoopIsReceiver /\ OpeningIsQuiet
    /\ AuthenticatingIsQuiet /\ NoLoopBehindClose /\ SocketIsOwn

(* A call that was registered and has got nothing is still registered.     *)
UnansweredIsRegistered ==
    \A c \in Calls :
        /\ task[c].at = "sending" => KindOf[c] # "connect"
        /\ task[c].at = "waiting" => KindOf[c] \in {"request", "flow"}
        /\ /\ task[c].at \in {"sending", "waiting"} /\ task[c].got = "none"
           /\ KindOf[c] \in {"request", "flow"}
           => c \in pending \cup streams

(* Somebody will see to the calls that wait.                               *)
Tended ==
    \/ \E i \in Calls : Alive(i)
    \/ \E a \in Agents : task[a].at \in {"authenticating", "closingSocket", "closingTask"}

(* Only a close that waits for it cancels a loop, and the mark goes with   *)
(* the loop.                                                               *)
CancelledIsAwaited ==
    \A i \in Calls : conn[i].cancelled =>
        /\ Alive(i)
        /\ \E a \in Agents : task[a].at = "closingTask" /\ task[a].target = i

SocketIsTended == websocket # NoValue => Tended

WaitingIsTended ==
    \A c \in Calls : task[c].at = "waiting" /\ task[c].got = "none" => Tended

Waiters ==
    /\ UnansweredIsRegistered /\ CancelledIsAwaited /\ SocketIsTended /\ WaitingIsTended

(* A challenge is entered before the vault is asked, and is asked for once.*)
SigningIsEntered ==
    \A k \in SignTasks : signer[k].at \in {"signing", "signed"} => signer[k].challenge \in used

SignedApart ==
    \A j, k \in SignTasks :
        /\ signer[j].at \in {"signing", "signed"} /\ signer[k].at \in {"signing", "signed"}
        /\ signer[j].challenge = signer[k].challenge
        => j = k

Signatures == SigningIsEntered /\ SignedApart

Core == TypeOK /\ Receivers /\ Waiters

IInv == Core /\ Signatures

(* ------------------- What the steps do to calls and loops ---------------- *)

Places == {"idle", "locking", "opening", "authenticating", "awaitingReady", "sending",
           "waiting", "closingSocket", "closingTask", "done", "failed"}

Gots == {"none", "response", "error", "cancelled"}

(* A call is at a place, has got something or nothing, and may have a      *)
(* connection in view.                                                     *)
LEMMA TaskType ==
    ASSUME TypeOK, NEW a \in Agents
    PROVE  /\ task[a] \in Tasks
           /\ task[a].at \in Places /\ task[a].got \in Gots
           /\ task[a].target \in Calls \cup {NoValue}
BY DEF TypeOK, Tasks, Places, Gots

(* A connection has a socket, a loop and a ready future.                   *)
LEMMA ConnType ==
    ASSUME TypeOK, NEW i \in Calls
    PROVE  /\ conn[i] \in Connections
           /\ conn[i].socket \in {"none", "open", "closed"}
           /\ conn[i].loop \in {"none", "new", "running", "done"}
           /\ conn[i].cancelled \in BOOLEAN
           /\ conn[i].ready \in {"none", "pending", "ready", "failed"}
BY DEF TypeOK, Connections

(* A call moves on.                                                        *)
LEMMA SetAt ==
    ASSUME TypeOK, NEW a \in Agents, NEW s \in Places, task' = [task EXCEPT ![a].at = s]
    PROVE  /\ task' \in [Agents -> Tasks]
           /\ \A b \in Agents : /\ task'[b].at = IF b = a THEN s ELSE task[b].at
                                /\ task'[b].got = task[b].got
                                /\ task'[b].target = task[b].target
<1>1. task[a] \in Tasks /\ task \in [Agents -> Tasks]
  BY TaskType DEF TypeOK
<1>2. /\ [task[a] EXCEPT !.at = s] \in Tasks
      /\ [task[a] EXCEPT !.at = s].at = s
      /\ [task[a] EXCEPT !.at = s].got = task[a].got
      /\ [task[a] EXCEPT !.at = s].target = task[a].target
  BY <1>1 DEF Tasks, Places
<1>3. task' = [task EXCEPT ![a] = [task[a] EXCEPT !.at = s]]
  OBVIOUS
<1> QED BY <1>1, <1>2, <1>3

(* A call is over, or is put as a whole.                                   *)
LEMMA SetTask ==
    ASSUME TypeOK, NEW a \in Agents, NEW r \in Tasks, task' = [task EXCEPT ![a] = r]
    PROVE  /\ task' \in [Agents -> Tasks]
           /\ \A b \in Agents : task'[b] = IF b = a THEN r ELSE task[b]
BY DEF TypeOK

(* What is left of a call that is over.                                    *)
LEMMA EndedType ==
    ASSUME NEW s \in Places
    PROVE  /\ Ended(s) \in Tasks
           /\ Ended(s).at = s /\ Ended(s).got = "none" /\ Ended(s).target = NoValue
BY DEF Ended, Tasks, Places

(* A call gets something.                                                  *)
LEMMA SetGot ==
    ASSUME TypeOK, NEW a \in Agents, NEW g \in Gots
    PROVE  /\ [task[a] EXCEPT !.got = g] \in Tasks
           /\ [task[a] EXCEPT !.got = g].at = task[a].at
           /\ [task[a] EXCEPT !.got = g].got = g
           /\ [task[a] EXCEPT !.got = g].target = task[a].target
<1>1. task[a] \in Tasks
  BY TaskType
<1> QED BY <1>1 DEF Tasks, Gots

(* connect returned: the call is over, or is about to send and registered  *)
(* if it is to wait.                                                       *)
LEMMA RegisteredFacts ==
    ASSUME TypeOK, NEW c \in Calls, Registered(c)
    PROVE  /\ task' \in [Agents -> Tasks]
           /\ \A b \in Agents : /\ b # c => task'[b].at = task[b].at
                                /\ task'[b].got = task[b].got
                                /\ task'[b].target = task[b].target
           /\ task'[c].at \in {"done", "sending"}
           /\ task'[c].at = "sending" => KindOf[c] # "connect"
           /\ pending \subseteq pending' /\ streams \subseteq streams'
           /\ pending' \subseteq {d \in Calls : KindOf[d] = "request"}
           /\ streams' \subseteq {d \in Calls : KindOf[d] = "flow"}
           /\ KindOf[c] \in {"request", "flow"} => c \in pending' \cup streams'
<1> DEFINE s == IF KindOf[c] = "connect" THEN "done" ELSE "sending"
<1>1. /\ c \in Agents /\ s \in Places /\ s \in {"done", "sending"}
      /\ s = "sending" => KindOf[c] # "connect"
  BY DEF Agents, Places
<1>2. task' = [task EXCEPT ![c].at = s]
  BY DEF Registered
<1> HIDE DEF s
<1>3. /\ task' \in [Agents -> Tasks]
      /\ \A b \in Agents : /\ task'[b].at = IF b = c THEN s ELSE task[b].at
                           /\ task'[b].got = task[b].got
                           /\ task'[b].target = task[b].target
  BY <1>1, <1>2, SetAt
<1> QED BY <1>1, <1>3 DEF Registered, TypeOK

(* Emptying the tables gives every call that was in them something.        *)
LEMMA ReleasedType ==
    ASSUME TypeOK, NEW a \in Agents
    PROVE  /\ Released(a) \in Gots
           /\ a \in pending \cup streams => Released(a) # "none"
           /\ a \notin pending \cup streams => Released(a) = task[a].got
           /\ task[a].got # "none" => Released(a) # "none"
<1>1. task[a].got \in Gots
  BY TaskType
<1> QED BY <1>1 DEF Released, Gots

(* And nothing else of it changes.                                         *)
LEMMA ReleasedTask ==
    ASSUME TypeOK, NEW a \in Agents
    PROVE  /\ [task[a] EXCEPT !.got = Released(a)] \in Tasks
           /\ [task[a] EXCEPT !.got = Released(a)].at = task[a].at
           /\ [task[a] EXCEPT !.got = Released(a)].got = Released(a)
           /\ [task[a] EXCEPT !.got = Released(a)].target = task[a].target
<1>1. Released(a) \in Gots
  BY ReleasedType
<1> QED BY <1>1, SetGot

(* The end of close(): no socket, no loop of record, nobody registered.    *)
LEMMA ClosedFacts ==
    ASSUME TypeOK, NEW a \in Agents, Closed(a)
    PROVE  /\ websocket' = NoValue /\ receiver' = NoValue
           /\ pending' = {} /\ streams' = {}
           /\ lock' = IF lock = a THEN NoValue ELSE lock
           /\ task' \in [Agents -> Tasks]
           /\ task'[a].at \in {"done", "failed"}
           /\ \A b \in Agents \ {a} : /\ task'[b].at = task[b].at
                                      /\ task'[b].target = task[b].target
                                      /\ task'[b].got = Released(b)
<1>1. \A b \in Agents \ {a} : task'[b] = [task[b] EXCEPT !.got = Released(b)]
  BY DEF Closed
<1>2. task'[a] = Ended("failed") \/ task'[a] = Ended("done")
  BY DEF Closed
<1>3. "failed" \in Places /\ "done" \in Places
  BY DEF Places
<1>4. task'[a] \in Tasks /\ task'[a].at \in {"done", "failed"}
  BY <1>2, <1>3, EndedType
<1>5. \A b \in Agents \ {a} : /\ task'[b] \in Tasks
                              /\ task'[b].at = task[b].at
                              /\ task'[b].target = task[b].target
                              /\ task'[b].got = Released(b)
  BY <1>1, ReleasedTask
<1>6. task' \in [Agents -> Tasks]
  BY <1>4, <1>5 DEF Closed
<1> QED BY <1>4, <1>5, <1>6 DEF Closed

(* The end of a receive loop: its record is over, there is no socket, and  *)
(* nobody is registered.                                                   *)
LEMMA LoopEndedFacts ==
    ASSUME TypeOK, NEW i \in Calls, LoopEnded(i)
    PROVE  /\ conn' \in [Calls -> Connections]
           /\ conn'[i].loop = "done" /\ ~conn'[i].cancelled
           /\ \A j \in Calls \ {i} : /\ conn'[j].loop = conn[j].loop
                                     /\ conn'[j].cancelled = conn[j].cancelled
           /\ \A j \in Calls : conn'[j].socket = conn[j].socket
           /\ websocket' = NoValue /\ pending' = {} /\ streams' = {}
           /\ task' \in [Agents -> Tasks]
           /\ \A b \in Agents : /\ task'[b].at = task[b].at
                                /\ task'[b].target = task[b].target
                                /\ task'[b].got = Released(b)
           /\ UNCHANGED <<authenticate, receiver, waiter, lock, used, signer>>
<1>1. \A b \in Agents : task'[b] = [task[b] EXCEPT !.got = Released(b)]
  BY DEF LoopEnded
<1>2. \A b \in Agents : /\ task'[b] \in Tasks
                        /\ task'[b].at = task[b].at
                        /\ task'[b].target = task[b].target
                        /\ task'[b].got = Released(b)
  BY <1>1, ReleasedTask
<1>3. task' \in [Agents -> Tasks]
  BY <1>2 DEF LoopEnded
<1>4. ASSUME NEW j \in Calls
      PROVE  /\ conn'[j] \in Connections
             /\ conn'[j].loop = IF j = i THEN "done" ELSE conn[j].loop
             /\ conn'[j].cancelled = IF j = i THEN FALSE ELSE conn[j].cancelled
             /\ conn'[j].socket = conn[j].socket
  <2>1. conn[j] \in Connections
    BY ConnType
  <2>2. conn'[j] = [conn[j] EXCEPT !.loop = IF j = i THEN "done" ELSE @,
                           !.cancelled = IF j = i THEN FALSE ELSE @,
                           !.ready = IF j = waiter /\ @ = "pending" THEN "failed" ELSE @]
    BY DEF LoopEnded
  <2> QED BY <2>1, <2>2 DEF Connections
<1>5. conn' \in [Calls -> Connections]
  BY <1>4 DEF LoopEnded
<1> QED BY <1>2, <1>3, <1>4, <1>5 DEF LoopEnded, signing

(* ------------------------- Steps that make no loop ----------------------- *)

SigningTyped == used \subseteq Challenges /\ signer \in [SignTasks -> Signers]

(* Most steps neither make nor end a loop.  They keep the invariant if no  *)
(* call gets to opening, to authenticating or to waiting for a loop, if    *)
(* what tends the waiting calls stays, and if a call that begins to wait   *)
(* finds a socket.                                                         *)
LEMMA QuietStep ==
    ASSUME Core, SigningTyped',
           UNCHANGED <<authenticate, websocket, receiver, waiter>>,
           conn' \in [Calls -> Connections],
           \A i \in Calls : conn'[i].loop = conn[i].loop /\ conn'[i].cancelled = conn[i].cancelled,
           task' \in [Agents -> Tasks],
           \A a \in Agents :
               \/ task'[a].at = task[a].at /\ task'[a].target = task[a].target
               \/ /\ task[a].at # "closingTask"
                  /\ task'[a].at \notin {"opening", "authenticating", "closingTask"}
                  /\ task[a].at \in {"authenticating", "closingSocket"} =>
                         task'[a].at = "closingSocket",
           lock' \in Calls \cup {NoValue},
           \A c \in Calls : task'[c].at \in {"opening", "authenticating"} => lock' = c,
           pending' \subseteq {c \in Calls : KindOf[c] = "request"},
           streams' \subseteq {c \in Calls : KindOf[c] = "flow"},
           \A c \in Calls :
               /\ task'[c].at = "sending" => KindOf[c] # "connect"
               /\ task'[c].at = "waiting" => KindOf[c] \in {"request", "flow"}
               /\ /\ task'[c].at \in {"sending", "waiting"} /\ task'[c].got = "none"
                  /\ KindOf[c] \in {"request", "flow"}
                  => c \in pending' \cup streams',
           \A c \in Calls : task'[c].at = "waiting" /\ task'[c].got = "none" =>
               \/ task[c].at = "waiting" /\ task[c].got = "none"
               \/ websocket # NoValue
    PROVE  Core'
<1>1. \A i \in Calls : Alive(i)' = Alive(i)
  BY DEF Alive
<1>2. TypeOK'
  BY DEF Core, TypeOK, SigningTyped
<1>3. Calls \subseteq Agents
  BY DEF Agents
<1>4. \A a \in Agents :
          /\ task'[a].at \in {"opening", "authenticating", "closingTask"} =>
                 task'[a].at = task[a].at /\ task'[a].target = task[a].target
          /\ task[a].at \in {"authenticating", "closingSocket", "closingTask"} =>
                 task'[a].at \in {"authenticating", "closingSocket", "closingTask"}
          /\ task[a].at = "closingTask" =>
                 task'[a].at = task[a].at /\ task'[a].target = task[a].target
  OBVIOUS
<1>5. Tended => Tended'
  BY <1>1, <1>4 DEF Tended
<1>6. ConnectorHoldsLock'
  BY DEF ConnectorHoldsLock
<1>7. LoopIsReceiver'
  BY <1>1 DEF Core, Receivers, LoopIsReceiver
<1>8. OpeningIsQuiet'
  BY <1>1, <1>3, <1>4 DEF Core, Receivers, OpeningIsQuiet
<1>9. AuthenticatingIsQuiet'
  BY <1>1, <1>3, <1>4 DEF Core, Receivers, AuthenticatingIsQuiet
<1>10. NoLoopBehindClose'
  <2> SUFFICES ASSUME NEW a \in Agents, task'[a].at = "closingTask"
               PROVE  /\ task'[a].target \in Calls
                      /\ Alive(task[a].target)' \/ \A i \in Calls : ~Alive(i)'
    BY <1>4 DEF NoLoopBehindClose
  <2>1. task[a].at = "closingTask" /\ task'[a].target = task[a].target
    BY <1>4
  <2>2. /\ task[a].target \in Calls
        /\ Alive(task[a].target) \/ \A i \in Calls : ~Alive(i)
    BY <2>1 DEF Core, Receivers, NoLoopBehindClose
  <2> QED BY <1>1, <2>1, <2>2
<1>11. SocketIsOwn'
  BY <1>1 DEF Core, Receivers, SocketIsOwn
<1>12. UnansweredIsRegistered'
  BY DEF UnansweredIsRegistered
<1>13. CancelledIsAwaited'
  BY <1>1, <1>4 DEF Core, Waiters, CancelledIsAwaited
<1>14. SocketIsTended'
  BY <1>5 DEF Core, Waiters, SocketIsTended
<1>15. WaitingIsTended'
  BY <1>5 DEF Core, Waiters, WaitingIsTended, SocketIsTended
<1> QED BY <1>2, <1>6, <1>7, <1>8, <1>9, <1>10, <1>11, <1>12, <1>13, <1>14, <1>15
        DEF Core, Receivers, Waiters

(* ----------------------- Steps that make or end a loop ------------------- *)

(* A step that puts a connection's record as a whole.                      *)
LEMMA SetConn ==
    ASSUME TypeOK, NEW i \in Calls, NEW r \in Connections, conn' = [conn EXCEPT ![i] = r]
    PROVE  /\ conn' \in [Calls -> Connections]
           /\ \A j \in Calls : conn'[j] = IF j = i THEN r ELSE conn[j]
BY DEF TypeOK

(* The lock is taken by a call that found no connection.                   *)
LEMMA AcquireToOpen ==
    ASSUME Core, SigningTyped', NEW c \in Calls, Acquire(c), ~IsConnected
    PROVE  Core'
<1>1. TypeOK /\ Receivers /\ Waiters /\ c \in Agents
  BY DEF Core, Agents
<1>2. /\ task[c].at = "locking" /\ lock = NoValue
      /\ lock' = c /\ waiter' = c
      /\ conn' = [conn EXCEPT ![c].ready = "pending"]
      /\ task' = [task EXCEPT ![c].at = "opening"]
      /\ UNCHANGED <<authenticate, websocket, receiver, pending, streams>>
  BY DEF Acquire, tables
<1>3. /\ task' \in [Agents -> Tasks]
      /\ \A b \in Agents : /\ task'[b].at = IF b = c THEN "opening" ELSE task[b].at
                           /\ task'[b].got = task[b].got
                           /\ task'[b].target = task[b].target
  BY <1>1, <1>2, SetAt DEF Places
<1>4. /\ conn' \in [Calls -> Connections]
      /\ \A i \in Calls : conn'[i].loop = conn[i].loop /\ conn'[i].cancelled = conn[i].cancelled
  <2> DEFINE r == [conn[c] EXCEPT !.ready = "pending"]
  <2>1. r \in Connections /\ r.loop = conn[c].loop /\ r.cancelled = conn[c].cancelled
    BY <1>1, ConnType DEF Connections
  <2>2. conn' = [conn EXCEPT ![c] = r]
    BY <1>2
  <2> HIDE DEF r
  <2> QED BY <1>1, <2>1, <2>2, SetConn
<1>5. \A i \in Calls : Alive(i)' = Alive(i)
  BY <1>4 DEF Alive
<1>6. Tended => Tended'
  BY <1>2, <1>3, <1>5 DEF Tended
<1>7. Calls \subseteq Agents /\ NoValue \notin Calls
  BY NameAssumption DEF Agents
<1>8. TypeOK'
  BY <1>1, <1>2, <1>3, <1>4 DEF TypeOK, SigningTyped
<1>9. ConnectorHoldsLock'
  BY <1>1, <1>2, <1>3, <1>7 DEF Receivers, ConnectorHoldsLock
<1>10. LoopIsReceiver'
  BY <1>1, <1>2, <1>4, <1>5 DEF Receivers, LoopIsReceiver
<1>11. OpeningIsQuiet'
  <2>1. ASSUME NEW i \in Calls, Alive(i) PROVE conn[i].loop = "new" /\ websocket = NoValue
    <3>1. receiver = i
      BY <1>1, <2>1 DEF Receivers, LoopIsReceiver
    <3>2. websocket = NoValue
      BY <1>7, <2>1, <3>1 DEF IsConnected
    <3>3. conn[i].loop # "running"
      BY <1>1, <1>7, <3>2 DEF Receivers, LoopIsReceiver
    <3> QED BY <2>1, <3>2, <3>3 DEF Alive
  <2> QED BY <1>2, <1>4, <1>5, <2>1 DEF OpeningIsQuiet
<1>12. AuthenticatingIsQuiet'
  BY <1>1, <1>2, <1>3, <1>5, <1>7 DEF Receivers, AuthenticatingIsQuiet
<1>13. NoLoopBehindClose'
  BY <1>1, <1>3, <1>5 DEF Receivers, NoLoopBehindClose
<1>14. SocketIsOwn'
  BY <1>1, <1>2, <1>5 DEF Receivers, SocketIsOwn
<1>15. UnansweredIsRegistered'
  BY <1>1, <1>2, <1>3, <1>7 DEF Waiters, UnansweredIsRegistered
<1>16. CancelledIsAwaited'
  BY <1>1, <1>2, <1>3, <1>4, <1>5 DEF Waiters, CancelledIsAwaited
<1>17. SocketIsTended'
  BY <1>1, <1>2, <1>6 DEF Waiters, SocketIsTended
<1>18. WaitingIsTended'
  BY <1>1, <1>3, <1>6, <1>7 DEF Waiters, WaitingIsTended
<1> QED BY <1>8, <1>9, <1>10, <1>11, <1>12, <1>13, <1>14, <1>15, <1>16, <1>17, <1>18
        DEF Core, Receivers, Waiters

(* A loop is made, by a call that held the lock, where none was and no     *)
(* close waits for one.                                                    *)
LEMMA LoopMade ==
    ASSUME Core, SigningTyped', NEW c \in Calls, lock = c,
           \A i \in Calls : ~Alive(i),
           \A a \in Agents : task[a].at # "closingTask",
           task' = [task EXCEPT ![c].at = "awaitingReady"],
           task[c].at \in {"opening", "authenticating"},
           conn' \in [Calls -> Connections],
           conn'[c].loop = "new", conn'[c].cancelled = conn[c].cancelled,
           \A i \in Calls \ {c} : conn'[i] = conn[i],
           websocket' \in {c, NoValue}, receiver' = c, lock' = NoValue,
           UNCHANGED <<authenticate, waiter, pending, streams>>
    PROVE  Core'
<1>1. TypeOK /\ Receivers /\ Waiters /\ c \in Agents
  BY DEF Core, Agents
<1>2. /\ task' \in [Agents -> Tasks]
      /\ \A b \in Agents : /\ task'[b].at = IF b = c THEN "awaitingReady" ELSE task[b].at
                           /\ task'[b].got = task[b].got
                           /\ task'[b].target = task[b].target
  BY <1>1, SetAt DEF Places
<1>3. Alive(c)' /\ \A i \in Calls \ {c} : ~Alive(i)'
  BY DEF Alive
<1>4. Tended'
  BY <1>3 DEF Tended
<1>5. Calls \subseteq Agents /\ NoValue \notin Calls
  BY NameAssumption DEF Agents
<1>6. TypeOK'
  BY <1>1, <1>2 DEF TypeOK, SigningTyped
<1>7. \A d \in Calls : task'[d].at \notin {"opening", "authenticating"}
  BY <1>1, <1>2, <1>5 DEF Receivers, ConnectorHoldsLock
<1>8. ConnectorHoldsLock' /\ OpeningIsQuiet' /\ AuthenticatingIsQuiet'
  BY <1>7 DEF ConnectorHoldsLock, OpeningIsQuiet, AuthenticatingIsQuiet
<1>9. LoopIsReceiver' /\ SocketIsOwn'
  <2>1. \A i \in Calls \ {c} : conn'[i].loop # "running"
    BY <1>3 DEF Alive
  <2> QED BY <1>3, <2>1 DEF LoopIsReceiver, SocketIsOwn
<1>10. NoLoopBehindClose'
  BY <1>2 DEF NoLoopBehindClose
<1>11. UnansweredIsRegistered'
  BY <1>1, <1>2, <1>5 DEF Waiters, UnansweredIsRegistered
<1>12. CancelledIsAwaited'
  BY <1>1 DEF Waiters, CancelledIsAwaited
<1>13. SocketIsTended' /\ WaitingIsTended'
  BY <1>4 DEF SocketIsTended, WaitingIsTended
<1> QED BY <1>6, <1>8, <1>9, <1>10, <1>11, <1>12, <1>13 DEF Core, Receivers, Waiters

(* A socket is there.                                                      *)
LEMMA OpenedInv ==
    ASSUME Core, SigningTyped', NEW c \in Calls, Opened(c)
    PROVE  Core'
<1>1. TypeOK /\ Receivers /\ Waiters /\ c \in Agents
  BY DEF Core, Agents
<1>2. task[c].at = "opening" /\ Settled /\ websocket' = c /\ lock = c
  BY <1>1 DEF Opened, Receivers, ConnectorHoldsLock
<1>3. \A i \in Calls : ~Alive(i)
  BY <1>1, <1>2 DEF Settled, Receivers, OpeningIsQuiet
<1>4. \A a \in Agents : task[a].at # "closingTask"
  BY <1>1, <1>2, <1>3 DEF Settled, Receivers, NoLoopBehindClose
<1> DEFINE l == IF authenticate THEN "none" ELSE "new"
           r == [[conn[c] EXCEPT !.socket = "open"] EXCEPT !.loop = l]
<1>5. r \in Connections /\ r.loop = l /\ r.cancelled = conn[c].cancelled
  BY <1>1, ConnType DEF Connections
<1>6. conn' = [conn EXCEPT ![c] = r]
  BY <1>1 DEF Opened, TypeOK
<1>7. /\ conn' \in [Calls -> Connections]
      /\ conn'[c].loop = l /\ conn'[c].cancelled = conn[c].cancelled
      /\ \A i \in Calls \ {c} : conn'[i] = conn[i]
  <2> HIDE DEF r
  <2> QED BY <1>1, <1>5, <1>6, SetConn
<1> HIDE DEF r
<1>8. CASE ~authenticate
  BY <1>2, <1>3, <1>4, <1>7, <1>8, LoopMade DEF Opened, tables
<1>9. CASE authenticate
  <2>1. /\ task' = [task EXCEPT ![c].at = "authenticating"]
        /\ UNCHANGED <<receiver, lock, authenticate, waiter, pending, streams>>
    BY <1>9 DEF Opened, tables
  <2>2. /\ task' \in [Agents -> Tasks]
        /\ \A b \in Agents : /\ task'[b].at = IF b = c THEN "authenticating" ELSE task[b].at
                             /\ task'[b].got = task[b].got
                             /\ task'[b].target = task[b].target
    BY <1>1, <2>1, SetAt DEF Places
  <2>3. \A i \in Calls : ~Alive(i)'
    BY <1>3, <1>7, <1>9 DEF Alive
  <2>4. Calls \subseteq Agents /\ NoValue \notin Calls
    BY NameAssumption DEF Agents
  <2>5. TypeOK'
    BY <1>1, <1>2, <1>7, <2>1, <2>2 DEF TypeOK, SigningTyped
  <2>6. ConnectorHoldsLock'
    BY <1>1, <1>2, <2>1, <2>2, <2>4 DEF Receivers, ConnectorHoldsLock
  <2>7. LoopIsReceiver' /\ OpeningIsQuiet' /\ SocketIsOwn' /\ NoLoopBehindClose'
    BY <1>4, <2>2, <2>3 DEF LoopIsReceiver, OpeningIsQuiet, SocketIsOwn, NoLoopBehindClose, Alive
  <2>8. AuthenticatingIsQuiet'
    <3>1. \A d \in Calls : task'[d].at = "authenticating" => d = c
      BY <1>2, <2>1, <2>6 DEF ConnectorHoldsLock
    <3> QED BY <1>2, <1>4, <2>2, <2>3, <3>1 DEF AuthenticatingIsQuiet
  <2>9. Tended'
    BY <1>1, <2>2 DEF Tended
  <2>10. UnansweredIsRegistered'
    BY <1>1, <2>1, <2>2, <2>4 DEF Waiters, UnansweredIsRegistered
  <2>11. CancelledIsAwaited'
    BY <1>1, <1>4, <1>7 DEF Waiters, CancelledIsAwaited
  <2>12. SocketIsTended' /\ WaitingIsTended'
    BY <2>9 DEF SocketIsTended, WaitingIsTended
  <2> QED BY <2>5, <2>6, <2>7, <2>8, <2>10, <2>11, <2>12 DEF Core, Receivers, Waiters
<1> QED BY <1>8, <1>9

(* The channel is authenticated.                                           *)
LEMMA AuthenticatedInv ==
    ASSUME Core, SigningTyped', NEW c \in Calls, Authenticated(c)
    PROVE  Core'
<1>1. TypeOK /\ Receivers
  BY DEF Core
<1>2. /\ task[c].at = "authenticating" /\ lock = c
      /\ \A i \in Calls : ~Alive(i)
      /\ \A a \in Agents : task[a].at # "closingTask"
      /\ websocket \in {c, NoValue}
  BY <1>1 DEF Authenticated, Receivers, ConnectorHoldsLock, AuthenticatingIsQuiet
<1> DEFINE q == IF conn[c].ready = "pending" THEN "ready" ELSE conn[c].ready
           r == [[conn[c] EXCEPT !.loop = "new"] EXCEPT !.ready = q]
<1>3. r \in Connections /\ r.loop = "new" /\ r.cancelled = conn[c].cancelled
  BY <1>1, ConnType DEF Connections
<1>4. conn' = [conn EXCEPT ![c] = r]
  BY <1>1, ConnType DEF Authenticated, TypeOK, Connections
<1> HIDE DEF r
<1>5. /\ conn' \in [Calls -> Connections]
      /\ conn'[c].loop = "new" /\ conn'[c].cancelled = conn[c].cancelled
      /\ \A i \in Calls \ {c} : conn'[i] = conn[i]
  BY <1>1, <1>3, <1>4, SetConn
<1> QED BY <1>2, <1>5, LoopMade DEF Authenticated, tables

(* The end of close(), when no loop is left.                               *)
LEMMA ClosedInv ==
    ASSUME Core, SigningTyped', NEW a \in Agents, Closed(a),
           \A i \in Calls : ~Alive(i),
           UNCHANGED <<authenticate, waiter, conn>>
    PROVE  Core'
<1>1. TypeOK /\ Receivers /\ Waiters
  BY DEF Core
<1>2. /\ websocket' = NoValue /\ receiver' = NoValue
      /\ pending' = {} /\ streams' = {}
      /\ lock' = IF lock = a THEN NoValue ELSE lock
      /\ task' \in [Agents -> Tasks]
      /\ task'[a].at \in {"done", "failed"}
      /\ \A b \in Agents \ {a} : /\ task'[b].at = task[b].at
                                 /\ task'[b].target = task[b].target
                                 /\ task'[b].got = Released(b)
  BY <1>1, ClosedFacts
<1>3. \A i \in Calls : ~Alive(i)'
  BY DEF Alive
<1>4. Calls \subseteq Agents /\ NoValue \notin Calls
  BY NameAssumption DEF Agents
<1>5. TypeOK'
  BY <1>1, <1>2 DEF TypeOK, SigningTyped
<1>6. ConnectorHoldsLock'
  BY <1>1, <1>2, <1>4 DEF Receivers, ConnectorHoldsLock
<1>7. LoopIsReceiver' /\ OpeningIsQuiet' /\ SocketIsOwn'
  BY <1>3 DEF LoopIsReceiver, OpeningIsQuiet, SocketIsOwn, Alive
<1>8. AuthenticatingIsQuiet'
  <2> SUFFICES ASSUME NEW c \in Calls, task'[c].at = "authenticating"
               PROVE  \A b \in Agents : task'[b].at # "closingTask"
    BY <1>2, <1>3 DEF AuthenticatingIsQuiet
  <2>1. task[c].at = "authenticating"
    BY <1>2, <1>4
  <2> QED BY <1>1, <1>2, <2>1 DEF Receivers, AuthenticatingIsQuiet
<1>9. NoLoopBehindClose'
  BY <1>1, <1>2, <1>3 DEF Receivers, NoLoopBehindClose
<1>10. \A c \in Calls : ~(task'[c].at \in {"sending", "waiting"} /\ task'[c].got = "none"
                            /\ KindOf[c] \in {"request", "flow"})
  <2> SUFFICES ASSUME NEW c \in Calls, task'[c].at \in {"sending", "waiting"},
                      task'[c].got = "none", KindOf[c] \in {"request", "flow"}
               PROVE  FALSE
    OBVIOUS
  <2>1. c \in Agents \ {a} /\ task[c].at \in {"sending", "waiting"} /\ Released(c) = "none"
    BY <1>2, <1>4
  <2>2. task[c].got = "none" /\ c \notin pending \cup streams
    BY <1>1, <2>1, ReleasedType
  <2> QED BY <1>1, <2>1, <2>2 DEF Waiters, UnansweredIsRegistered
<1>11. \A c \in Calls : /\ task'[c].at = "sending" => KindOf[c] # "connect"
                        /\ task'[c].at = "waiting" => KindOf[c] \in {"request", "flow"}
  BY <1>1, <1>2, <1>4 DEF Waiters, UnansweredIsRegistered
<1>12. UnansweredIsRegistered' /\ WaitingIsTended' /\ SocketIsTended'
  BY <1>2, <1>10, <1>11 DEF UnansweredIsRegistered, WaitingIsTended, SocketIsTended
<1>13. CancelledIsAwaited'
  BY <1>1 DEF Waiters, CancelledIsAwaited
<1> QED BY <1>5, <1>6, <1>7, <1>8, <1>9, <1>12, <1>13 DEF Core, Receivers, Waiters

(* close() cancels the loop there is, and waits for it.                    *)
LEMMA CancelInv ==
    ASSUME Core, SigningTyped', NEW a \in Agents,
           task[a].at \in {"idle", "authenticating", "awaitingReady", "closingSocket"},
           receiver # NoValue, Alive(receiver),
           conn' = [conn EXCEPT ![receiver].cancelled = TRUE],
           task' = [task EXCEPT ![a].at = "closingTask", ![a].target = receiver],
           UNCHANGED <<authenticate, websocket, receiver, waiter, lock, pending, streams>>
    PROVE  Core'
<1>1. TypeOK /\ Receivers /\ Waiters
  BY DEF Core
<1>2. receiver \in Calls
  BY <1>1 DEF TypeOK
<1>3. /\ task' \in [Agents -> Tasks]
      /\ \A b \in Agents : /\ task'[b].at = IF b = a THEN "closingTask" ELSE task[b].at
                           /\ task'[b].got = task[b].got
                           /\ task'[b].target = IF b = a THEN receiver ELSE task[b].target
  <2> DEFINE r == [[task[a] EXCEPT !.at = "closingTask"] EXCEPT !.target = receiver]
  <2>1. task[a] \in Tasks
    BY <1>1, TaskType
  <2>2. r \in Tasks /\ r.at = "closingTask" /\ r.got = task[a].got /\ r.target = receiver
    BY <1>2, <2>1 DEF Tasks
  <2>3. task' = [task EXCEPT ![a] = r]
    BY <1>1 DEF TypeOK
  <2> HIDE DEF r
  <2> QED BY <1>1, <2>2, <2>3, SetTask
<1>4. /\ conn' \in [Calls -> Connections]
      /\ \A i \in Calls : /\ conn'[i].loop = conn[i].loop
                          /\ i # receiver => conn'[i].cancelled = conn[i].cancelled
  <2> DEFINE r == [conn[receiver] EXCEPT !.cancelled = TRUE]
  <2>1. r \in Connections /\ r.loop = conn[receiver].loop
    BY <1>1, <1>2, ConnType DEF Connections
  <2>2. conn' = [conn EXCEPT ![receiver] = r]
    OBVIOUS
  <2> HIDE DEF r
  <2> QED BY <1>1, <1>2, <2>1, <2>2, SetConn
<1>5. \A i \in Calls : Alive(i)' = Alive(i)
  BY <1>4 DEF Alive
<1>6. Tended'
  BY <1>3 DEF Tended
<1>7. Calls \subseteq Agents /\ NoValue \notin Calls
  BY NameAssumption DEF Agents
<1>8. TypeOK'
  BY <1>1, <1>3, <1>4 DEF TypeOK, SigningTyped
<1>9. ConnectorHoldsLock'
  BY <1>1, <1>3, <1>7 DEF Receivers, ConnectorHoldsLock
<1>10. LoopIsReceiver' /\ SocketIsOwn'
  BY <1>1, <1>4, <1>5 DEF Receivers, LoopIsReceiver, SocketIsOwn
<1>11. OpeningIsQuiet'
  BY <1>1, <1>3, <1>4, <1>5, <1>7 DEF Receivers, OpeningIsQuiet
<1>12. AuthenticatingIsQuiet'
  <2>1. \A c \in Calls : task[c].at # "authenticating"
    BY <1>1, <1>2 DEF Receivers, AuthenticatingIsQuiet
  <2> QED BY <1>3, <1>7, <2>1 DEF AuthenticatingIsQuiet
<1>13. NoLoopBehindClose'
  <2> SUFFICES ASSUME NEW b \in Agents, task'[b].at = "closingTask"
               PROVE  /\ task'[b].target \in Calls
                      /\ Alive(task[b].target)' \/ \A i \in Calls : ~Alive(i)'
    BY DEF NoLoopBehindClose
  <2>1. CASE b = a
    BY <1>2, <1>3, <1>5, <2>1
  <2>2. CASE b # a
    <3>1. task[b].at = "closingTask" /\ task'[b].target = task[b].target
      BY <1>3, <2>2
    <3>2. /\ task[b].target \in Calls
          /\ Alive(task[b].target) \/ \A i \in Calls : ~Alive(i)
      BY <1>1, <3>1 DEF Receivers, NoLoopBehindClose
    <3> QED BY <1>5, <3>1, <3>2
  <2> QED BY <2>1, <2>2
<1>14. UnansweredIsRegistered'
  BY <1>1, <1>3, <1>7 DEF Waiters, UnansweredIsRegistered
<1>15. CancelledIsAwaited'
  <2> SUFFICES ASSUME NEW i \in Calls, conn'[i].cancelled
               PROVE  /\ Alive(i)'
                      /\ \E b \in Agents : task'[b].at = "closingTask" /\ task'[b].target = i
    BY DEF CancelledIsAwaited
  <2>1. CASE i = receiver
    BY <1>3, <1>5, <2>1
  <2>2. CASE i # receiver
    <3>1. Alive(i) /\ \E b \in Agents : task[b].at = "closingTask" /\ task[b].target = i
      BY <1>1, <1>4, <2>2 DEF Waiters, CancelledIsAwaited
    <3> QED BY <1>3, <1>5, <3>1
  <2> QED BY <2>1, <2>2
<1>16. SocketIsTended' /\ WaitingIsTended'
  BY <1>6 DEF SocketIsTended, WaitingIsTended
<1> QED BY <1>8, <1>9, <1>10, <1>11, <1>12, <1>13, <1>14, <1>15, <1>16
        DEF Core, Receivers, Waiters

(* The second half of close().                                             *)
LEMMA CancelReceiverInv ==
    ASSUME Core, SigningTyped', NEW a \in Agents, CancelReceiver(a),
           task[a].at \in {"idle", "authenticating", "awaitingReady", "closingSocket"},
           UNCHANGED <<authenticate, waiter>>
    PROVE  Core'
<1>1. CASE receiver # NoValue /\ Alive(receiver)
  BY <1>1, CancelInv DEF CancelReceiver, tables
<1>2. CASE ~(receiver # NoValue /\ Alive(receiver))
  <2>1. Closed(a) /\ UNCHANGED conn
    BY <1>2 DEF CancelReceiver
  <2>2. \A i \in Calls : ~Alive(i)
    BY <1>2, NameAssumption DEF Core, Receivers, LoopIsReceiver
  <2> QED BY <2>1, <2>2, ClosedInv
<1> QED BY <1>1, <1>2

(* close(), from its beginning to where it first waits.                    *)
LEMMA CloseStepInv ==
    ASSUME Core, SigningTyped', NEW a \in Agents, CloseStep(a),
           task[a].at \in {"idle", "authenticating", "awaitingReady"}
    PROVE  Core'
<1>1. CASE websocket = NoValue
  BY <1>1, CancelReceiverInv DEF CloseStep
<1>2. CASE websocket # NoValue
  <2>1. /\ task' = [task EXCEPT ![a].at = "closingSocket", ![a].target = websocket]
        /\ UNCHANGED <<authenticate, websocket, receiver, waiter, lock, conn, pending, streams>>
    BY <1>2 DEF CloseStep, tables
  <2>2. TypeOK /\ Receivers /\ Waiters /\ websocket \in Calls \cup {NoValue}
    BY DEF Core, TypeOK
  <2>3. /\ task' \in [Agents -> Tasks]
        /\ \A b \in Agents : /\ task'[b].at = IF b = a THEN "closingSocket" ELSE task[b].at
                             /\ task'[b].got = task[b].got
                             /\ task'[b].target = IF b = a THEN websocket ELSE task[b].target
    <3> DEFINE r == [[task[a] EXCEPT !.at = "closingSocket"] EXCEPT !.target = websocket]
    <3>1. task[a] \in Tasks
      BY <2>2, TaskType
    <3>2. /\ r \in Tasks /\ r.at = "closingSocket"
          /\ r.got = task[a].got /\ r.target = websocket
      BY <2>2, <3>1 DEF Tasks
    <3>3. task' = [task EXCEPT ![a] = r]
      BY <2>1, <2>2 DEF TypeOK
    <3> HIDE DEF r
    <3> QED BY <2>2, <3>2, <3>3, SetTask
  <2>4. Calls \subseteq Agents
    BY DEF Agents
  <2>5. \A c \in Calls : task'[c].at \in {"opening", "authenticating"} => lock' = c
    BY <2>1, <2>2, <2>3, <2>4 DEF Receivers, ConnectorHoldsLock
  <2>6. \A c \in Calls :
            /\ task'[c].at = "sending" => KindOf[c] # "connect"
            /\ task'[c].at = "waiting" => KindOf[c] \in {"request", "flow"}
            /\ /\ task'[c].at \in {"sending", "waiting"} /\ task'[c].got = "none"
               /\ KindOf[c] \in {"request", "flow"}
               => c \in pending' \cup streams'
    BY <2>1, <2>2, <2>3, <2>4 DEF Waiters, UnansweredIsRegistered
  <2>7. /\ conn' \in [Calls -> Connections] /\ lock' \in Calls \cup {NoValue}
        /\ pending' \subseteq {c \in Calls : KindOf[c] = "request"}
        /\ streams' \subseteq {c \in Calls : KindOf[c] = "flow"}
    BY <2>1, <2>2 DEF TypeOK
  <2> QED BY <2>1, <2>3, <2>4, <2>5, <2>6, <2>7, QuietStep
<1> QED BY <1>1, <1>2

(* The end of a receive loop.                                              *)
LEMMA LoopEndedInv ==
    ASSUME Core, SigningTyped', NEW i \in Calls, Alive(i), LoopEnded(i)
    PROVE  Core'
<1>1. TypeOK /\ Receivers /\ Waiters
  BY DEF Core
<1>2. /\ conn' \in [Calls -> Connections]
      /\ conn'[i].loop = "done" /\ ~conn'[i].cancelled
      /\ \A j \in Calls \ {i} : /\ conn'[j].loop = conn[j].loop
                                /\ conn'[j].cancelled = conn[j].cancelled
      /\ websocket' = NoValue /\ pending' = {} /\ streams' = {}
      /\ task' \in [Agents -> Tasks]
      /\ \A b \in Agents : /\ task'[b].at = task[b].at
                           /\ task'[b].target = task[b].target
                           /\ task'[b].got = Released(b)
      /\ UNCHANGED <<authenticate, receiver, waiter, lock>>
  BY <1>1, LoopEndedFacts
<1>3. \A j \in Calls : ~Alive(j)'
  <2>1. \A j \in Calls \ {i} : ~Alive(j)
    BY <1>1 DEF Receivers, LoopIsReceiver
  <2> QED BY <1>2, <2>1 DEF Alive
<1>4. Calls \subseteq Agents /\ NoValue \notin Calls
  BY NameAssumption DEF Agents
<1>5. TypeOK'
  BY <1>1, <1>2 DEF TypeOK, SigningTyped
<1>6. ConnectorHoldsLock'
  BY <1>1, <1>2, <1>4 DEF Receivers, ConnectorHoldsLock
<1>7. LoopIsReceiver' /\ OpeningIsQuiet' /\ SocketIsOwn'
  BY <1>3 DEF LoopIsReceiver, OpeningIsQuiet, SocketIsOwn, Alive
<1>8. AuthenticatingIsQuiet'
  BY <1>1, <1>2, <1>3, <1>4 DEF Receivers, AuthenticatingIsQuiet
<1>9. NoLoopBehindClose'
  BY <1>1, <1>2, <1>3 DEF Receivers, NoLoopBehindClose
<1>10. \A c \in Calls : ~(task'[c].at \in {"sending", "waiting"} /\ task'[c].got = "none"
                            /\ KindOf[c] \in {"request", "flow"})
  <2> SUFFICES ASSUME NEW c \in Calls, task'[c].at \in {"sending", "waiting"},
                      task'[c].got = "none", KindOf[c] \in {"request", "flow"}
               PROVE  FALSE
    OBVIOUS
  <2>1. c \in Agents /\ task[c].at \in {"sending", "waiting"} /\ Released(c) = "none"
    BY <1>2, <1>4
  <2>2. task[c].got = "none" /\ c \notin pending \cup streams
    BY <1>1, <2>1, ReleasedType
  <2> QED BY <1>1, <2>1, <2>2 DEF Waiters, UnansweredIsRegistered
<1>11. \A c \in Calls : /\ task'[c].at = "sending" => KindOf[c] # "connect"
                        /\ task'[c].at = "waiting" => KindOf[c] \in {"request", "flow"}
  BY <1>1, <1>2, <1>4 DEF Waiters, UnansweredIsRegistered
<1>12. UnansweredIsRegistered' /\ WaitingIsTended' /\ SocketIsTended'
  BY <1>2, <1>10, <1>11 DEF UnansweredIsRegistered, WaitingIsTended, SocketIsTended
<1>13. CancelledIsAwaited'
  <2>1. \A j \in Calls : ~conn'[j].cancelled
    <3>1. \A j \in Calls \ {i} : ~Alive(j)
      BY <1>1 DEF Receivers, LoopIsReceiver
    <3> QED BY <1>1, <1>2, <3>1 DEF Waiters, CancelledIsAwaited
  <2> QED BY <2>1 DEF CancelledIsAwaited
<1> QED BY <1>5, <1>6, <1>7, <1>8, <1>9, <1>12, <1>13 DEF Core, Receivers, Waiters

(* A loop begins to read: its socket is still there.                       *)
LEMMA LoopBegins ==
    ASSUME Core, SigningTyped', NEW i \in Calls, conn[i].loop = "new", websocket # NoValue,
           conn' = [conn EXCEPT ![i].loop = "running"],
           UNCHANGED <<authenticate, websocket, receiver, waiter, lock, pending, streams, task>>
    PROVE  Core'
<1>1. TypeOK /\ Receivers /\ Waiters /\ Alive(i)
  BY DEF Core, Alive
<1>2. /\ conn' \in [Calls -> Connections]
      /\ conn'[i].loop = "running"
      /\ \A j \in Calls : /\ conn'[j].cancelled = conn[j].cancelled
                          /\ j # i => conn'[j].loop = conn[j].loop
  <2> DEFINE r == [conn[i] EXCEPT !.loop = "running"]
  <2>1. r \in Connections /\ r.loop = "running" /\ r.cancelled = conn[i].cancelled
    BY <1>1, ConnType DEF Connections
  <2>2. conn' = [conn EXCEPT ![i] = r]
    OBVIOUS
  <2> HIDE DEF r
  <2> QED BY <1>1, <2>1, <2>2, SetConn
<1>3. \A j \in Calls : Alive(j)' = Alive(j)
  BY <1>2 DEF Alive
<1>4. websocket = i
  BY <1>1 DEF Receivers, SocketIsOwn
<1>5. Tended => Tended'
  BY <1>3 DEF Tended
<1>6. TypeOK'
  BY <1>1, <1>2 DEF TypeOK, SigningTyped
<1>7. ConnectorHoldsLock'
  BY <1>1 DEF Receivers, ConnectorHoldsLock
<1>8. LoopIsReceiver'
  BY <1>1, <1>2, <1>3, <1>4 DEF Receivers, LoopIsReceiver
<1>9. OpeningIsQuiet'
  BY <1>1, <1>2, <1>3 DEF Receivers, OpeningIsQuiet
<1>10. AuthenticatingIsQuiet' /\ SocketIsOwn'
  BY <1>1, <1>3 DEF Receivers, AuthenticatingIsQuiet, SocketIsOwn
<1>11. NoLoopBehindClose'
  BY <1>1, <1>3 DEF Receivers, NoLoopBehindClose
<1>12. UnansweredIsRegistered'
  BY <1>1 DEF Waiters, UnansweredIsRegistered
<1>13. CancelledIsAwaited'
  BY <1>1, <1>2, <1>3 DEF Waiters, CancelledIsAwaited
<1>14. SocketIsTended' /\ WaitingIsTended'
  BY <1>1, <1>5 DEF Waiters, SocketIsTended, WaitingIsTended
<1> QED BY <1>6, <1>7, <1>8, <1>9, <1>10, <1>11, <1>12, <1>13, <1>14
        DEF Core, Receivers, Waiters

(* A loop is cancelled before it has begun: its finally clause does not    *)
(* run, and the close that cancelled it sees to the rest.                  *)
LEMMA LoopNeverBegins ==
    ASSUME Core, SigningTyped', NEW i \in Calls, Alive(i), conn[i].cancelled,
           conn' = [conn EXCEPT ![i].loop = "done", ![i].cancelled = FALSE],
           UNCHANGED <<authenticate, websocket, receiver, waiter, lock, pending, streams, task>>
    PROVE  Core'
<1>1. TypeOK /\ Receivers /\ Waiters
  BY DEF Core
<1>2. /\ conn' \in [Calls -> Connections]
      /\ conn'[i].loop = "done" /\ conn'[i].cancelled = FALSE
      /\ \A j \in Calls \ {i} : conn'[j] = conn[j]
  <2> DEFINE r == [[conn[i] EXCEPT !.loop = "done"] EXCEPT !.cancelled = FALSE]
  <2>1. conn[i] \in Connections
    BY <1>1, ConnType
  <2>2. r \in Connections /\ r.loop = "done" /\ r.cancelled = FALSE
    BY <2>1 DEF Connections
  <2>3. conn' = [conn EXCEPT ![i] = r]
    BY <1>1 DEF TypeOK
  <2> HIDE DEF r
  <2> QED BY <1>1, <2>2, <2>3, SetConn
<1>3. \A j \in Calls : ~Alive(j)'
  <2>1. \A j \in Calls \ {i} : ~Alive(j)
    BY <1>1 DEF Receivers, LoopIsReceiver
  <2> QED BY <1>2, <2>1 DEF Alive
<1>4. Tended'
  BY <1>1 DEF Waiters, CancelledIsAwaited, Tended
<1>5. TypeOK'
  BY <1>1, <1>2 DEF TypeOK, SigningTyped
<1>6. ConnectorHoldsLock'
  BY <1>1 DEF Receivers, ConnectorHoldsLock
<1>7. LoopIsReceiver' /\ OpeningIsQuiet' /\ SocketIsOwn'
  BY <1>3 DEF LoopIsReceiver, OpeningIsQuiet, SocketIsOwn, Alive
<1>8. AuthenticatingIsQuiet' /\ NoLoopBehindClose'
  BY <1>1, <1>3 DEF Receivers, AuthenticatingIsQuiet, NoLoopBehindClose
<1>9. UnansweredIsRegistered'
  BY <1>1 DEF Waiters, UnansweredIsRegistered
<1>10. CancelledIsAwaited'
  <2>1. \A j \in Calls \ {i} : ~conn[j].cancelled
    BY <1>1 DEF Waiters, CancelledIsAwaited, Receivers, LoopIsReceiver
  <2> QED BY <1>2, <2>1 DEF CancelledIsAwaited
<1>11. SocketIsTended' /\ WaitingIsTended'
  BY <1>4 DEF SocketIsTended, WaitingIsTended
<1> QED BY <1>5, <1>6, <1>7, <1>8, <1>9, <1>10, <1>11 DEF Core, Receivers, Waiters

(* One call goes on, and touches nothing but itself, its entries in the    *)
(* tables, and the lock if it holds it.                                    *)
LEMMA OneCallMoves ==
    ASSUME Core, SigningTyped', NEW c \in Calls,
           UNCHANGED <<authenticate, websocket, receiver, waiter, conn>>,
           task' \in [Agents -> Tasks],
           \A b \in Agents \ {c} : task'[b].at = task[b].at /\ task'[b].got = task[b].got
                                   /\ task'[b].target = task[b].target,
           \/ task'[c].at = task[c].at /\ task'[c].target = task[c].target
           \/ /\ task[c].at \notin {"authenticating", "closingSocket", "closingTask"}
              /\ task'[c].at \notin {"opening", "authenticating", "closingTask"},
           lock' = lock \/ (lock' = NoValue /\ lock = c /\ task'[c].at \notin {"opening", "authenticating"}),
           pending \subseteq pending' \cup {c}, streams \subseteq streams' \cup {c},
           pending' \subseteq {d \in Calls : KindOf[d] = "request"},
           streams' \subseteq {d \in Calls : KindOf[d] = "flow"},
           task'[c].at = "sending" => KindOf[c] # "connect",
           task'[c].at = "waiting" => KindOf[c] \in {"request", "flow"},
           /\ task'[c].at \in {"sending", "waiting"} /\ task'[c].got = "none"
           /\ KindOf[c] \in {"request", "flow"}
           => c \in pending' \cup streams',
           task'[c].at = "waiting" /\ task'[c].got = "none" =>
               (task[c].at = "waiting" /\ task[c].got = "none") \/ websocket # NoValue
    PROVE  Core'
<1>1. TypeOK /\ Receivers /\ Waiters
  BY DEF Core
<1>2. Calls \subseteq Agents
  BY DEF Agents
<1>3. \A a \in Agents :
          \/ task'[a].at = task[a].at /\ task'[a].target = task[a].target
          \/ /\ task[a].at # "closingTask"
             /\ task'[a].at \notin {"opening", "authenticating", "closingTask"}
             /\ task[a].at \in {"authenticating", "closingSocket"} =>
                    task'[a].at = "closingSocket"
  OBVIOUS
<1>4. conn' \in [Calls -> Connections] /\ lock' \in Calls \cup {NoValue}
  BY <1>1 DEF TypeOK
<1>5. \A d \in Calls : task'[d].at \in {"opening", "authenticating"} => lock' = d
  BY <1>1, <1>2, NameAssumption DEF Receivers, ConnectorHoldsLock
<1>6. \A d \in Calls :
          /\ task'[d].at = "sending" => KindOf[d] # "connect"
          /\ task'[d].at = "waiting" => KindOf[d] \in {"request", "flow"}
          /\ /\ task'[d].at \in {"sending", "waiting"} /\ task'[d].got = "none"
             /\ KindOf[d] \in {"request", "flow"}
             => d \in pending' \cup streams'
  BY <1>1, <1>2 DEF Waiters, UnansweredIsRegistered
<1>7. \A d \in Calls : task'[d].at = "waiting" /\ task'[d].got = "none" =>
          \/ task[d].at = "waiting" /\ task[d].got = "none"
          \/ websocket # NoValue
  BY <1>2
<1> QED BY <1>3, <1>4, <1>5, <1>6, <1>7, QuietStep

(* -------------------------- The steps of the calls ----------------------- *)

(* connect returned, from wherever it was.                                 *)
LEMMA RegisteredInv ==
    ASSUME Core, SigningTyped', NEW c \in Calls, Registered(c),
           task[c].at \in {"idle", "locking", "awaitingReady"},
           UNCHANGED <<authenticate, websocket, receiver, waiter, conn, lock>>
    PROVE  Core'
<1>1. TypeOK /\ c \in Agents
  BY DEF Core, Agents
<1>2. /\ task' \in [Agents -> Tasks]
      /\ \A b \in Agents : /\ b # c => task'[b].at = task[b].at
                           /\ task'[b].got = task[b].got
                           /\ task'[b].target = task[b].target
      /\ task'[c].at \in {"done", "sending"}
      /\ task'[c].at = "sending" => KindOf[c] # "connect"
      /\ pending \subseteq pending' /\ streams \subseteq streams'
      /\ pending' \subseteq {d \in Calls : KindOf[d] = "request"}
      /\ streams' \subseteq {d \in Calls : KindOf[d] = "flow"}
      /\ KindOf[c] \in {"request", "flow"} => c \in pending' \cup streams'
  BY <1>1, RegisteredFacts
<1> QED BY <1>1, <1>2, OneCallMoves

(* A call moves to a place from which it has nothing to answer for.        *)
LEMMA PlaceInv ==
    ASSUME Core, SigningTyped', NEW c \in Calls, NEW s \in {"locking", "failed"},
           task' = [task EXCEPT ![c].at = s],
           task[c].at \in {"idle", "opening", "awaitingReady"},
           UNCHANGED <<authenticate, websocket, receiver, waiter, conn, pending, streams>>,
           lock' = lock \/ (lock' = NoValue /\ lock = c)
    PROVE  Core'
<1>1. TypeOK /\ c \in Agents /\ s \in Places
  BY DEF Core, Agents, Places
<1>2. /\ task' \in [Agents -> Tasks]
      /\ \A b \in Agents : /\ task'[b].at = IF b = c THEN s ELSE task[b].at
                           /\ task'[b].got = task[b].got
                           /\ task'[b].target = task[b].target
  BY <1>1, SetAt
<1>3. /\ pending \subseteq pending' \cup {c} /\ streams \subseteq streams' \cup {c}
      /\ pending' \subseteq {d \in Calls : KindOf[d] = "request"}
      /\ streams' \subseteq {d \in Calls : KindOf[d] = "flow"}
  BY <1>1 DEF TypeOK
<1> QED BY <1>1, <1>2, <1>3, OneCallMoves

(* A call ends, and takes its entries along.                               *)
LEMMA EndInv ==
    ASSUME Core, SigningTyped', NEW c \in Calls, NEW s \in {"done", "failed"},
           task' = [task EXCEPT ![c] = Ended(s)],
           task[c].at \in {"locking", "opening", "awaitingReady", "sending", "waiting"},
           UNCHANGED <<authenticate, websocket, receiver, waiter, conn>>,
           lock' = lock \/ (lock' = NoValue /\ lock = c),
           pending' \in {pending, pending \ {c}}, streams' \in {streams, streams \ {c}}
    PROVE  Core'
<1>1. TypeOK /\ c \in Agents /\ s \in Places
  BY DEF Core, Agents, Places
<1>2. Ended(s) \in Tasks /\ Ended(s).at = s
  BY <1>1, EndedType
<1>3. /\ task' \in [Agents -> Tasks]
      /\ \A b \in Agents : task'[b] = IF b = c THEN Ended(s) ELSE task[b]
  BY <1>1, <1>2, SetTask
<1>4. task'[c].at = s /\ \A b \in Agents \ {c} : task'[b] = task[b]
  BY <1>1, <1>2, <1>3
<1>5. /\ pending \subseteq pending' \cup {c} /\ streams \subseteq streams' \cup {c}
      /\ pending' \subseteq {d \in Calls : KindOf[d] = "request"}
      /\ streams' \subseteq {d \in Calls : KindOf[d] = "flow"}
  BY <1>1 DEF TypeOK
<1> QED BY <1>1, <1>3, <1>4, <1>5, OneCallMoves

(* Every step of connect().                                                *)
LEMMA ConnectInv ==
    ASSUME Core, SigningTyped', NEW c \in Calls, Connect(c)
    PROVE  Core'
<1>1. c \in Agents /\ Receivers
  BY DEF Agents, Core
<1>2. CASE Start(c)
  <2>1. CASE IsConnected
    BY <1>2, <2>1, RegisteredInv DEF Start, links
  <2>2. CASE ~IsConnected
    BY <1>2, <2>2, PlaceInv DEF Start, links, tables
  <2> QED BY <2>1, <2>2
<1>3. CASE Acquire(c)
  <2>1. CASE IsConnected
    BY <1>3, <2>1, RegisteredInv DEF Acquire
  <2> QED BY <1>3, <2>1, AcquireToOpen
<1>4. CASE Opened(c)
  BY <1>4, OpenedInv
<1>5. CASE OpenFails(c)
  <2>1. lock = c
    BY <1>1, <1>5 DEF OpenFails, Receivers, ConnectorHoldsLock
  <2> QED BY <1>5, <2>1, PlaceInv DEF OpenFails, links, tables
<1>6. CASE Authenticated(c)
  BY <1>6, AuthenticatedInv
<1>7. CASE AuthenticationFails(c)
  BY <1>1, <1>7, CloseStepInv DEF AuthenticationFails
<1>8. CASE ReadyArrived(c)
  BY <1>8, RegisteredInv DEF ReadyArrived, links
<1>9. CASE ReadyFailed(c)
  BY <1>9, PlaceInv DEF ReadyFailed, links, tables
<1>10. CASE ReadyTimeout(c)
  BY <1>1, <1>10, CloseStepInv DEF ReadyTimeout
<1> QED BY <1>2, <1>3, <1>4, <1>5, <1>6, <1>7, <1>8, <1>9, <1>10 DEF Connect

(* A command goes out: its call waits where a loop or a close will find    *)
(* it.                                                                     *)
LEMMA SendInv ==
    ASSUME Core, SigningTyped', NEW c \in Calls, Send(c)
    PROVE  Core'
<1>1. TypeOK /\ Waiters /\ c \in Agents
  BY DEF Core, Agents
<1>2. /\ task[c].at = "sending" /\ websocket # NoValue
      /\ UNCHANGED <<authenticate, websocket, receiver, waiter, conn, lock, pending, streams>>
  BY DEF Send, links, tables
<1>3. CASE KindOf[c] = "send"
  <2>1. task' = [task EXCEPT ![c] = Ended("done")]
    BY <1>3 DEF Send
  <2> QED BY <1>2, <2>1, EndInv
<1>4. CASE KindOf[c] # "send"
  <2> DEFINE r == [[task[c] EXCEPT !.at = "waiting"] EXCEPT !.target = websocket]
  <2>1. task' = [task EXCEPT ![c] = r]
    BY <1>1, <1>4 DEF Send, TypeOK
  <2>2. task[c] \in Tasks /\ websocket \in Calls \cup {NoValue}
    BY <1>1, TaskType DEF TypeOK
  <2>3. r \in Tasks /\ r.at = "waiting" /\ r.got = task[c].got
    BY <2>2 DEF Tasks
  <2> HIDE DEF r
  <2>4. /\ task' \in [Agents -> Tasks]
        /\ \A b \in Agents : task'[b] = IF b = c THEN r ELSE task[b]
    BY <1>1, <2>1, <2>3, SetTask
  <2>5. /\ task'[c].at = "waiting" /\ task'[c].got = task[c].got
        /\ \A b \in Agents \ {c} : task'[b] = task[b]
    BY <1>1, <2>3, <2>4
  <2>6. KindOf[c] \in {"request", "flow"}
    <3>1. KindOf[c] # "connect"
      BY <1>1, <1>2 DEF Waiters, UnansweredIsRegistered
    <3> QED BY <1>4, <3>1, KindAssumption DEF Kinds
  <2>7. c \in pending' \cup streams' \/ task'[c].got # "none"
    BY <1>1, <1>2, <2>5, <2>6 DEF Waiters, UnansweredIsRegistered
  <2>8. /\ pending \subseteq pending' \cup {c} /\ streams \subseteq streams' \cup {c}
        /\ pending' \subseteq {d \in Calls : KindOf[d] = "request"}
        /\ streams' \subseteq {d \in Calls : KindOf[d] = "flow"}
    BY <1>1, <1>2 DEF TypeOK
  <2> QED BY <1>2, <2>4, <2>5, <2>6, <2>7, <2>8, OneCallMoves
<1> QED BY <1>3, <1>4

(* The other steps of a call that has connected.                           *)
LEMMA ExchangeInv ==
    ASSUME Core, SigningTyped', NEW c \in Calls, Exchange(c) \/ GiveUp(c)
    PROVE  Core'
<1>1. CASE Send(c)
  BY <1>1, SendInv
<1>2. CASE SendFails(c)
  BY <1>2, EndInv DEF SendFails, Forgotten, links
<1>3. CASE Return(c)
  <2>1. PICK s \in {"done", "failed"} : task' = [task EXCEPT ![c] = Ended(s)]
    BY <1>3 DEF Return
  <2> QED BY <1>3, <2>1, EndInv DEF Return, Forgotten, links
<1>4. CASE GiveUp(c)
  BY <1>4, EndInv DEF GiveUp, Forgotten, links
<1> QED BY <1>1, <1>2, <1>3, <1>4 DEF Exchange

(* A caller is cancelled: what it leaves in _pending nobody waits for.     *)
LEMMA CancelCallInv ==
    ASSUME Core, SigningTyped', NEW c \in Calls, Cancel(c)
    PROVE  Core'
<1>1. TypeOK /\ c \in Agents
  BY DEF Core, Agents
<1>2. /\ task[c].at \in {"locking", "opening", "awaitingReady", "sending", "waiting"}
      /\ streams' = streams \ {c} /\ pending' = pending
      /\ lock' = lock \/ (lock' = NoValue /\ lock = c)
      /\ UNCHANGED <<authenticate, websocket, receiver, waiter, conn>>
  BY DEF Cancel, links
<1>3. CASE c \notin pending
  <2>1. task' = [task EXCEPT ![c] = Ended("failed")]
    BY <1>3 DEF Cancel
  <2> QED BY <1>2, <2>1, EndInv
<1>4. CASE c \in pending
  <2> DEFINE r == [[task[c] EXCEPT !.at = "failed"] EXCEPT !.got = "cancelled"]
  <2>1. task' = [task EXCEPT ![c] = r]
    BY <1>1, <1>4 DEF Cancel, TypeOK
  <2>2. task[c] \in Tasks
    BY <1>1, TaskType
  <2>3. r \in Tasks /\ r.at = "failed"
    BY <2>2 DEF Tasks
  <2> HIDE DEF r
  <2>4. /\ task' \in [Agents -> Tasks]
        /\ \A b \in Agents : task'[b] = IF b = c THEN r ELSE task[b]
    BY <1>1, <2>1, <2>3, SetTask
  <2>5. task'[c].at = "failed" /\ \A b \in Agents \ {c} : task'[b] = task[b]
    BY <1>1, <2>3, <2>4
  <2>6. /\ pending \subseteq pending' \cup {c} /\ streams \subseteq streams' \cup {c}
        /\ pending' \subseteq {d \in Calls : KindOf[d] = "request"}
        /\ streams' \subseteq {d \in Calls : KindOf[d] = "flow"}
    BY <1>1, <1>2 DEF TypeOK
  <2> QED BY <1>2, <2>4, <2>5, <2>6, OneCallMoves
<1> QED BY <1>3, <1>4

(* The answer to a command reaches its call.                               *)
LEMMA ResponseInv ==
    ASSUME Core, SigningTyped', NEW i \in Calls, NEW c \in Calls, ReceiveResponse(i, c)
    PROVE  Core'
<1>1. TypeOK /\ Waiters /\ c \in Agents
  BY DEF Core, Agents
<1>2. /\ pending' = pending \ {c} /\ streams' = streams
      /\ UNCHANGED <<authenticate, websocket, receiver, waiter, conn, lock>>
  BY DEF ReceiveResponse, links
<1> DEFINE g == IF task[c].got = "none" THEN "response" ELSE task[c].got
           r == [task[c] EXCEPT !.got = g]
<1>3. g \in Gots /\ g # "none"
  BY <1>1, TaskType DEF Gots
<1>4. task' = [task EXCEPT ![c] = r]
  BY <1>1, TaskType DEF ReceiveResponse, Tasks
<1> HIDE DEF g
<1>5. r \in Tasks /\ r.at = task[c].at /\ r.got = g /\ r.target = task[c].target
  BY <1>1, <1>3, SetGot
<1> HIDE DEF r
<1>6. /\ task' \in [Agents -> Tasks]
      /\ \A b \in Agents : task'[b] = IF b = c THEN r ELSE task[b]
  BY <1>1, <1>4, <1>5, SetTask
<1>7. /\ task'[c].at = task[c].at /\ task'[c].got # "none" /\ task'[c].target = task[c].target
      /\ \A b \in Agents \ {c} : task'[b] = task[b]
  BY <1>1, <1>3, <1>5, <1>6
<1>8. /\ task[c].at = "sending" => KindOf[c] # "connect"
      /\ task[c].at = "waiting" => KindOf[c] \in {"request", "flow"}
  BY <1>1 DEF Waiters, UnansweredIsRegistered
<1>9. /\ pending \subseteq pending' \cup {c} /\ streams \subseteq streams' \cup {c}
      /\ pending' \subseteq {d \in Calls : KindOf[d] = "request"}
      /\ streams' \subseteq {d \in Calls : KindOf[d] = "flow"}
  BY <1>1, <1>2 DEF TypeOK
<1> QED BY <1>2, <1>6, <1>7, <1>8, <1>9, OneCallMoves

(* What a step that changes a socket or a ready future only leaves alone,  *)
(* and so does one that changes nothing.                                   *)
LEMMA ConnOnly ==
    ASSUME Core, SigningTyped',
           UNCHANGED <<authenticate, websocket, receiver, waiter, lock, pending, streams, task>>,
           conn' \in [Calls -> Connections],
           \A i \in Calls : conn'[i].loop = conn[i].loop /\ conn'[i].cancelled = conn[i].cancelled
    PROVE  Core'
<1>1. TypeOK /\ Receivers /\ Waiters
  BY DEF Core
<1>2. /\ task' \in [Agents -> Tasks] /\ lock' \in Calls \cup {NoValue}
      /\ pending' \subseteq {c \in Calls : KindOf[c] = "request"}
      /\ streams' \subseteq {c \in Calls : KindOf[c] = "flow"}
  BY <1>1 DEF TypeOK
<1>3. \A c \in Calls : task'[c].at \in {"opening", "authenticating"} => lock' = c
  BY <1>1 DEF Receivers, ConnectorHoldsLock
<1>4. \A c \in Calls :
          /\ task'[c].at = "sending" => KindOf[c] # "connect"
          /\ task'[c].at = "waiting" => KindOf[c] \in {"request", "flow"}
          /\ /\ task'[c].at \in {"sending", "waiting"} /\ task'[c].got = "none"
             /\ KindOf[c] \in {"request", "flow"}
             => c \in pending' \cup streams'
  BY <1>1 DEF Waiters, UnansweredIsRegistered
<1> QED BY <1>2, <1>3, <1>4, QuietStep

(* A frame says that the peer is ready, or the socket is lost.             *)
LEMMA SocketInv ==
    ASSUME Core, SigningTyped', NEW i \in Calls, ReceiveReady(i) \/ SocketLost(i)
    PROVE  Core'
<1>1. TypeOK
  BY DEF Core
<1>2. UNCHANGED <<authenticate, websocket, receiver, waiter, lock, pending, streams, task>>
  BY DEF ReceiveReady, SocketLost, links, tables
<1>3. PICK j \in Calls, r \in Connections :
          /\ r.loop = conn[j].loop /\ r.cancelled = conn[j].cancelled
          /\ conn' = [conn EXCEPT ![j] = r]
  <2>1. CASE SocketLost(i)
    <3> DEFINE r == [conn[i] EXCEPT !.socket = "closed"]
    <3>1. r \in Connections /\ r.loop = conn[i].loop /\ r.cancelled = conn[i].cancelled
      BY <1>1, ConnType DEF Connections
    <3>2. conn' = [conn EXCEPT ![i] = r]
      BY <2>1 DEF SocketLost
    <3> HIDE DEF r
    <3> QED BY <3>1, <3>2
  <2>2. CASE ReceiveReady(i)
    <3> DEFINE q == IF conn[waiter].ready = "pending" THEN "ready" ELSE conn[waiter].ready
               r == [conn[waiter] EXCEPT !.ready = q]
    <3>1. waiter \in Calls
      BY <1>1, <2>2 DEF ReceiveReady, TypeOK
    <3>2. r \in Connections /\ r.loop = conn[waiter].loop /\ r.cancelled = conn[waiter].cancelled
      BY <1>1, <3>1, ConnType DEF Connections
    <3>3. conn' = [conn EXCEPT ![waiter] = r]
      BY <1>1, <2>2, <3>1, ConnType DEF ReceiveReady, Connections
    <3> HIDE DEF r
    <3> QED BY <3>1, <3>2, <3>3
  <2> QED BY <2>1, <2>2
<1>4. /\ conn' \in [Calls -> Connections]
      /\ \A k \in Calls : conn'[k] = IF k = j THEN r ELSE conn[k]
  BY <1>1, <1>3, SetConn
<1> QED BY <1>2, <1>3, <1>4, ConnOnly

(* The receive loop itself.                                                *)
LEMMA LoopInv ==
    ASSUME Core, SigningTyped', NEW i \in Calls,
           StartLoop(i) \/ LoopFails(i) \/ LoopCancelled(i)
    PROVE  Core'
<1>1. CASE StartLoop(i)
  <2>1. CASE websocket = NoValue
    BY <1>1, <2>1, LoopEndedInv DEF StartLoop, Alive
  <2>2. CASE websocket # NoValue
    BY <1>1, <2>2, LoopBegins DEF StartLoop, links, tables
  <2> QED BY <2>1, <2>2
<1>2. CASE LoopFails(i)
  BY <1>2, LoopEndedInv DEF LoopFails, Alive
<1>3. CASE LoopCancelled(i)
  <2>1. CASE conn[i].loop = "running"
    BY <1>3, <2>1, LoopEndedInv DEF LoopCancelled
  <2>2. CASE conn[i].loop # "running"
    BY <1>3, <2>2, LoopNeverBegins DEF LoopCancelled, links, tables
  <2> QED BY <2>1, <2>2
<1> QED BY <1>1, <1>2, <1>3

(* close(), after each of its two waits.                                   *)
LEMMA ClosingInv ==
    ASSUME Core, SigningTyped', NEW a \in Agents, Closing(a)
    PROVE  Core'
<1>1. CASE SocketClosed(a)
  BY <1>1, CancelReceiverInv DEF SocketClosed
<1>2. CASE TaskEnded(a)
  <2>1. \A i \in Calls : ~Alive(i)
    BY <1>2 DEF TaskEnded, Core, Receivers, NoLoopBehindClose
  <2> QED BY <1>2, <2>1, ClosedInv DEF TaskEnded
<1> QED BY <1>1, <1>2 DEF Closing

(* ------------------------------ Signatures ------------------------------- *)

(* Only the sign commands touch the challenges.                            *)
LEMMA SigningUntouched ==
    ASSUME Next
    PROVE  \/ UNCHANGED <<used, signer>>
           \/ \E i \in Calls, k \in SignTasks, ch \in Challenges : ReceiveSign(i, k, ch)
           \/ \E k \in SignTasks, o \in {"signed", "denied"} : SignDone(k, o)
<1> USE DEF signing
<1>1. ASSUME NEW c \in Calls, Connect(c) PROVE UNCHANGED <<used, signer>>
  <2>1. CASE Start(c) \/ Acquire(c) \/ Opened(c) \/ OpenFails(c) \/ Authenticated(c)
    BY <2>1 DEF Start, Acquire, Opened, OpenFails, Authenticated
  <2>2. CASE AuthenticationFails(c) \/ ReadyArrived(c) \/ ReadyFailed(c) \/ ReadyTimeout(c)
    BY <2>2 DEF AuthenticationFails, ReadyArrived, ReadyFailed, ReadyTimeout, CloseStep
  <2> QED BY <1>1, <2>1, <2>2 DEF Connect
<1>2. ASSUME NEW c \in Calls, Exchange(c) \/ GiveUp(c) \/ Cancel(c)
      PROVE  UNCHANGED <<used, signer>>
  BY <1>2 DEF Exchange, Send, SendFails, Return, GiveUp, Cancel
<1>3. ASSUME NEW a \in Agents, Close(a) \/ Closing(a) PROVE UNCHANGED <<used, signer>>
  BY <1>3 DEF Close, CloseStep, Closing, SocketClosed, TaskEnded
<1>4. ASSUME NEW i \in Calls,
             \/ StartLoop(i) \/ LoopFails(i) \/ LoopCancelled(i) \/ ReceiveReady(i)
             \/ SocketLost(i) \/ \E c \in Calls : ReceiveResponse(i, c)
      PROVE  UNCHANGED <<used, signer>>
  BY <1>4 DEF StartLoop, LoopFails, LoopCancelled, ReceiveReady, SocketLost, ReceiveResponse,
     LoopEnded
<1>5. Closers \subseteq Agents
  BY DEF Agents
<1> QED BY <1>1, <1>2, <1>3, <1>4, <1>5 DEF Next, Loop

(* A challenge is entered in the step that lets a signing task through,    *)
(* and no task gets through with one that is entered.                      *)
LEMMA SigningInductive ==
    ASSUME IInv, [Next]_vars
    PROVE  SigningTyped' /\ Signatures'
<1>1. SigningTyped /\ Signatures
  BY DEF IInv, Core, TypeOK, SigningTyped
<1>2. CASE UNCHANGED <<used, signer>>
  BY <1>1, <1>2 DEF SigningTyped, Signatures, SigningIsEntered, SignedApart
<1>3. ASSUME NEW i \in Calls, NEW k \in SignTasks, NEW ch \in Challenges, ReceiveSign(i, k, ch)
      PROVE  SigningTyped' /\ Signatures'
  <2>1. PICK s \in {"denied", "signing"} :
            /\ signer' = [signer EXCEPT ![k] = [at |-> s, challenge |-> ch]]
            /\ s = "signing" => ch \notin used /\ used' = used \cup {ch}
            /\ used' \in {used, used \cup {ch}}
    BY <1>3 DEF ReceiveSign, CheckSign, RefuseSign
  <2>2. [at |-> s, challenge |-> ch] \in Signers
    BY DEF Signers
  <2>3. /\ SigningTyped'
        /\ \A j \in SignTasks : signer'[j] = IF j = k THEN [at |-> s, challenge |-> ch]
                                             ELSE signer[j]
    BY <1>1, <2>1, <2>2 DEF SigningTyped
  <2>4. /\ signer'[k].at = s /\ signer'[k].challenge = ch
        /\ \A j \in SignTasks \ {k} : signer'[j] = signer[j]
    BY <2>3
  <2>5. used \subseteq used' /\ (s = "signing" => ch \in used' /\ ch \notin used)
    BY <2>1
  <2>6. SigningIsEntered'
    BY <1>1, <2>4, <2>5 DEF Signatures, SigningIsEntered
  <2>7. SignedApart'
    BY <1>1, <2>4, <2>5 DEF Signatures, SigningIsEntered, SignedApart
  <2> QED BY <2>3, <2>6, <2>7 DEF Signatures
<1>4. ASSUME NEW k \in SignTasks, NEW o \in {"signed", "denied"}, SignDone(k, o)
      PROVE  SigningTyped' /\ Signatures'
  <2>1. signer[k].at = "signing" /\ used' = used /\ signer' = [signer EXCEPT ![k].at = o]
    BY <1>4 DEF SignDone
  <2>2. signer[k] \in Signers
    BY <1>1 DEF SigningTyped
  <2> DEFINE r == [signer[k] EXCEPT !.at = o]
  <2>3. r \in Signers /\ r.at = o /\ r.challenge = signer[k].challenge
    BY <2>2 DEF Signers
  <2>4. signer' = [signer EXCEPT ![k] = r]
    BY <2>1
  <2> HIDE DEF r
  <2>5. /\ SigningTyped'
        /\ \A j \in SignTasks : signer'[j] = IF j = k THEN r ELSE signer[j]
    BY <1>1, <2>1, <2>3, <2>4 DEF SigningTyped
  <2>6. /\ signer'[k].at = o /\ signer'[k].challenge = signer[k].challenge
        /\ \A j \in SignTasks \ {k} : signer'[j] = signer[j]
    BY <2>3, <2>5
  <2>7. SigningIsEntered'
    BY <1>1, <2>1, <2>6 DEF Signatures, SigningIsEntered
  <2>8. SignedApart'
    BY <1>1, <2>1, <2>6 DEF Signatures, SignedApart
  <2> QED BY <2>5, <2>7, <2>8 DEF Signatures
<1>5. CASE UNCHANGED vars
  BY <1>2, <1>5 DEF vars
<1> QED BY <1>2, <1>3, <1>4, <1>5, SigningUntouched

(* ------------------------------- Theorems -------------------------------- *)

(* Nothing is connected or registered to begin with.                       *)
LEMMA InitInv == Init => IInv
<1> SUFFICES ASSUME Init PROVE IInv
  OBVIOUS
<1> USE DEF Init
<1>1. TypeOK
  <2>1. conn \in [Calls -> Connections]
    BY DEF Connections
  <2>2. task \in [Agents -> Tasks]
    BY DEF Tasks
  <2>3. signer \in [SignTasks -> Signers]
    BY DEF Signers
  <2> QED BY <2>1, <2>2, <2>3 DEF TypeOK
<1>2. /\ \A i \in Calls : ~Alive(i) /\ conn[i].loop = "none" /\ ~conn[i].cancelled
      /\ \A a \in Agents : task[a].at = "idle"
      /\ Calls \subseteq Agents
  BY DEF Alive, Agents
<1>3. Receivers
  BY <1>2 DEF Receivers, ConnectorHoldsLock, LoopIsReceiver, OpeningIsQuiet,
     AuthenticatingIsQuiet, NoLoopBehindClose, SocketIsOwn
<1>4. Waiters
  BY <1>2 DEF Waiters, UnansweredIsRegistered, CancelledIsAwaited, SocketIsTended, WaitingIsTended
<1>5. Signatures
  BY DEF Signatures, SigningIsEntered, SignedApart
<1> QED BY <1>1, <1>3, <1>4, <1>5 DEF IInv, Core

(* However calls, closes, the receive loops and the peer's sign commands   *)
(* are interleaved, the invariant holds from the creation of the client.   *)
THEOREM Invariance == Spec => []IInv
<1>1. IInv /\ [Next]_vars => IInv'
  <2> SUFFICES ASSUME IInv, [Next]_vars PROVE IInv'
    OBVIOUS
  <2>1. SigningTyped' /\ Signatures'
    BY SigningInductive
  <2>2. Core
    BY DEF IInv
  <2>3. ASSUME NEW c \in Calls, Connect(c) \/ Exchange(c) \/ GiveUp(c) \/ Cancel(c)
        PROVE  Core'
    BY <2>1, <2>2, <2>3, ConnectInv, ExchangeInv, CancelCallInv
  <2>4. ASSUME NEW a \in Closers, Close(a)
        PROVE  Core'
    <3>1. a \in Agents
      BY DEF Agents
    <3> QED BY <2>1, <2>2, <2>4, <3>1, CloseStepInv DEF Close
  <2>5. ASSUME NEW a \in Agents, Closing(a)
        PROVE  Core'
    BY <2>1, <2>2, <2>5, ClosingInv
  <2>6. UNCHANGED <<authenticate, websocket, receiver, waiter, lock, pending, streams, task, conn>>
            => Core'
    <3>1. conn \in [Calls -> Connections]
      BY <2>2 DEF Core, TypeOK
    <3> QED BY <2>1, <2>2, <3>1, ConnOnly
  <2>7. ASSUME NEW i \in Calls, Loop(i) \/ SocketLost(i)
        PROVE  Core'
    <3>1. CASE \E k \in SignTasks, ch \in Challenges : ReceiveSign(i, k, ch)
      BY <2>6, <3>1 DEF ReceiveSign, links, tables
    <3> QED BY <2>1, <2>2, <2>7, <3>1, LoopInv, SocketInv, ResponseInv DEF Loop
  <2>8. ASSUME NEW k \in SignTasks, NEW o \in {"signed", "denied"}, SignDone(k, o)
        PROVE  Core'
    BY <2>6, <2>8 DEF SignDone, links, tables
  <2>9. ASSUME UNCHANGED vars
        PROVE  Core'
    BY <2>6, <2>9 DEF vars
  <2> QED BY <2>1, <2>3, <2>4, <2>5, <2>7, <2>8, <2>9 DEF Next, IInv
<1> QED BY InitInv, <1>1, PTL DEF Spec

(* The client's fields keep their types: _pending holds requests and       *)
(* _streams flows, whatever close() and the loops take out of them.        *)
THEOREM ClientTypeCorrect == Spec => []TypeOK
<1>1. IInv => TypeOK
  BY DEF IInv, Core
<1> QED BY Invariance, <1>1, PTL

(* However many calls connect and close at a time, the connect lock and    *)
(* the waits of close() leave one receive loop at a time, which reads the  *)
(* socket it was made for.                                                 *)
THEOREM ReceiverIsAlone == Spec => []OneReceiver
<1>1. IInv => OneReceiver
  BY DEF IInv, Core, Receivers, LoopIsReceiver, SocketIsOwn, OneReceiver
<1> QED BY Invariance, <1>1, PTL

(* No call waits for an answer or an element that nobody will read or      *)
(* fail: it is registered, and a receive loop, an authentication or a      *)
(* close is under way, for any number of calls and closes.                 *)
THEOREM WaitersAreTended == Spec => []NobodyWaitsAlone
<1>1. IInv => NobodyWaitsAlone
  <2> SUFFICES ASSUME IInv, NEW c \in Calls, task[c].at = "waiting", task[c].got = "none"
               PROVE  c \in pending \cup streams /\ Tended
    BY DEF NobodyWaitsAlone, Tended
  <2> QED BY DEF IInv, Core, Waiters, UnansweredIsRegistered, WaitingIsTended
<1> QED BY Invariance, <1>1, PTL

(* _answer_sign signs no challenge twice, for any number of challenges and *)
(* of answers under way.                                                   *)
THEOREM SignsOnce == Spec => []ChallengeSignedOnce
<1>1. IInv => ChallengeSignedOnce
  BY DEF IInv, Signatures, SignedApart, ChallengeSignedOnce
<1> QED BY Invariance, <1>1, PTL
=============================================================================

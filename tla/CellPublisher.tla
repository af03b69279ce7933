--------------------------- MODULE CellPublisher ---------------------------
(***************************************************************************)
(* A CloudBridgePublisherSession (bridge.py) that publishes a GeneralCell  *)
(* over an outbound bridge: the task that serves the commands of the       *)
(* remote side through a BridgeEndpoint, one feed task per `feed` command  *)
(* that forwards the Cell's flow, and close(), which ends them.  The Cell  *)
(* is CellFlows, which other tasks of the application call too, and among  *)
(* them other sessions.  The bridge is reduced to whether it is connected; *)
(* BridgeClient models it in full.                                         *)
(*                                                                         *)
(* All tasks run on one event loop: an action is what a task does between  *)
(* two points where it can be suspended.                                   *)
(***************************************************************************)
EXTENDS CellFlows

CONSTANTS
    MaxCommands,  \* bound: commands received from the remote side
    MaxCalls,     \* bound: calls of the other tasks
    MaxLosses     \* bound: times the connection is lost

ASSUME CellPublisherBounds ==
    /\ "serve" \in Callers
    /\ MaxCommands \in Nat /\ MaxCalls \in Nat /\ MaxLosses \in Nat

VARIABLES
    commands,    \* bridge.unhandled_commands
    received,    \* how many commands were received
    serve,       \* where the task running _serve_commands is
    serveCancel, \* a cancellation of that task not yet delivered
    feeds,       \* every feed task created so far
    registered,  \* _flow_tasks of the session
    stop,        \* the _stop event
    closing,     \* how far close() has come
    todo,        \* feeds that close() has yet to look at
    awaited,     \* the feed that close() waits for
    connected,   \* the bridge has a live connection
    appCalls,    \* how many calls the other tasks have made
    losses       \* how often the connection was lost

sessionVars == <<commands, received, serve, serveCancel, feeds, registered,
                 stop, closing, todo, awaited, connected, appCalls, losses>>
vars == <<flowVars, sessionVars>>

\* The commands told apart: a feed; a command on a label's flow or on all of
\* them; one whose response sends the serve task into the bridge; and `ready`,
\* passed over.
LabelOps == Ops \cup {"attach"}
Commands == [op : LabelOps, label : Labels] \cup [op : AllOps \cup {"feed", "request", "ready"}]

NoFeed == 0
FeedIds == DOMAIN feeds
Alive(f) == feeds[f].state \in {"starting", "waiting", "sending"}

TypeOK ==
    /\ FlowsTypeOK
    /\ commands \in Seq(Commands)
    /\ received \in 0..MaxCommands
    /\ serve \in {"none", "getting", "calling", "sending", "done", "failed"}
    /\ serveCancel \in BOOLEAN
    /\ feeds \in Seq([state : {"starting", "waiting", "sending", "ended", "failed"},
                      cancelled : BOOLEAN, late : BOOLEAN])
    /\ registered \subseteq FeedIds
    /\ stop \in BOOLEAN
    /\ closing \in {"open", "feeds", "serve", "bridge", "closed", "raised"}
    /\ todo \subseteq FeedIds
    /\ awaited \in FeedIds \cup {NoFeed}
    /\ connected \in BOOLEAN
    /\ appCalls \in 0..MaxCalls
    /\ losses \in 0..MaxLosses

Init ==
    /\ FlowsInit
    /\ commands = <<>> /\ received = 0
    /\ serve = "none" /\ serveCancel = FALSE
    /\ feeds = <<>> /\ registered = {}
    /\ stop = FALSE /\ closing = "open"
    /\ todo = {} /\ awaited = NoFeed
    /\ connected = FALSE
    /\ appCalls = 0 /\ losses = 0

\* start(): connect, announce the session as ready, create the serve task.
Start ==
    /\ serve = "none"
    /\ serve' = "getting"
    /\ connected' = TRUE
    /\ UNCHANGED <<flowVars, commands, received, serveCancel, feeds, registered,
                   stop, closing, todo, awaited, appCalls, losses>>

(***************************************************************************)
(* The remote side and the connection.                                     *)
(***************************************************************************)
RemoteSends ==
    /\ connected
    /\ received < MaxCommands
    /\ received' = received + 1
    /\ \E k \in Commands : commands' = Append(commands, k)
    /\ UNCHANGED <<flowVars, serve, serveCancel, feeds, registered, stop,
                   closing, todo, awaited, connected, appCalls, losses>>

\* Nothing tells the serve task or a waiting feed.
ConnectionLost ==
    /\ connected
    /\ losses < MaxLosses
    /\ losses' = losses + 1
    /\ connected' = FALSE
    /\ UNCHANGED <<flowVars, commands, received, serve, serveCancel, feeds,
                   registered, stop, closing, todo, awaited, appCalls>>

(***************************************************************************)
(* The serve task.                                                         *)
(***************************************************************************)

(* Mutant: the loop does not look at the stop event. *)
NextTurnAlways == "getting"

\* The head of the loop of _serve_commands.
NextTurn == IF stop THEN "done" ELSE "getting"

\* Where the endpoint's call of the Cell leaves the task: a call that returns
\* has no response, and an exception becomes one.
AfterCall(outcome) ==
    CASE outcome = "waits" -> "calling"
      [] outcome = "returns" -> NextTurn
      [] OTHER -> "sending"

NewFeed == [state |-> "starting", cancelled |-> FALSE, late |-> stop]

ServeTakes ==
    /\ serve = "getting" /\ ~serveCancel
    /\ commands # <<>>
    /\ commands' = Tail(commands)
    /\ LET k == Head(commands)
       IN  \/ /\ k.op = "ready"
              /\ serve' = NextTurn
              /\ UNCHANGED <<flowVars, feeds, registered>>
           \/ /\ k.op = "feed"
              /\ feeds' = Append(feeds, NewFeed)
              /\ registered' = registered \cup {Len(feeds) + 1}
              /\ serve' = NextTurn
              /\ UNCHANGED flowVars
           \/ /\ k.op = "request"
              /\ serve' = "sending"
              /\ UNCHANGED <<flowVars, feeds, registered>>
           \/ /\ k.op = "attach"
              /\ Attach(k.label)
              /\ serve' = "sending"
              /\ UNCHANGED <<feeds, registered>>
           \/ /\ k.op \in Ops
              /\ Begin("serve", k.op, k.label)
              /\ serve' = AfterCall(Prospect(k.op, k.label))
              /\ UNCHANGED <<feeds, registered>>
           \/ /\ k.op \in AllOps
              /\ \E outcome \in Outcomes :
                     BeginAll("serve", k.op, outcome) /\ serve' = AfterCall(outcome)
              /\ UNCHANGED <<feeds, registered>>
    /\ UNCHANGED <<received, serveCancel, stop, closing, todo, awaited,
                   connected, appCalls, losses>>

\* The endpoint's call of the Cell goes on.  A cancellation that reached the
\* task in there is used up.
ServeResumes ==
    /\ serve = "calling"
    /\ \/ \E outcome \in Outcomes :
             Returns("serve", serveCancel, outcome) /\ serve' = AfterCall(outcome)
       \/ Raises("serve") /\ serve' = AfterCall("raises")
    /\ serveCancel' = FALSE
    /\ UNCHANGED <<commands, received, feeds, registered, stop, closing, todo,
                   awaited, connected, appCalls, losses>>

\* send_untracked connects first when it has to, and may fail to.
ServeSends ==
    /\ serve = "sending" /\ ~serveCancel
    /\ \/ serve' = NextTurn /\ connected' = TRUE
       \/ ~connected /\ serve' = "failed" /\ UNCHANGED connected
    /\ UNCHANGED <<flowVars, commands, received, serveCancel, feeds, registered,
                   stop, closing, todo, awaited, appCalls, losses>>

ServeCancelled ==
    /\ serveCancel
    /\ serve \in {"getting", "sending"}
    /\ serve' = "done"
    /\ serveCancel' = FALSE
    /\ UNCHANGED <<flowVars, commands, received, feeds, registered, stop,
                   closing, todo, awaited, connected, appCalls, losses>>

(***************************************************************************)
(* The feeds.                                                              *)
(***************************************************************************)
SetFeed(f, s) == feeds' = [feeds EXCEPT ![f].state = s]

\* flow() asks for access first.
FeedStarts(f) ==
    /\ feeds[f].state = "starting" /\ ~feeds[f].cancelled
    /\ \E s \in {"waiting", "failed"} : SetFeed(f, s)
    /\ UNCHANGED <<flowVars, connected>>

\* One feed gets the item, a completion too.
FeedTakes(f) ==
    /\ feeds[f].state = "waiting" /\ ~feeds[f].cancelled
    /\ queue # <<>>
    /\ queue' = Tail(queue)
    /\ SetFeed(f, IF Head(queue) = "completion" THEN "ended" ELSE "sending")
    /\ UNCHANGED <<attached, flowTasks, pumps, pushed, calls, clashed, connected>>

FeedSends(f) ==
    /\ feeds[f].state = "sending" /\ ~feeds[f].cancelled
    /\ \/ SetFeed(f, "waiting") /\ connected' = TRUE
       \/ ~connected /\ SetFeed(f, "failed") /\ UNCHANGED connected
    /\ UNCHANGED flowVars

FeedCancelled(f) ==
    /\ Alive(f) /\ feeds[f].cancelled
    /\ SetFeed(f, "ended")
    /\ UNCHANGED <<flowVars, connected>>

FeedsOnly == UNCHANGED <<commands, received, serve, serveCancel, registered, stop,
                         closing, todo, awaited, appCalls, losses>>

FeedStep ==
    /\ \E f \in FeedIds : FeedStarts(f) \/ FeedTakes(f) \/ FeedSends(f) \/ FeedCancelled(f)
    /\ FeedsOnly

\* The done callback of a feed task.
Discard ==
    /\ \E f \in registered : ~Alive(f) /\ registered' = registered \ {f}
    /\ UNCHANGED <<flowVars, commands, received, serve, serveCancel, feeds,
                   stop, closing, todo, awaited, connected, appCalls, losses>>

(***************************************************************************)
(* close().                                                                *)
(***************************************************************************)

\* The loop over the feeds `fs` and what follows it, up to the next wait.
\* Feeds that have ended pass; one that failed makes close() raise.
CloseOn(fs) ==
    \/ \E f \in fs :
           /\ Alive(f)
           /\ feeds' = [feeds EXCEPT ![f].cancelled = TRUE]
           /\ awaited' = f
           /\ todo' = fs \ {f}
           /\ closing' = "feeds"
           /\ UNCHANGED <<registered, serveCancel>>
    \/ /\ \E f \in fs : feeds[f].state = "failed"
       /\ closing' = "raised"
       /\ todo' = {} /\ awaited' = NoFeed
       /\ UNCHANGED <<feeds, registered, serveCancel>>
    \/ /\ \A f \in fs : feeds[f].state = "ended"
       /\ registered' = {}
       /\ todo' = {} /\ awaited' = NoFeed
       /\ serveCancel' = (serve \notin {"done", "failed"})
       /\ closing' = IF serve \in {"done", "failed"} THEN "bridge" ELSE "serve"
       /\ UNCHANGED feeds

(* Mutant: close() relies on cancelling the task and sets no stop event. *)
BeginCloseUnannounced ==
    /\ serve # "none"
    /\ closing \in {"open", "raised"}
    /\ stop' = stop
    /\ CloseOn(registered)
    /\ UNCHANGED <<flowVars, commands, received, serve, connected, appCalls, losses>>

\* __aexit__ closes a session that was started; a close() that raised may be
\* called again.
BeginClose ==
    /\ serve # "none"
    /\ closing \in {"open", "raised"}
    /\ stop' = TRUE
    /\ CloseOn(registered)
    /\ UNCHANGED <<flowVars, commands, received, serve, connected, appCalls, losses>>

\* The feed waited for has ended.
CloseFeeds ==
    /\ closing = "feeds"
    /\ ~Alive(awaited)
    /\ CloseOn(todo)
    /\ UNCHANGED <<flowVars, commands, received, serve, stop, connected,
                   appCalls, losses>>

\* The serve task waited for has ended; what it raised, close() raises.
CloseServe ==
    /\ closing = "serve"
    /\ \/ serve = "done" /\ closing' = "bridge"
       \/ serve = "failed" /\ closing' = "raised"
    /\ UNCHANGED <<flowVars, commands, received, serve, serveCancel, feeds,
                   registered, stop, todo, awaited, connected, appCalls, losses>>

CloseBridge ==
    /\ closing = "bridge"
    /\ connected' = FALSE
    /\ closing' = "closed"
    /\ UNCHANGED <<flowVars, commands, received, serve, serveCancel, feeds,
                   registered, stop, todo, awaited, appCalls, losses>>

CloseStep == CloseFeeds \/ CloseServe \/ CloseBridge

(***************************************************************************)
(* The other tasks that call the Cell: the application, which owns it, and *)
(* the sessions beside this one.  Any of them may be cancelled as it waits. *)
(***************************************************************************)
Apps == Callers \ {"serve"}

AppCalls(c) ==
    /\ appCalls < MaxCalls
    /\ calls[c] = NoCall
    /\ appCalls' = appCalls + 1
    /\ \/ \E l \in Labels : Attach(l) \/ \E op \in Ops : Begin(c, op, l)
       \/ \E op \in AllOps, outcome \in Outcomes : BeginAll(c, op, outcome)
    /\ UNCHANGED <<commands, received, serve, serveCancel, feeds, registered,
                   stop, closing, todo, awaited, connected, losses>>

AppResumes(c) ==
    /\ \/ \E interrupted \in BOOLEAN, outcome \in Outcomes : Returns(c, interrupted, outcome)
       \/ Raises(c)
    /\ UNCHANGED sessionVars

CellStep == FlowsStep /\ UNCHANGED sessionVars

Next ==
    \/ Start
    \/ RemoteSends
    \/ ConnectionLost
    \/ ServeTakes
    \/ ServeResumes
    \/ ServeSends
    \/ ServeCancelled
    \/ FeedStep
    \/ Discard
    \/ BeginClose
    \/ CloseStep
    \/ \E c \in Apps : AppCalls(c) \/ AppResumes(c)
    \/ CellStep

\* A cancelled pump or feed ends, and a task whose wait is over runs again:
\* that is the event loop's doing, and the emitters' not to hold back a
\* cancellation.  A send ends or fails: the bridge's time limit on connect()
\* and the socket library's keepalive see to it.  Nothing makes the remote
\* side, the application or a running pump do anything.
Fairness ==
    /\ WF_vars(ServeResumes)
    /\ WF_vars(ServeSends)
    /\ WF_vars(ServeCancelled)
    /\ WF_vars(CloseStep)
    /\ WF_vars(\E f \in FeedIds : FeedCancelled(f) /\ FeedsOnly)
    /\ WF_vars(\E p \in DOMAIN pumps :
                   pumps[p].state = "cancelled" /\ PumpStops(p) /\ UNCHANGED sessionVars)

Spec == Init /\ [][Next]_vars /\ Fairness

(***************************************************************************)
(* Properties.                                                             *)
(***************************************************************************)

\* Once close() has returned, the serve task has ended and no feed that was
\* running when close() began runs on; at most one feed does, the one whose
\* command the serve task took while close() waited for the others, and only
\* such a feed connects the bridge again.
ClosedForGood ==
    closing = "closed" =>
        /\ serve \in {"done", "failed"}
        /\ \A f \in FeedIds : Alive(f) => feeds[f].late
        /\ Cardinality({f \in FeedIds : Alive(f)}) <= 1
        /\ connected => \E f \in FeedIds : feeds[f].late

\* close() comes to an end, by returning or by raising, wherever the serve
\* task is when it is cancelled: inside a call of the Cell it loses its
\* cancellation, and ends because it looks at the stop event.
CloseEnds == closing \in {"feeds", "serve", "bridge"} ~> closing \in {"closed", "raised"}

=============================================================================

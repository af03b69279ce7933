----------------------------- MODULE CellFlows -----------------------------
(***************************************************************************)
(* The flows of a GeneralCell (general_cell.py): the emitters attached     *)
(* under labels, the pump task that copies an absorbed emitter's elements  *)
(* into the Cell's own queue, and that queue, which every consumer of the  *)
(* Cell's flow shares.                                                     *)
(*                                                                         *)
(* Several tasks of one event loop call the Cell.  A call runs without     *)
(* interruption until it waits for a pump that it has cancelled, and only  *)
(* there can another call come in between.  Access is checked before a     *)
(* call reads anything, and a refused call changes nothing, so the actions *)
(* begin behind the check.                                                 *)
(***************************************************************************)
EXTENDS Naturals, Sequences, FiniteSets

CONSTANTS
    Labels,     \* labels under which emitters are attached
    Callers,    \* tasks that call the Cell
    MaxPumps,   \* bound: pump tasks created
    MaxPushed   \* bound: elements and completions put on the queue

ASSUME CellFlowsBounds ==
    /\ IsFiniteSet(Callers)
    /\ MaxPumps \in Nat /\ MaxPushed \in Nat

VARIABLES
    attached,   \* _attached: the labels with an emitter
    flowTasks,  \* _flow_tasks: the number of each label's registered pump
    pumps,      \* every pump task created so far
    queue,      \* _flow_queue
    pushed,     \* how many items were put on the queue
    calls,      \* what each caller waits for inside the Cell
    clashed     \* labels on which two calls that do not go together overlapped

flowVars == <<attached, flowTasks, pumps, queue, pushed, calls, clashed>>

NoPump == 0
Ops == {"absorb", "drop", "detach"}
AllOps == {"dropAll", "detachAll"}
PumpStates == {"running", "cancelled", "ended", "failed"}
NoCall == [op |-> "none"]

\* A call on all labels has `rest` still to drop.
Waiting ==
    [op : Ops, label : Labels, pump : 1..MaxPumps]
        \cup [op : AllOps, label : Labels, pump : 1..MaxPumps, rest : SUBSET Labels]

FlowsTypeOK ==
    /\ attached \subseteq Labels
    /\ flowTasks \in [Labels -> 0..MaxPumps]
    /\ pumps \in Seq([label : Labels, state : PumpStates])
    /\ Len(pumps) <= MaxPumps
    /\ queue \in Seq({"element", "completion"})
    /\ pushed \in 0..MaxPushed
    /\ calls \in [Callers -> Waiting \cup {NoCall}]
    /\ clashed \subseteq Labels

FlowsInit ==
    /\ attached = {}
    /\ flowTasks = [l \in Labels |-> NoPump]
    /\ pumps = <<>>
    /\ queue = <<>>
    /\ pushed = 0
    /\ calls = [c \in Callers |-> NoCall]
    /\ clashed = {}

Done(p) == pumps[p].state \in {"ended", "failed"}

(***************************************************************************)
(* The calls.                                                              *)
(***************************************************************************)

\* A second emitter under a label replaces the first, whose pump goes on.
Attach(l) ==
    /\ attached' = attached \cup {l}
    /\ UNCHANGED <<flowTasks, pumps, queue, pushed, calls, clashed>>

\* What comes of a call before it can be interrupted: absorb_flow refuses a
\* label without an emitter; drop_flow waits for a pump that still runs, and
\* raises what a failed one raised.
Prospect(op, l) ==
    IF op = "absorb" /\ l \notin attached THEN "refused"
    ELSE IF flowTasks[l] = NoPump THEN "returns"
    ELSE CASE pumps[flowTasks[l]].state = "ended" -> "returns"
           [] pumps[flowTasks[l]].state = "failed" -> "raises"
           [] OTHER -> "waits"

\* What a call does once drop_flow has returned, the registered pumps being
\* `tasks` by then.
Complete(op, l, tasks) ==
    /\ attached' = IF op = "detach" THEN attached \ {l} ELSE attached
    /\ IF op = "absorb"
       THEN /\ pumps' = Append(pumps, [label |-> l, state |-> "running"])
            /\ flowTasks' = [tasks EXCEPT ![l] = Len(pumps) + 1]
       ELSE flowTasks' = tasks /\ UNCHANGED pumps

\* A call that another task waits in does not go together with op on l.
Clash(call, op, l) ==
    \/ call.op = "detachAll" /\ op = "absorb"
    \/ /\ call # NoCall /\ call.label = l
       /\ \/ call.op = "absorb" /\ op \in {"absorb", "detach"}
          \/ call.op = "detach" /\ op = "absorb"

(* Mutant: the pump is taken off the register but never cancelled. *)
LeftRunning(p) == pumps

Cancelled(p) == [pumps EXCEPT ![p].state = "cancelled"]

Begin(c, op, l) ==
    LET popped == [flowTasks EXCEPT ![l] = NoPump]
        absorbing == {d \in Callers : calls[d].op = "absorb"}
    IN  /\ calls[c] = NoCall
        /\ op = "absorb" => Len(pumps) + Cardinality(absorbing) < MaxPumps
        /\ clashed' = IF \E d \in Callers : Clash(calls[d], op, l)
                      THEN clashed \cup {l} ELSE clashed
        /\ \/ /\ Prospect(op, l) = "refused"
              /\ UNCHANGED <<attached, flowTasks, pumps, calls>>
           \/ /\ Prospect(op, l) = "returns"
              /\ Complete(op, l, popped)
              /\ UNCHANGED calls
           \/ /\ Prospect(op, l) = "raises"
              /\ flowTasks' = popped
              /\ UNCHANGED <<attached, pumps, calls>>
           \/ /\ Prospect(op, l) = "waits"
              /\ flowTasks' = popped
              /\ pumps' = Cancelled(flowTasks[l])
              /\ calls' = [calls EXCEPT ![c] =
                     [op |-> op, label |-> l, pump |-> flowTasks[l]]]
              /\ UNCHANGED attached
        /\ UNCHANGED <<queue, pushed>>

\* drop_flow of each label of `rest`, in any order, up to the first that raises
\* or has to wait; detach_all strips every label once all of them are through.
Sweep(c, op, rest, outcome) ==
    \E through \in SUBSET rest :
        LET popped == [l \in Labels |-> IF l \in through THEN NoPump ELSE flowTasks[l]]
        IN  /\ \A l \in through : Prospect("drop", l) = "returns"
            /\ \/ /\ outcome = "returns"
                  /\ through = rest
                  /\ flowTasks' = popped
                  /\ attached' = IF op = "detachAll" THEN {} ELSE attached
                  /\ calls' = [calls EXCEPT ![c] = NoCall]
                  /\ UNCHANGED pumps
               \/ \E l \in rest \ through :
                      /\ outcome = "raises" /\ Prospect("drop", l) = "raises"
                      /\ flowTasks' = [popped EXCEPT ![l] = NoPump]
                      /\ calls' = [calls EXCEPT ![c] = NoCall]
                      /\ UNCHANGED <<attached, pumps>>
               \/ \E l \in rest \ through :
                      /\ outcome = "waits" /\ Prospect("drop", l) = "waits"
                      /\ flowTasks' = [popped EXCEPT ![l] = NoPump]
                      /\ pumps' = Cancelled(flowTasks[l])
                      /\ calls' = [calls EXCEPT ![c] =
                             [op |-> op, label |-> l, pump |-> flowTasks[l],
                              rest |-> rest \ (through \cup {l})]]
                      /\ UNCHANGED attached

Outcomes == {"returns", "raises", "waits"}

\* detach_all and drop_all_flows go over the labels registered when they begin.
BeginAll(c, op, outcome) ==
    /\ calls[c] = NoCall
    /\ LET absorbing == {d \in Callers : calls[d].op = "absorb"}
       IN  clashed' = IF op # "detachAll" THEN clashed
                      ELSE clashed \cup {calls[d].label : d \in absorbing}
    /\ Sweep(c, op, {l \in Labels : flowTasks[l] # NoPump}, outcome)
    /\ UNCHANGED <<queue, pushed>>

\* The pump a caller waited for has ended.
Resume(c) ==
    /\ calls[c] # NoCall
    /\ Done(calls[c].pump)
    /\ UNCHANGED <<queue, pushed, clashed>>

\* drop_flow returns, also when it was the caller that was cancelled: it takes
\* its own cancellation for the pump's.
Returns(c, interrupted, outcome) ==
    /\ Resume(c)
    /\ interrupted \/ pumps[calls[c].pump].state = "ended"
    /\ \/ /\ calls[c].op \in Ops /\ outcome = "returns"
          /\ Complete(calls[c].op, calls[c].label, flowTasks)
          /\ calls' = [calls EXCEPT ![c] = NoCall]
       \/ /\ calls[c].op \in AllOps
          /\ Sweep(c, calls[c].op, calls[c].rest, outcome)

\* The pump failed on its way out, and drop_flow raises that.
Raises(c) ==
    /\ Resume(c)
    /\ pumps[calls[c].pump].state = "failed"
    /\ calls' = [calls EXCEPT ![c] = NoCall]
    /\ UNCHANGED <<attached, flowTasks, pumps>>

(***************************************************************************)
(* The pumps and the queue.                                                *)
(***************************************************************************)

Push(item) ==
    /\ pushed < MaxPushed
    /\ pushed' = pushed + 1
    /\ queue' = Append(queue, item)

\* The Cell's own code pushes an element or the completion of its flow.
CellPushes ==
    /\ \E item \in {"element", "completion"} : Push(item)
    /\ UNCHANGED <<attached, flowTasks, pumps, calls, clashed>>

PumpCopies(p) ==
    /\ pumps[p].state = "running"
    /\ Push("element")
    /\ UNCHANGED <<attached, flowTasks, pumps, calls, clashed>>

\* The emitter's flow ends or raises; a cancelled pump does nothing else.
PumpStops(p) ==
    /\ ~Done(p)
    /\ \E s \in {"ended", "failed"} : pumps' = [pumps EXCEPT ![p].state = s]
    /\ UNCHANGED <<attached, flowTasks, queue, pushed, calls, clashed>>

FlowsStep ==
    \/ CellPushes
    \/ \E p \in DOMAIN pumps : PumpCopies(p) \/ PumpStops(p)

(***************************************************************************)
(* Unless an absorb_flow overlapped another absorb_flow or a detach of the *)
(* same label, or a detach_all, a pump that runs is the one registered for *)
(* its label, where drop_flow finds it, and its label has an emitter       *)
(* attached: no pump goes on copying behind the back of a Cell that has    *)
(* dropped it.  The exceptions are real: drop_flow unregisters the old     *)
(* pump before it waits for it, what absorb_flow read before that wait may *)
(* be gone after, and detach_all strips, after its waits, labels that were *)
(* absorbed meanwhile.                                                     *)
(***************************************************************************)
PumpsAccountedFor ==
    \A p \in DOMAIN pumps :
        LET l == pumps[p].label
        IN  pumps[p].state = "running" /\ l \notin clashed
                => flowTasks[l] = p /\ l \in attached

=============================================================================

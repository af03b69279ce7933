------------------------ MODULE CellPublisherProofs -------------------------
(* Theorems about CellPublisher and the CellFlows it publishes, for any    *)
(* labels, any finite set of tasks that call the Cell and any number of    *)
(* pumps, elements, commands and calls.                                    *)
EXTENDS CellPublisher, FiniteSetTheorems, SequenceTheorems, TLAPS

(* ------------------------------ The flows ------------------------------ *)

Absorbing == {c \in Callers : calls[c].op = "absorb"}

(* Every call that waits to absorb has room for its pump.                  *)
RoomForPumps == Len(pumps) + Cardinality(Absorbing) <= MaxPumps

(* A registered pump is one of its label, and was not cancelled: drop_flow *)
(* takes it off before it cancels it.                                      *)
RegisteredOK ==
    \A l \in Labels : flowTasks[l] # NoPump =>
        /\ flowTasks[l] \in DOMAIN pumps
        /\ pumps[flowTasks[l]].label = l
        /\ pumps[flowTasks[l]].state # "cancelled"

(* Behind a call that waits to absorb or to detach no pump is registered,  *)
(* unless the label has seen a clash.                                      *)
WaitingOK ==
    \A c \in Callers : calls[c] # NoCall =>
        /\ calls[c].pump \in DOMAIN pumps
        /\ calls[c].op \in {"absorb", "detach"} /\ calls[c].label \notin clashed =>
              flowTasks[calls[c].label] = NoPump
        /\ calls[c].op = "absorb" /\ calls[c].label \notin clashed =>
              calls[c].label \in attached

(* A detach_all that waits has dropped every label but the rest of them,   *)
(* and no pump has come back behind it, unless its label has seen a clash. *)
DetachingOK ==
    \A c \in Callers : calls[c].op = "detachAll" =>
        \A l \in Labels : l \notin calls[c].rest /\ l \notin clashed => flowTasks[l] = NoPump

(* Two calls that do not go together wait only if the label of the one     *)
(* that the other spoils is marked.                                        *)
ClashesAreMarked ==
    \A c, d \in Callers :
        c # d /\ calls[c] # NoCall /\ Clash(calls[d], calls[c].op, calls[c].label)
            => calls[c].label \in clashed

FlowsInv ==
    /\ FlowsTypeOK /\ RoomForPumps
    /\ RegisteredOK /\ WaitingOK /\ DetachingOK /\ ClashesAreMarked /\ PumpsAccountedFor

(* ----------------------------- The session ----------------------------- *)

(* The stop event is set by close() and by nothing else, and there is a    *)
(* session to close.                                                       *)
StopIsClose ==
    /\ stop <=> closing # "open"
    /\ serve = "none" => closing = "open" /\ feeds = <<>>

(* The serve task takes one feed at most after the stop event.             *)
OneLateFeed ==
    /\ (\E f \in FeedIds : feeds[f].late) => stop /\ serve = "done"
    /\ \A f, g \in FeedIds : feeds[f].late /\ feeds[g].late => f = g

(* Which feeds close() has still to end.                                   *)
FeedsInHand ==
    \A f \in FeedIds : Alive(f) /\ ~feeds[f].late =>
        /\ closing \in {"open", "feeds", "raised"}
        /\ f \in registered
        /\ closing = "feeds" => f \in todo \cup {awaited}

(* close() gets to the bridge when the serve task has ended.               *)
ServeEndsFirst == closing \in {"bridge", "closed"} => serve \in {"done", "failed"}

(* Only a late feed connects a bridge that close() has closed.             *)
ConnectedByLate ==
    closing = "closed" /\ connected => \E f \in FeedIds : feeds[f].late

Session ==
    /\ TypeOK
    /\ StopIsClose /\ OneLateFeed /\ FeedsInHand /\ ServeEndsFirst /\ ConnectedByLate

IInv == FlowsInv /\ Session

(* --------------------- What every call of the Cell needs ----------------- *)

PumpRecords == [label : Labels, state : PumpStates]

(* The pumps are numbered from one.                                        *)
LEMMA PumpType ==
    ASSUME FlowsTypeOK
    PROVE  /\ Len(pumps) \in Nat /\ DOMAIN pumps = 1..Len(pumps)
           /\ \A p \in DOMAIN pumps : /\ pumps[p] \in PumpRecords
                                     /\ pumps[p].label \in Labels
                                     /\ pumps[p].state \in PumpStates
<1>1. pumps \in Seq(PumpRecords)
  BY DEF FlowsTypeOK, PumpRecords
<1>2. Len(pumps) \in Nat /\ DOMAIN pumps = 1..Len(pumps)
  BY <1>1, LenProperties
<1>3. \A p \in DOMAIN pumps : pumps[p] \in PumpRecords
  BY <1>1, <1>2, ElementOfSeq
<1> QED BY <1>2, <1>3 DEF PumpRecords

(* absorb_flow's new pump gets the next number.                            *)
LEMMA PumpAdded ==
    ASSUME FlowsTypeOK, NEW l \in Labels,
           pumps' = Append(pumps, [label |-> l, state |-> "running"])
    PROVE  /\ pumps' \in Seq(PumpRecords)
           /\ Len(pumps') = Len(pumps) + 1
           /\ DOMAIN pumps' = 1..(Len(pumps) + 1)
           /\ \A p \in DOMAIN pumps : pumps'[p] = pumps[p]
           /\ pumps'[Len(pumps) + 1] = [label |-> l, state |-> "running"]
<1>1. pumps \in Seq(PumpRecords)
  BY DEF FlowsTypeOK, PumpRecords
<1>2. [label |-> l, state |-> "running"] \in PumpRecords
  BY DEF PumpRecords, PumpStates
<1> QED BY <1>1, <1>2, AppendProperties, LenProperties

(* A pump that is cancelled or that ends keeps its number and its label.   *)
LEMMA PumpSet ==
    ASSUME FlowsTypeOK, NEW p \in DOMAIN pumps, NEW s \in PumpStates,
           pumps' = [pumps EXCEPT ![p].state = s]
    PROVE  /\ pumps' \in Seq(PumpRecords)
           /\ Len(pumps') = Len(pumps)
           /\ DOMAIN pumps' = DOMAIN pumps
           /\ \A q \in DOMAIN pumps :
                  /\ pumps'[q].label = pumps[q].label
                  /\ pumps'[q].state = IF q = p THEN s ELSE pumps[q].state
<1>1. pumps \in Seq(PumpRecords)
  BY DEF FlowsTypeOK, PumpRecords
<1>2. DOMAIN pumps = 1..Len(pumps) /\ Len(pumps) \in Nat
  BY PumpType
<1>3. pumps[p] \in PumpRecords
  BY PumpType
<1>4. [pumps[p] EXCEPT !.state = s] \in PumpRecords
  BY <1>3 DEF PumpRecords
<1>5. pumps' = [pumps EXCEPT ![p] = [pumps[p] EXCEPT !.state = s]]
  OBVIOUS
<1>6. pumps' \in Seq(PumpRecords) /\ Len(pumps') = Len(pumps)
  BY <1>1, <1>2, <1>4, <1>5, ExceptSeq
<1>7. \A q \in DOMAIN pumps : pumps'[q] = IF q = p THEN [pumps[p] EXCEPT !.state = s] ELSE pumps[q]
  BY <1>5
<1>8. /\ [pumps[p] EXCEPT !.state = s].label = pumps[p].label
      /\ [pumps[p] EXCEPT !.state = s].state = s
  BY <1>3 DEF PumpRecords
<1> QED BY <1>6, <1>7, <1>8, <1>5

(* A caller waits for nothing, or for a pump to drop, under a label.       *)
LEMMA CallType ==
    ASSUME FlowsTypeOK, NEW c \in Callers, calls[c] # NoCall
    PROVE  /\ calls[c] \in Waiting
           /\ calls[c].op \in Ops \cup AllOps
           /\ calls[c].label \in Labels
           /\ calls[c].pump \in 1..MaxPumps
           /\ calls[c].op \in AllOps => calls[c].rest \subseteq Labels
<1>1. calls[c] \in Waiting
  BY DEF FlowsTypeOK
<1>2. CASE calls[c] \in [op : Ops, label : Labels, pump : 1..MaxPumps]
  <2>1. calls[c].op \notin AllOps
    BY <1>2 DEF Ops, AllOps
  <2> QED BY <1>1, <1>2, <2>1
<1>3. CASE calls[c] \in [op : AllOps, label : Labels, pump : 1..MaxPumps, rest : SUBSET Labels]
  BY <1>1, <1>3
<1> QED BY <1>1, <1>2, <1>3 DEF Waiting

(* A caller that waits for nothing is not absorbing.                       *)
LEMMA NoCallOp == NoCall.op = "none"
BY DEF NoCall

(* The calls that wait to absorb are finitely many.                        *)
LEMMA AbsorbingFinite == IsFiniteSet(Absorbing) /\ Cardinality(Absorbing) \in Nat
<1>1. IsFiniteSet(Callers)
  BY CellFlowsBounds
<1>2. Absorbing \subseteq Callers
  BY DEF Absorbing
<1>3. IsFiniteSet(Absorbing)
  BY <1>1, <1>2, FS_Subset
<1> QED BY <1>3, FS_CardinalityType

(* A call that begins to wait for absorb_flow is one more of them.         *)
LEMMA AbsorbingGrows ==
    ASSUME FlowsTypeOK, NEW c \in Callers, calls[c] = NoCall,
           NEW w, calls' = [calls EXCEPT ![c] = w]
    PROVE  /\ w.op = "absorb" => Cardinality(Absorbing') = Cardinality(Absorbing) + 1
           /\ w.op # "absorb" => Absorbing' = Absorbing
<1>1. c \notin Absorbing
  BY NoCallOp DEF Absorbing
<1>2. \A d \in Callers : calls'[d] = IF d = c THEN w ELSE calls[d]
  BY DEF FlowsTypeOK
<1>3. CASE w.op = "absorb"
  <2>1. Absorbing' = Absorbing \cup {c}
    BY <1>2, <1>3 DEF Absorbing
  <2> QED BY <1>1, <1>3, <2>1, AbsorbingFinite, FS_AddElement
<1>4. CASE w.op # "absorb"
  BY <1>1, <1>2, <1>4 DEF Absorbing
<1> QED BY <1>3, <1>4

(* And one that comes back is one less.                                    *)
LEMMA AbsorbingShrinks ==
    ASSUME FlowsTypeOK, NEW c \in Callers, calls' = [calls EXCEPT ![c] = NoCall]
    PROVE  /\ calls[c].op = "absorb" => /\ Cardinality(Absorbing') \in Nat
                                        /\ Cardinality(Absorbing) = Cardinality(Absorbing') + 1
           /\ calls[c].op # "absorb" => Absorbing' = Absorbing
<1>1. \A d \in Callers : calls'[d] = IF d = c THEN NoCall ELSE calls[d]
  BY DEF FlowsTypeOK
<1>2. CASE calls[c].op = "absorb"
  <2>1. c \in Absorbing
    BY <1>2 DEF Absorbing
  <2>2. Absorbing' = Absorbing \ {c}
    BY <1>1, NoCallOp DEF Absorbing
  <2>3. IsFiniteSet(Absorbing')
    BY <2>2, AbsorbingFinite, FS_Subset, Absorbing \ {c} \subseteq Absorbing
  <2>4. Cardinality(Absorbing') \in Nat /\ Cardinality(Absorbing') = Cardinality(Absorbing) - 1
    BY <2>1, <2>2, <2>3, AbsorbingFinite, FS_RemoveElement, FS_CardinalityType
  <2> QED BY <1>2, <2>4, AbsorbingFinite
<1>3. CASE calls[c].op # "absorb"
  BY <1>1, <1>3, NoCallOp DEF Absorbing
<1> QED BY <1>2, <1>3

(* A label whose pump runs is one where a call waits for that pump, unless *)
(* the label has seen a clash; and only a pump that runs is waited for.    *)
LEMMA ProspectFacts ==
    ASSUME FlowsInv, NEW op \in Ops, NEW l \in Labels
    PROVE  /\ Prospect(op, l) \in {"refused", "returns", "raises", "waits"}
           /\ Prospect(op, l) = "refused" => op = "absorb" /\ l \notin attached
           /\ Prospect(op, l) # "refused" /\ op = "absorb" => l \in attached
           /\ Prospect(op, l) \in {"returns", "raises"} /\ flowTasks[l] # NoPump =>
                  pumps[flowTasks[l]].state # "running"
           /\ Prospect(op, l) = "waits" =>
                  flowTasks[l] # NoPump /\ pumps[flowTasks[l]].state = "running"
<1>1. ASSUME flowTasks[l] # NoPump
      PROVE  pumps[flowTasks[l]].state \in {"running", "ended", "failed"}
  <2>1. /\ flowTasks[l] \in DOMAIN pumps
        /\ pumps[flowTasks[l]].state # "cancelled"
    BY <1>1 DEF FlowsInv, RegisteredOK
  <2>2. pumps[flowTasks[l]].state \in PumpStates
    BY <2>1, PumpType DEF FlowsInv
  <2> QED BY <2>1, <2>2 DEF PumpStates
<1>2. op \in {"absorb", "drop", "detach"}
  BY DEF Ops
<1>3. CASE op = "absorb" /\ l \notin attached
  BY <1>3 DEF Prospect
<1>4. CASE ~(op = "absorb" /\ l \notin attached) /\ flowTasks[l] = NoPump
  <2>1. Prospect(op, l) = "returns"
    BY <1>4 DEF Prospect
  <2> QED BY <1>4, <2>1
<1>5. CASE ~(op = "absorb" /\ l \notin attached) /\ flowTasks[l] # NoPump
  <2>1. CASE pumps[flowTasks[l]].state = "ended"
    <3>1. Prospect(op, l) = "returns"
      BY <1>5, <2>1 DEF Prospect
    <3> QED BY <1>5, <2>1, <3>1
  <2>2. CASE pumps[flowTasks[l]].state = "failed"
    <3>1. Prospect(op, l) = "raises"
      BY <1>5, <2>2 DEF Prospect
    <3> QED BY <1>5, <2>2, <3>1
  <2>3. CASE pumps[flowTasks[l]].state = "running"
    <3>1. Prospect(op, l) = "waits"
      BY <1>5, <2>3 DEF Prospect
    <3> QED BY <1>5, <2>3, <3>1
  <2> QED BY <1>1, <1>5, <2>1, <2>2, <2>3
<1> QED BY <1>3, <1>4, <1>5

(* A drop does not run into anything, and absorb_flow and detach run into  *)
(* each other either way round.                                            *)
LEMMA ClashFacts ==
    /\ \A call, l : ~Clash(call, "drop", l)
    /\ \A call, op, l : op \in AllOps => ~Clash(call, op, l)
    /\ \A call, other : /\ call.op \in Ops /\ other # NoCall
                        /\ Clash(call, other.op, other.label)
                        => call.label = other.label /\ Clash(other, call.op, call.label)
    /\ \A call, l : call.op \in AllOps /\ Clash(call, "absorb", l) => call.op = "detachAll"
    /\ \A call, op, l : call.op \in AllOps /\ Clash(call, op, l) =>
           call.op = "detachAll" /\ op = "absorb"
BY DEF Clash, Ops, AllOps

(* What is left of a call once drop_flow is through.  It keeps the         *)
(* invariant if no pump runs on the label any more, if the label still has *)
(* its emitter when a pump is to be started, and if every call that the    *)
(* rest of this one runs into has marked the label.                        *)
LEMMA CompleteInv ==
    ASSUME FlowsInv, NEW op \in Ops, NEW l \in Labels,
           NEW tasks \in [Labels -> 0..MaxPumps],
           \A m \in Labels : tasks[m] = flowTasks[m] \/ (m = l /\ tasks[m] = NoPump),
           Complete(op, l, tasks),
           queue' = queue, pushed' = pushed,
           clashed \subseteq clashed', clashed' \subseteq Labels,
           calls' \in [Callers -> Waiting \cup {NoCall}],
           \A d \in Callers : calls'[d] = calls[d] \/ calls'[d] = NoCall,
           Cardinality(Absorbing') \in Nat,
           Len(pumps) + Cardinality(Absorbing') + (IF op = "absorb" THEN 1 ELSE 0) <= MaxPumps,
           l \notin clashed' /\ (op # "drop" \/ tasks[l] # flowTasks[l]) =>
               \A p \in DOMAIN pumps : pumps[p].label = l => pumps[p].state # "running",
           l \notin clashed' /\ op = "absorb" => l \in attached,
           l \notin clashed' => \A d \in Callers : ~Clash(calls'[d], op, l)
    PROVE  FlowsInv'
<1> USE CellFlowsBounds
<1>1. FlowsTypeOK /\ RegisteredOK /\ WaitingOK /\ DetachingOK /\ ClashesAreMarked /\ PumpsAccountedFor
  BY DEF FlowsInv
<1>2. DOMAIN pumps = 1..Len(pumps) /\ Len(pumps) \in Nat
  BY <1>1, PumpType
<1> DEFINE n == Len(pumps) + 1
<1>3. /\ op = "absorb" => /\ pumps' \in Seq(PumpRecords)
                          /\ Len(pumps') = n
                          /\ DOMAIN pumps' = 1..n
                          /\ \A p \in DOMAIN pumps : pumps'[p] = pumps[p]
                          /\ pumps'[n].label = l /\ pumps'[n].state = "running"
                          /\ flowTasks' = [tasks EXCEPT ![l] = n]
      /\ op # "absorb" => pumps' = pumps /\ flowTasks' = tasks
  <2>1. CASE op = "absorb"
    <3>1. pumps' = Append(pumps, [label |-> l, state |-> "running"])
      BY <2>1 DEF Complete
    <3>2. pumps'[n] = [label |-> l, state |-> "running"]
      BY <1>1, <3>1, PumpAdded
    <3> QED BY <1>1, <2>1, <3>1, <3>2, PumpAdded DEF Complete
  <2>2. CASE op # "absorb"
    BY <2>2 DEF Complete
  <2> QED BY <2>1, <2>2
<1>4. attached' = IF op = "detach" THEN attached \ {l} ELSE attached
  BY DEF Complete
<1>5. \A m \in Labels : flowTasks'[m] = IF op = "absorb" /\ m = l THEN n ELSE tasks[m]
  BY <1>3
<1>6. n > Len(pumps) /\ n \in Nat /\ n # NoPump /\ n \notin DOMAIN pumps
  BY <1>2 DEF NoPump
<1>7. /\ DOMAIN pumps \subseteq DOMAIN pumps'
      /\ \A p \in DOMAIN pumps : pumps'[p] = pumps[p]
      /\ \A p \in DOMAIN pumps' : p \in DOMAIN pumps \/ (op = "absorb" /\ p = n)
  <2>1. CASE op = "absorb"
    <3>1. DOMAIN pumps' = 1..(Len(pumps) + 1) /\ \A p \in DOMAIN pumps : pumps'[p] = pumps[p]
      BY <1>3, <2>1
    <3>2. \A p \in 1..(Len(pumps) + 1) : p \in 1..Len(pumps) \/ p = Len(pumps) + 1
      BY <1>2
    <3>3. 1..Len(pumps) \subseteq 1..(Len(pumps) + 1)
      BY <1>2
    <3> QED BY <1>2, <2>1, <3>1, <3>2, <3>3
  <2>2. CASE op # "absorb"
    <3>1. pumps' = pumps
      BY <1>3, <2>2
    <3> QED BY <3>1
  <2> QED BY <2>1, <2>2
<1> HIDE DEF n
<1>8. FlowsTypeOK'
  <2>1. attached' \subseteq Labels
    BY <1>1, <1>4 DEF FlowsTypeOK
  <2>2. op = "absorb" => n \in 0..MaxPumps
    BY <1>2 DEF n
  <2>3. flowTasks' \in [Labels -> 0..MaxPumps]
    BY <1>3, <2>2
  <2>4. pumps' \in Seq(PumpRecords) /\ Len(pumps') <= MaxPumps
    BY <1>1, <1>2, <1>3 DEF FlowsTypeOK, PumpRecords, n
  <2> QED BY <1>1, <2>1, <2>3, <2>4 DEF FlowsTypeOK, PumpRecords
<1>9. RoomForPumps'
  BY <1>2, <1>3 DEF RoomForPumps, n
<1>10. RegisteredOK'
  <2> SUFFICES ASSUME NEW m \in Labels, flowTasks'[m] # NoPump
               PROVE  /\ flowTasks'[m] \in DOMAIN pumps'
                      /\ pumps'[flowTasks'[m]].label = m
                      /\ pumps'[flowTasks'[m]].state # "cancelled"
    BY DEF RegisteredOK
  <2>1. CASE op = "absorb" /\ m = l
    BY <1>3, <1>5, <1>6, <2>1
  <2>2. CASE ~(op = "absorb" /\ m = l)
    <3>1. flowTasks'[m] = flowTasks[m]
      BY <1>5, <2>2
    <3> QED BY <1>1, <1>7, <3>1 DEF RegisteredOK
  <2> QED BY <2>1, <2>2
<1>11. WaitingOK'
  <2> SUFFICES ASSUME NEW d \in Callers, calls'[d] # NoCall
               PROVE  /\ calls'[d].pump \in DOMAIN pumps'
                      /\ calls'[d].op \in {"absorb", "detach"} /\ calls'[d].label \notin clashed' =>
                            flowTasks'[calls'[d].label] = NoPump
                      /\ calls'[d].op = "absorb" /\ calls'[d].label \notin clashed' =>
                            calls'[d].label \in attached'
    BY DEF WaitingOK
  <2>1. calls'[d] = calls[d] /\ calls[d] # NoCall
    OBVIOUS
  <2>2. calls[d].label \in Labels
    BY <1>1, <2>1, CallType
  <2>3. calls[d].pump \in DOMAIN pumps'
    BY <1>1, <1>7, <2>1 DEF WaitingOK
  <2>4. ASSUME calls[d].op \in {"absorb", "detach"}, calls[d].label \notin clashed'
        PROVE  flowTasks'[calls[d].label] = NoPump
    <3>1. flowTasks[calls[d].label] = NoPump
      BY <1>1, <2>1, <2>4 DEF WaitingOK
    <3>2. ~(op = "absorb" /\ calls[d].label = l)
      BY <2>1, <2>4 DEF Clash
    <3> QED BY <1>5, <2>2, <3>1, <3>2
  <2>5. ASSUME calls[d].op = "absorb", calls[d].label \notin clashed'
        PROVE  calls[d].label \in attached'
    <3>1. calls[d].label \in attached
      BY <1>1, <2>1, <2>5 DEF WaitingOK
    <3>2. ~(op = "detach" /\ calls[d].label = l)
      BY <2>1, <2>5 DEF Clash
    <3> QED BY <1>4, <3>1, <3>2
  <2> QED BY <2>1, <2>3, <2>4, <2>5
<1>12. ClashesAreMarked'
  <2> SUFFICES ASSUME NEW a \in Callers, NEW b \in Callers, a # b, calls'[a] # NoCall,
                      Clash(calls'[b], calls'[a].op, calls'[a].label)
               PROVE  calls'[a].label \in clashed'
    BY DEF ClashesAreMarked
  <2>1. calls'[a] = calls[a]
    OBVIOUS
  <2>2. calls'[b] # NoCall
    BY NoCallOp DEF Clash
  <2>3. calls'[b] = calls[b]
    BY <2>2
  <2> QED BY <1>1, <2>1, <2>3 DEF ClashesAreMarked
<1>13. DetachingOK'
  <2> SUFFICES ASSUME NEW d \in Callers, calls'[d].op = "detachAll", NEW m \in Labels,
                      m \notin calls'[d].rest, m \notin clashed'
               PROVE  flowTasks'[m] = NoPump
    BY DEF DetachingOK
  <2>1. calls'[d] = calls[d]
    BY NoCallOp
  <2>2. flowTasks[m] = NoPump
    BY <1>1, <2>1 DEF DetachingOK
  <2>3. ~(op = "absorb" /\ m = l)
    BY DEF Clash
  <2> QED BY <1>5, <2>2, <2>3
<1>14. PumpsAccountedFor'
  <2> SUFFICES ASSUME NEW p \in DOMAIN pumps', pumps'[p].state = "running",
                      pumps'[p].label \notin clashed'
               PROVE  flowTasks'[pumps'[p].label] = p /\ pumps'[p].label \in attached'
    BY DEF PumpsAccountedFor
  <2>1. CASE p \in DOMAIN pumps
    <3>1. pumps'[p] = pumps[p] /\ pumps[p].label \in Labels
      BY <1>1, <1>7, <2>1, PumpType
    <3>2. flowTasks[pumps[p].label] = p /\ pumps[p].label \in attached
      BY <1>1, <2>1, <3>1 DEF PumpsAccountedFor
    <3>3. pumps[p].label = l => op = "drop" /\ tasks[l] = flowTasks[l]
      BY <2>1, <3>1
    <3> QED BY <1>4, <1>5, <3>1, <3>2, <3>3
  <2>2. CASE op = "absorb" /\ p = n
    BY <1>3, <1>4, <1>5, <2>2
  <2> QED BY <1>7, <2>1, <2>2
<1> QED BY <1>8, <1>9, <1>10, <1>11, <1>12, <1>13, <1>14 DEF FlowsInv

(* A second emitter under a label takes nothing away.                      *)
LEMMA AttachInv ==
    ASSUME FlowsInv, NEW l \in Labels, Attach(l)
    PROVE  FlowsInv'
<1>1. attached \subseteq attached' /\ attached' \subseteq Labels
  BY DEF Attach, FlowsInv, FlowsTypeOK
<1>2. UNCHANGED <<flowTasks, pumps, queue, pushed, calls, clashed>>
  BY DEF Attach
<1>3. FlowsTypeOK'
  BY <1>1, <1>2 DEF FlowsInv, FlowsTypeOK
<1>4. RoomForPumps'
  BY <1>2 DEF FlowsInv, RoomForPumps, Absorbing
<1>5. RegisteredOK'
  BY <1>2 DEF FlowsInv, RegisteredOK
<1>6. WaitingOK'
  BY <1>1, <1>2 DEF FlowsInv, WaitingOK
<1>7. ClashesAreMarked' /\ DetachingOK'
  BY <1>2 DEF FlowsInv, ClashesAreMarked, DetachingOK
<1>8. PumpsAccountedFor'
  BY <1>1, <1>2 DEF FlowsInv, PumpsAccountedFor
<1> QED BY <1>3, <1>4, <1>5, <1>6, <1>7, <1>8 DEF FlowsInv

(* A call that has to wait takes the pump off the register and cancels it. *)
LEMMA WaitsInv ==
    ASSUME FlowsInv, NEW c \in Callers, NEW op \in Ops, NEW l \in Labels,
           Begin(c, op, l), Prospect(op, l) = "waits"
    PROVE  FlowsInv'
<1> USE CellFlowsBounds
<1>1. FlowsTypeOK /\ RegisteredOK /\ WaitingOK /\ DetachingOK /\ ClashesAreMarked /\ PumpsAccountedFor
  BY DEF FlowsInv
<1> DEFINE t == flowTasks[l]
           w == [op |-> op, label |-> l, pump |-> t]
<1>2. /\ calls[c] = NoCall
      /\ op = "absorb" => Len(pumps) + Cardinality(Absorbing) < MaxPumps
      /\ flowTasks' = [flowTasks EXCEPT ![l] = NoPump]
      /\ pumps' = [pumps EXCEPT ![t].state = "cancelled"]
      /\ calls' = [calls EXCEPT ![c] = w]
      /\ UNCHANGED <<attached, queue, pushed>>
  BY DEF Begin, Cancelled, Absorbing
<1>3. /\ clashed \subseteq clashed' /\ clashed' \subseteq Labels
      /\ (\E d \in Callers : Clash(calls[d], op, l))
             => l \in clashed'
  BY <1>1 DEF Begin, FlowsTypeOK
<1>4. /\ t # NoPump /\ t \in DOMAIN pumps
      /\ pumps[t].state = "running" /\ pumps[t].label = l
      /\ op = "absorb" => l \in attached
  BY <1>1, ProspectFacts DEF RegisteredOK
<1>5. /\ pumps' \in Seq(PumpRecords) /\ Len(pumps') = Len(pumps)
      /\ DOMAIN pumps' = DOMAIN pumps
      /\ \A q \in DOMAIN pumps :
             /\ pumps'[q].label = pumps[q].label
             /\ pumps'[q].state = IF q = t THEN "cancelled" ELSE pumps[q].state
  <2>1. "cancelled" \in PumpStates
    BY DEF PumpStates
  <2> QED BY <1>1, <1>2, <1>4, <2>1, PumpSet
<1>6. \A m \in Labels : flowTasks'[m] = IF m = l THEN NoPump ELSE flowTasks[m]
  BY <1>1, <1>2 DEF FlowsTypeOK
<1>7. \A d \in Callers : calls'[d] = IF d = c THEN w ELSE calls[d]
  BY <1>1, <1>2 DEF FlowsTypeOK
<1>8. w.op = op /\ w.label = l /\ w.pump = t /\ w \in Waiting
  BY <1>1, <1>4 DEF FlowsTypeOK, Waiting, NoPump
<1> HIDE DEF t, w
<1>9. FlowsTypeOK'
  <2>1. flowTasks' \in [Labels -> 0..MaxPumps]
    BY <1>1, <1>2 DEF FlowsTypeOK, NoPump
  <2>2. calls' \in [Callers -> Waiting \cup {NoCall}]
    BY <1>1, <1>2, <1>8 DEF FlowsTypeOK
  <2> QED BY <1>1, <1>2, <1>3, <1>5, <2>1, <2>2 DEF FlowsTypeOK, PumpRecords
<1>10. RoomForPumps'
  <2>1. Len(pumps) \in Nat /\ Cardinality(Absorbing) \in Nat
    BY <1>1, PumpType, AbsorbingFinite
  <2>2. CASE op = "absorb"
    <3>1. Cardinality(Absorbing') = Cardinality(Absorbing) + 1
      BY <1>1, <1>2, <1>8, <2>2, AbsorbingGrows
    <3> QED BY <1>2, <1>5, <2>1, <2>2, <3>1 DEF RoomForPumps
  <2>3. CASE op # "absorb"
    <3>1. Absorbing' = Absorbing
      BY <1>1, <1>2, <1>8, <2>3, AbsorbingGrows
    <3> QED BY <1>5, <2>1, <3>1 DEF RoomForPumps, FlowsInv
  <2> QED BY <2>2, <2>3
<1>11. RegisteredOK'
  <2> SUFFICES ASSUME NEW m \in Labels, flowTasks'[m] # NoPump
               PROVE  /\ flowTasks'[m] \in DOMAIN pumps'
                      /\ pumps'[flowTasks'[m]].label = m
                      /\ pumps'[flowTasks'[m]].state # "cancelled"
    BY DEF RegisteredOK
  <2>1. m # l /\ flowTasks'[m] = flowTasks[m]
    BY <1>6
  <2>2. /\ flowTasks[m] \in DOMAIN pumps
        /\ pumps[flowTasks[m]].label = m
        /\ pumps[flowTasks[m]].state # "cancelled"
    BY <1>1, <2>1 DEF RegisteredOK
  <2> QED BY <1>4, <1>5, <2>1, <2>2
<1>12. WaitingOK'
  <2> SUFFICES ASSUME NEW d \in Callers, calls'[d] # NoCall
               PROVE  /\ calls'[d].pump \in DOMAIN pumps'
                      /\ calls'[d].op \in {"absorb", "detach"} /\ calls'[d].label \notin clashed' =>
                            flowTasks'[calls'[d].label] = NoPump
                      /\ calls'[d].op = "absorb" /\ calls'[d].label \notin clashed' =>
                            calls'[d].label \in attached'
    BY DEF WaitingOK
  <2>1. CASE d = c
    BY <1>2, <1>4, <1>5, <1>6, <1>7, <1>8, <2>1
  <2>2. CASE d # c
    <3>1. calls'[d] = calls[d] /\ calls[d].label \in Labels
      BY <1>1, <1>7, <2>2, CallType
    <3> QED BY <1>1, <1>2, <1>3, <1>5, <1>6, <3>1 DEF WaitingOK
  <2> QED BY <2>1, <2>2
<1>13. ClashesAreMarked'
  <2> SUFFICES ASSUME NEW a \in Callers, NEW b \in Callers, a # b, calls'[a] # NoCall,
                      Clash(calls'[b], calls'[a].op, calls'[a].label)
               PROVE  calls'[a].label \in clashed'
    BY DEF ClashesAreMarked
  <2>1. CASE a = c
    <3>1. calls'[a] = w /\ calls'[b] = calls[b]
      BY <1>7, <2>1
    <3> QED BY <1>3, <1>8, <3>1
  <2>2. CASE b = c
    <3>1. calls'[b] = w /\ calls'[a] = calls[a]
      BY <1>7, <2>2
    <3>2. calls[a].label = l /\ Clash(calls[a], op, l)
      BY <1>8, <3>1, ClashFacts
    <3> QED BY <1>3, <3>1, <3>2
  <2>3. CASE a # c /\ b # c
    <3>1. calls'[a] = calls[a] /\ calls'[b] = calls[b]
      BY <1>7, <2>3
    <3> QED BY <1>1, <1>3, <3>1 DEF ClashesAreMarked
  <2> QED BY <2>1, <2>2, <2>3
<1>14. DetachingOK'
  <2> SUFFICES ASSUME NEW d \in Callers, calls'[d].op = "detachAll", NEW m \in Labels,
                      m \notin calls'[d].rest, m \notin clashed'
               PROVE  flowTasks'[m] = NoPump
    BY DEF DetachingOK
  <2>1. d # c /\ calls'[d] = calls[d]
    BY <1>7, <1>8 DEF Ops
  <2> QED BY <1>1, <1>3, <1>6, <2>1 DEF DetachingOK
<1>15. PumpsAccountedFor'
  <2> SUFFICES ASSUME NEW p \in DOMAIN pumps', pumps'[p].state = "running",
                      pumps'[p].label \notin clashed'
               PROVE  flowTasks'[pumps'[p].label] = p /\ pumps'[p].label \in attached'
    BY DEF PumpsAccountedFor
  <2>1. /\ p \in DOMAIN pumps /\ p # t
        /\ pumps'[p].label = pumps[p].label /\ pumps[p].state = "running"
        /\ pumps[p].label \in Labels
    BY <1>1, <1>5, PumpType
  <2>2. flowTasks[pumps[p].label] = p /\ pumps[p].label \in attached
    BY <1>1, <1>3, <2>1 DEF PumpsAccountedFor
  <2>3. pumps[p].label # l
    BY <2>1, <2>2 DEF t
  <2> QED BY <1>2, <1>6, <2>1, <2>2, <2>3
<1> QED BY <1>9, <1>10, <1>11, <1>12, <1>13, <1>14, <1>15 DEF FlowsInv

(* Every call of the Cell keeps the invariant up to where it first waits.  *)
LEMMA BeginInv ==
    ASSUME FlowsInv, NEW c \in Callers, NEW op \in Ops, NEW l \in Labels, Begin(c, op, l)
    PROVE  FlowsInv'
<1> USE CellFlowsBounds
<1>1. FlowsTypeOK /\ RoomForPumps /\ RegisteredOK /\ ClashesAreMarked /\ PumpsAccountedFor
  BY DEF FlowsInv
<1>2. CASE Prospect(op, l) = "waits"
  BY <1>2, WaitsInv
<1>3. CASE Prospect(op, l) # "waits"
  <2> DEFINE popped == [flowTasks EXCEPT ![l] = NoPump]
  <2>1. /\ op = "absorb" => Len(pumps) + Cardinality(Absorbing) < MaxPumps
        /\ UNCHANGED <<calls, queue, pushed>>
    BY <1>3 DEF Begin, Absorbing
  <2>2. /\ clashed \subseteq clashed' /\ clashed' \subseteq Labels
        /\ (\E d \in Callers : Clash(calls[d], op, l))
               => l \in clashed'
    BY <1>1 DEF Begin, FlowsTypeOK
  <2>3. /\ Absorbing' = Absorbing
        /\ Cardinality(Absorbing) \in Nat /\ Len(pumps) \in Nat
    BY <1>1, <2>1, AbsorbingFinite, PumpType DEF Absorbing
  <2>4. /\ calls' \in [Callers -> Waiting \cup {NoCall}]
        /\ \A d \in Callers : calls'[d] = calls[d] \/ calls'[d] = NoCall
    BY <1>1, <2>1 DEF FlowsTypeOK
  <2>5. /\ popped \in [Labels -> 0..MaxPumps]
        /\ \A m \in Labels : popped[m] = flowTasks[m] \/ (m = l /\ popped[m] = NoPump)
    BY <1>1 DEF FlowsTypeOK, NoPump
  <2>6. /\ flowTasks \in [Labels -> 0..MaxPumps]
        /\ \A m \in Labels : flowTasks[m] = flowTasks[m] \/ (m = l /\ flowTasks[m] = NoPump)
    BY <1>1 DEF FlowsTypeOK
  <2>7. Len(pumps) + Cardinality(Absorbing') <= MaxPumps
    BY <1>1, <2>3 DEF RoomForPumps
  <2>8. "drop" \in Ops /\ \A d \in Callers : ~Clash(calls'[d], "drop", l)
    BY ClashFacts DEF Ops
  <2>9. l \notin clashed' /\ Prospect(op, l) \in {"returns", "raises"} =>
            \A p \in DOMAIN pumps : pumps[p].label = l => pumps[p].state # "running"
    <3> SUFFICES ASSUME l \notin clashed', Prospect(op, l) \in {"returns", "raises"},
                        NEW p \in DOMAIN pumps, pumps[p].label = l, pumps[p].state = "running"
                 PROVE  FALSE
      OBVIOUS
    <3>1. flowTasks[l] = p
      BY <1>1, <2>2 DEF PumpsAccountedFor
    <3>2. flowTasks[l] # NoPump
      BY <1>1, <3>1, PumpType DEF NoPump
    <3> QED BY <3>1, <3>2, ProspectFacts
  <2> HIDE DEF popped
  <2>10. CASE Prospect(op, l) = "refused"
    <3>1. Complete("drop", l, flowTasks)
      BY <2>10 DEF Begin, Complete
    <3>2. Len(pumps) + Cardinality(Absorbing') + (IF "drop" = "absorb" THEN 1 ELSE 0) <= MaxPumps
      BY <2>3, <2>7
    <3> QED BY <2>1, <2>2, <2>3, <2>4, <2>6, <2>8, <3>1, <3>2, CompleteInv
  <2>11. CASE Prospect(op, l) = "returns"
    <3>1. Complete(op, l, popped)
      BY <2>11 DEF Begin, popped
    <3>2. Len(pumps) + Cardinality(Absorbing') + (IF op = "absorb" THEN 1 ELSE 0) <= MaxPumps
      BY <2>1, <2>3, <2>7
    <3>3. op = "absorb" => l \in attached
      BY <2>11, ProspectFacts
    <3> QED BY <2>1, <2>2, <2>3, <2>4, <2>5, <2>9, <2>11, <3>1, <3>2, <3>3, CompleteInv
  <2>12. CASE Prospect(op, l) = "raises"
    <3>1. Complete("drop", l, popped)
      BY <2>12 DEF Begin, Complete, popped
    <3>2. Len(pumps) + Cardinality(Absorbing') + (IF "drop" = "absorb" THEN 1 ELSE 0) <= MaxPumps
      BY <2>3, <2>7
    <3> QED BY <2>1, <2>2, <2>3, <2>4, <2>5, <2>8, <2>9, <2>12, <3>1, <3>2, CompleteInv
  <2> QED BY <1>3, <2>10, <2>11, <2>12, ProspectFacts
<1> QED BY <1>2, <1>3

(* A call on all labels has taken the labels S off the register, none of   *)
(* whose pumps runs on, and waits or is through.  It keeps the invariant   *)
(* if the labels it strips, or will strip, are dropped or marked.          *)
LEMMA SweptInv ==
    ASSUME FlowsInv, NEW c \in Callers, NEW op \in AllOps,
           NEW S \in SUBSET Labels, NEW rest \in SUBSET Labels,
           NEW w \in Waiting \cup {NoCall},
           calls[c].op # "absorb", calls' = [calls EXCEPT ![c] = w],
           w # NoCall => w.op = op /\ w.pump \in DOMAIN pumps /\ rest \subseteq S \cup w.rest,
           flowTasks' = [m \in Labels |-> IF m \in S THEN NoPump ELSE flowTasks[m]],
           pumps' \in Seq(PumpRecords), Len(pumps') = Len(pumps), DOMAIN pumps' = DOMAIN pumps,
           \A q \in DOMAIN pumps :
               /\ pumps'[q].label = pumps[q].label
               /\ pumps'[q].state = pumps[q].state
                     \/ (pumps'[q].state = "cancelled" /\ pumps[q].label \in S),
           \A m \in S : flowTasks[m] # NoPump => pumps'[flowTasks[m]].state # "running",
           attached' = attached \/ (attached' = {} /\ op = "detachAll" /\ rest \subseteq S),
           queue' = queue, pushed' = pushed,
           clashed \subseteq clashed', clashed' \subseteq Labels,
           op = "detachAll" =>
               /\ \A m \in Labels : m \notin rest /\ m \notin clashed' => flowTasks[m] = NoPump
               /\ \A d \in Callers : calls[d].op = "absorb" => calls[d].label \in clashed'
    PROVE  FlowsInv'
<1> USE CellFlowsBounds
<1>1. FlowsTypeOK /\ RegisteredOK /\ WaitingOK /\ DetachingOK /\ ClashesAreMarked /\ PumpsAccountedFor
  BY DEF FlowsInv
<1>2. \A m \in Labels : flowTasks'[m] = IF m \in S THEN NoPump ELSE flowTasks[m]
  OBVIOUS
<1>3. \A d \in Callers : calls'[d] = IF d = c THEN w ELSE calls[d]
  BY <1>1 DEF FlowsTypeOK
<1>4. /\ w.op \notin {"absorb", "detach"}
      /\ w # NoCall => w.op = op
      /\ w.op = "detachAll" => w # NoCall /\ op = "detachAll"
  BY NoCallOp DEF AllOps
<1>5. op \notin Ops
  BY DEF AllOps, Ops
<1>6. FlowsTypeOK'
  <2>1. flowTasks' \in [Labels -> 0..MaxPumps]
    BY <1>1 DEF FlowsTypeOK, NoPump
  <2>2. calls' \in [Callers -> Waiting \cup {NoCall}]
    BY <1>1 DEF FlowsTypeOK
  <2> QED BY <1>1, <2>1, <2>2 DEF FlowsTypeOK, PumpRecords
<1>7. RoomForPumps'
  <2>1. Absorbing' = Absorbing
    BY <1>3, <1>4 DEF Absorbing
  <2> QED BY <2>1 DEF FlowsInv, RoomForPumps
<1>8. RegisteredOK'
  <2> SUFFICES ASSUME NEW m \in Labels, flowTasks'[m] # NoPump
               PROVE  /\ flowTasks'[m] \in DOMAIN pumps'
                      /\ pumps'[flowTasks'[m]].label = m
                      /\ pumps'[flowTasks'[m]].state # "cancelled"
    BY DEF RegisteredOK
  <2>1. m \notin S /\ flowTasks'[m] = flowTasks[m]
    BY <1>2
  <2>2. /\ flowTasks[m] \in DOMAIN pumps
        /\ pumps[flowTasks[m]].label = m
        /\ pumps[flowTasks[m]].state # "cancelled"
    BY <1>1, <2>1 DEF RegisteredOK
  <2> QED BY <2>1, <2>2
<1>9. WaitingOK'
  <2> SUFFICES ASSUME NEW d \in Callers, calls'[d] # NoCall
               PROVE  /\ calls'[d].pump \in DOMAIN pumps'
                      /\ calls'[d].op \in {"absorb", "detach"} /\ calls'[d].label \notin clashed' =>
                            flowTasks'[calls'[d].label] = NoPump
                      /\ calls'[d].op = "absorb" /\ calls'[d].label \notin clashed' =>
                            calls'[d].label \in attached'
    BY DEF WaitingOK
  <2>1. CASE d = c
    BY <1>3, <1>4, <2>1
  <2>2. CASE d # c
    <3>1. calls'[d] = calls[d] /\ calls[d] # NoCall
      BY <1>3, <2>2
    <3>2. calls[d].label \in Labels
      BY <1>1, <3>1, CallType
    <3>3. /\ calls[d].pump \in DOMAIN pumps
          /\ calls[d].op \in {"absorb", "detach"} /\ calls[d].label \notin clashed =>
                flowTasks[calls[d].label] = NoPump
          /\ calls[d].op = "absorb" /\ calls[d].label \notin clashed =>
                calls[d].label \in attached
      BY <1>1, <3>1 DEF WaitingOK
    <3> QED BY <1>2, <3>1, <3>2, <3>3
  <2> QED BY <2>1, <2>2
<1>10. DetachingOK'
  <2> SUFFICES ASSUME NEW d \in Callers, calls'[d].op = "detachAll", NEW m \in Labels,
                      m \notin calls'[d].rest, m \notin clashed'
               PROVE  flowTasks'[m] = NoPump
    BY DEF DetachingOK
  <2>1. CASE d = c
    BY <1>2, <1>3, <1>4, <2>1
  <2>2. CASE d # c
    BY <1>1, <1>2, <1>3, <2>2 DEF DetachingOK
  <2> QED BY <2>1, <2>2
<1>11. ClashesAreMarked'
  <2> SUFFICES ASSUME NEW a \in Callers, NEW b \in Callers, a # b, calls'[a] # NoCall,
                      Clash(calls'[b], calls'[a].op, calls'[a].label)
               PROVE  calls'[a].label \in clashed'
    BY DEF ClashesAreMarked
  <2>1. CASE a = c
    <3>1. calls'[a].op = op
      BY <1>3, <1>4, <2>1
    <3> QED BY <3>1, ClashFacts
  <2>2. CASE b = c
    <3>1. calls'[a] = calls[a] /\ calls'[b] = w
      BY <1>3, <2>2
    <3>2. w # NoCall
      BY <3>1, NoCallOp DEF Clash
    <3>3. op = "detachAll" /\ calls[a].op = "absorb"
      BY <1>4, <3>1, <3>2, ClashFacts
    <3> QED BY <3>1, <3>3
  <2>3. CASE a # c /\ b # c
    <3>1. calls'[a] = calls[a] /\ calls'[b] = calls[b]
      BY <1>3, <2>3
    <3> QED BY <1>1, <3>1 DEF ClashesAreMarked
  <2> QED BY <2>1, <2>2, <2>3
<1>12. PumpsAccountedFor'
  <2> SUFFICES ASSUME NEW p \in DOMAIN pumps', pumps'[p].state = "running",
                      pumps'[p].label \notin clashed'
               PROVE  flowTasks'[pumps'[p].label] = p /\ pumps'[p].label \in attached'
    BY DEF PumpsAccountedFor
  <2>1. /\ p \in DOMAIN pumps /\ p # NoPump
        /\ pumps'[p].label = pumps[p].label /\ pumps[p].state = "running"
        /\ pumps[p].label \in Labels
    BY <1>1, PumpType DEF NoPump
  <2>2. flowTasks[pumps[p].label] = p /\ pumps[p].label \in attached
    BY <1>1, <2>1 DEF PumpsAccountedFor
  <2>3. pumps[p].label \notin S
    BY <2>1, <2>2
  <2>4. attached' = attached
    BY <2>1, <2>2, <2>3
  <2> QED BY <1>2, <2>1, <2>2, <2>3, <2>4
<1> QED BY <1>6, <1>7, <1>8, <1>9, <1>10, <1>11, <1>12 DEF FlowsInv

(* drop_flow of one label after another, up to the first that raises or    *)
(* has to wait, keeps the invariant.                                       *)
LEMMA SweepInv ==
    ASSUME FlowsInv, NEW c \in Callers, NEW op \in AllOps, NEW rest \in SUBSET Labels,
           NEW outcome, Sweep(c, op, rest, outcome), calls[c].op # "absorb",
           queue' = queue, pushed' = pushed,
           clashed \subseteq clashed', clashed' \subseteq Labels,
           op = "detachAll" =>
               /\ \A m \in Labels : m \notin rest /\ m \notin clashed' => flowTasks[m] = NoPump
               /\ \A d \in Callers : calls[d].op = "absorb" => calls[d].label \in clashed'
    PROVE  FlowsInv'
<1> DEFINE Popped(S) == [m \in Labels |-> IF m \in S THEN NoPump ELSE flowTasks[m]]
<1>1. FlowsTypeOK /\ RegisteredOK
  BY DEF FlowsInv
<1>2. PICK through \in SUBSET rest :
         /\ \A l \in through : Prospect("drop", l) = "returns"
         /\ \/ /\ through = rest
               /\ flowTasks' = Popped(through)
               /\ attached' = IF op = "detachAll" THEN {} ELSE attached
               /\ calls' = [calls EXCEPT ![c] = NoCall]
               /\ UNCHANGED pumps
            \/ \E l \in rest \ through :
                   /\ Prospect("drop", l) = "raises"
                   /\ flowTasks' = [Popped(through) EXCEPT ![l] = NoPump]
                   /\ calls' = [calls EXCEPT ![c] = NoCall]
                   /\ UNCHANGED <<attached, pumps>>
            \/ \E l \in rest \ through :
                   /\ Prospect("drop", l) = "waits"
                   /\ flowTasks' = [Popped(through) EXCEPT ![l] = NoPump]
                   /\ pumps' = [pumps EXCEPT ![flowTasks[l]].state = "cancelled"]
                   /\ calls' = [calls EXCEPT ![c] =
                          [op |-> op, label |-> l, pump |-> flowTasks[l],
                           rest |-> rest \ (through \cup {l})]]
                   /\ UNCHANGED attached
  BY DEF Sweep, Cancelled
<1>3. \A l \in through : flowTasks[l] # NoPump => pumps[flowTasks[l]].state # "running"
  BY <1>2, ProspectFacts DEF Ops
<1>4. ASSUME pumps' = pumps
      PROVE  /\ pumps' \in Seq(PumpRecords) /\ Len(pumps') = Len(pumps)
             /\ DOMAIN pumps' = DOMAIN pumps
             /\ \A q \in DOMAIN pumps : pumps'[q].label = pumps[q].label /\ pumps'[q].state = pumps[q].state
  BY <1>1, <1>4 DEF FlowsTypeOK, PumpRecords
<1>5. NoCall \in Waiting \cup {NoCall}
  OBVIOUS
<1>6. ASSUME NEW l \in rest \ through
      PROVE  [Popped(through) EXCEPT ![l] = NoPump] = Popped(through \cup {l})
  OBVIOUS
<1>7. CASE /\ through = rest
           /\ flowTasks' = Popped(through)
           /\ attached' = IF op = "detachAll" THEN {} ELSE attached
           /\ calls' = [calls EXCEPT ![c] = NoCall]
           /\ UNCHANGED pumps
  <2>1. attached' = attached \/ (attached' = {} /\ op = "detachAll" /\ rest \subseteq through)
    BY <1>7
  <2>2. \A m \in through : flowTasks[m] # NoPump => pumps'[flowTasks[m]].state # "running"
    BY <1>3, <1>7
  <2>3. through \in SUBSET Labels /\ flowTasks' = Popped(through)
    BY <1>7
  <2> QED BY <1>4, <1>5, <1>7, <2>1, <2>2, <2>3, SweptInv
<1>8. ASSUME NEW l \in rest \ through, Prospect("drop", l) = "raises",
             flowTasks' = [Popped(through) EXCEPT ![l] = NoPump],
             calls' = [calls EXCEPT ![c] = NoCall],
             UNCHANGED <<attached, pumps>>
      PROVE  FlowsInv'
  <2> DEFINE S == through \cup {l}
  <2>1. S \in SUBSET Labels /\ flowTasks' = Popped(S)
    BY <1>6, <1>8
  <2>2. flowTasks[l] # NoPump => pumps[flowTasks[l]].state # "running"
    BY <1>8, ProspectFacts DEF Ops
  <2>3. \A m \in S : flowTasks[m] # NoPump => pumps'[flowTasks[m]].state # "running"
    BY <1>3, <1>8, <2>2
  <2> HIDE DEF S
  <2> QED BY <1>4, <1>5, <1>8, <2>1, <2>3, SweptInv
<1>9. ASSUME NEW l \in rest \ through, Prospect("drop", l) = "waits",
             flowTasks' = [Popped(through) EXCEPT ![l] = NoPump],
             pumps' = [pumps EXCEPT ![flowTasks[l]].state = "cancelled"],
             calls' = [calls EXCEPT ![c] =
                 [op |-> op, label |-> l, pump |-> flowTasks[l],
                  rest |-> rest \ (through \cup {l})]],
             UNCHANGED attached
      PROVE  FlowsInv'
  <2> DEFINE S == through \cup {l}
             w == [op |-> op, label |-> l, pump |-> flowTasks[l], rest |-> rest \ S]
  <2>1. S \in SUBSET Labels /\ flowTasks' = Popped(S) /\ l \in S
    BY <1>6, <1>9
  <2>2. flowTasks[l] # NoPump /\ flowTasks[l] \in DOMAIN pumps /\ pumps[flowTasks[l]].label = l
    BY <1>1, <1>9, ProspectFacts DEF Ops, RegisteredOK
  <2>3. "cancelled" \in PumpStates
    BY DEF PumpStates
  <2>4. /\ pumps' \in Seq(PumpRecords) /\ Len(pumps') = Len(pumps)
        /\ DOMAIN pumps' = DOMAIN pumps
        /\ \A q \in DOMAIN pumps :
               /\ pumps'[q].label = pumps[q].label
               /\ pumps'[q].state = IF q = flowTasks[l] THEN "cancelled" ELSE pumps[q].state
    BY <1>1, <1>9, <2>2, <2>3, PumpSet
  <2>5. w \in Waiting /\ w.op = op /\ w.pump = flowTasks[l] /\ w.rest = rest \ S
    BY <1>1, <2>2, CellFlowsBounds DEF Waiting, FlowsTypeOK, NoPump
  <2>6. calls' = [calls EXCEPT ![c] = w]
    BY <1>9
  <2>7. \A m \in S : flowTasks[m] # NoPump => pumps'[flowTasks[m]].state # "running"
    BY <1>1, <1>3, <2>1, <2>2, <2>4 DEF RegisteredOK
  <2> HIDE DEF S, w
  <2>8. \A q \in DOMAIN pumps :
            /\ pumps'[q].label = pumps[q].label
            /\ pumps'[q].state = pumps[q].state
                  \/ (pumps'[q].state = "cancelled" /\ pumps[q].label \in S)
    BY <2>1, <2>2, <2>4
  <2>9. /\ w \in Waiting \cup {NoCall}
        /\ w.op = op /\ w.pump \in DOMAIN pumps /\ rest \subseteq S \cup w.rest
    BY <2>2, <2>5
  <2>10. /\ pumps' \in Seq(PumpRecords) /\ Len(pumps') = Len(pumps) /\ DOMAIN pumps' = DOMAIN pumps
         /\ attached' = attached
    BY <1>9, <2>4
  <2> HIDE DEF Popped
  <2>11. flowTasks' = [m \in Labels |-> IF m \in S THEN NoPump ELSE flowTasks[m]]
    BY <2>1 DEF Popped
  <2> QED BY <2>1, <2>6, <2>7, <2>8, <2>9, <2>10, <2>11, SweptInv
<1> QED BY <1>2, <1>7, <1>8, <1>9

(* detach_all and drop_all_flows keep the invariant as they begin.         *)
LEMMA BeginAllInv ==
    ASSUME FlowsInv, NEW c \in Callers, NEW op \in AllOps, NEW outcome, BeginAll(c, op, outcome)
    PROVE  FlowsInv'
<1> DEFINE rest == {l \in Labels : flowTasks[l] # NoPump}
<1>1. FlowsTypeOK
  BY DEF FlowsInv
<1>2. calls[c].op # "absorb" /\ Sweep(c, op, rest, outcome) /\ queue' = queue /\ pushed' = pushed
  BY NoCallOp DEF BeginAll
<1>3. \A d \in Callers : calls[d].op = "absorb" => calls[d].label \in Labels
  BY <1>1, CallType, NoCallOp
<1>4. /\ clashed \subseteq clashed' /\ clashed' \subseteq Labels
      /\ op = "detachAll" =>
            \A d \in Callers : calls[d].op = "absorb" => calls[d].label \in clashed'
  BY <1>1, <1>3 DEF BeginAll, FlowsTypeOK
<1>5. /\ rest \in SUBSET Labels
      /\ \A m \in Labels : m \notin rest => flowTasks[m] = NoPump
  OBVIOUS
<1> HIDE DEF rest
<1> QED BY <1>2, <1>4, <1>5, SweepInv

(* What a resumed call leaves of the calls.                                *)
LEMMA ResumeFacts ==
    ASSUME FlowsInv, NEW c \in Callers, Resume(c), calls' = [calls EXCEPT ![c] = NoCall]
    PROVE  /\ calls[c] # NoCall /\ calls[c].label \in Labels
           /\ UNCHANGED <<queue, pushed, clashed>>
           /\ clashed \subseteq Labels
           /\ calls' \in [Callers -> Waiting \cup {NoCall}]
           /\ \A d \in Callers : calls'[d] = IF d = c THEN NoCall ELSE calls[d]
           /\ flowTasks \in [Labels -> 0..MaxPumps]
           /\ Cardinality(Absorbing') \in Nat
           /\ Len(pumps) + Cardinality(Absorbing')
                  + (IF calls[c].op = "absorb" THEN 1 ELSE 0) <= MaxPumps
           /\ Len(pumps) + Cardinality(Absorbing') <= MaxPumps
<1>1. FlowsTypeOK /\ RoomForPumps
  BY DEF FlowsInv
<1>2. calls[c] # NoCall /\ calls' = [calls EXCEPT ![c] = NoCall]
  BY DEF Resume
<1>3. calls[c].label \in Labels
  BY <1>1, <1>2, CallType
<1>4. Cardinality(Absorbing) \in Nat /\ Len(pumps) \in Nat
  BY <1>1, AbsorbingFinite, PumpType
<1>5. CASE calls[c].op = "absorb"
  <2>1. Cardinality(Absorbing') \in Nat /\ Cardinality(Absorbing) = Cardinality(Absorbing') + 1
    BY <1>1, <1>2, <1>5, AbsorbingShrinks
  <2> QED BY <1>1, <1>2, <1>3, <1>4, <1>5, <2>1, CellFlowsBounds
          DEF Resume, RoomForPumps, FlowsTypeOK
<1>6. CASE calls[c].op # "absorb"
  <2>1. Absorbing' = Absorbing
    BY <1>1, <1>2, <1>6, AbsorbingShrinks
  <2> QED BY <1>1, <1>2, <1>3, <1>4, <1>6, <2>1, CellFlowsBounds
          DEF Resume, RoomForPumps, FlowsTypeOK
<1> QED BY <1>5, <1>6

(* The rest of a call on one label keeps the invariant, whether drop_flow  *)
(* came back on its own or because the caller was cancelled.               *)
LEMMA OneReturnsInv ==
    ASSUME FlowsInv, NEW c \in Callers, calls[c].op \in Ops, Resume(c),
           Complete(calls[c].op, calls[c].label, flowTasks),
           calls' = [calls EXCEPT ![c] = NoCall]
    PROVE  FlowsInv'
<1> DEFINE op == calls[c].op
           l == calls[c].label
<1>1. FlowsTypeOK /\ WaitingOK /\ ClashesAreMarked /\ PumpsAccountedFor
  BY DEF FlowsInv
<1>2. Resume(c) /\ Complete(op, l, flowTasks)
  OBVIOUS
<1>3. /\ calls[c] # NoCall /\ op \in Ops /\ l \in Labels
      /\ queue' = queue /\ pushed' = pushed /\ clashed' = clashed
      /\ clashed \subseteq clashed' /\ clashed' \subseteq Labels
      /\ calls' \in [Callers -> Waiting \cup {NoCall}]
      /\ \A d \in Callers : calls'[d] = IF d = c THEN NoCall ELSE calls[d]
      /\ flowTasks \in [Labels -> 0..MaxPumps]
      /\ Cardinality(Absorbing') \in Nat
      /\ Len(pumps) + Cardinality(Absorbing') + (IF op = "absorb" THEN 1 ELSE 0) <= MaxPumps
  BY <1>2, ResumeFacts
<1>4. \A m \in Labels : flowTasks[m] = flowTasks[m] \/ (m = l /\ flowTasks[m] = NoPump)
  OBVIOUS
<1>5. ASSUME l \notin clashed', op # "drop" \/ flowTasks[l] # flowTasks[l],
             NEW p \in DOMAIN pumps, pumps[p].label = l
      PROVE  pumps[p].state # "running"
  <2>1. op \in {"absorb", "detach"}
    BY <1>3, <1>5 DEF Ops
  <2>2. flowTasks[l] = NoPump
    BY <1>1, <1>3, <1>5, <2>1 DEF WaitingOK
  <2>3. p # NoPump
    BY <1>1, PumpType DEF NoPump
  <2> QED BY <1>1, <1>3, <1>5, <2>2, <2>3 DEF PumpsAccountedFor
<1>6. l \notin clashed' /\ op = "absorb" => l \in attached
  BY <1>1, <1>3 DEF WaitingOK
<1>7. ASSUME l \notin clashed', NEW d \in Callers
      PROVE  ~Clash(calls'[d], op, l)
  <2>1. CASE d = c
    <3>1. calls'[d] = NoCall
      BY <1>3, <2>1
    <3> QED BY <3>1, NoCallOp DEF Clash
  <2>2. CASE d # c
    <3>1. calls'[d] = calls[d]
      BY <1>3, <2>2
    <3> QED BY <1>1, <1>3, <1>7, <2>2, <3>1 DEF ClashesAreMarked
  <2> QED BY <2>1, <2>2
<1> HIDE DEF op, l
<1>8. \A d \in Callers : calls'[d] = calls[d] \/ calls'[d] = NoCall
  BY <1>3
<1> QED BY <1>2, <1>3, <1>4, <1>5, <1>6, <1>7, <1>8, CompleteInv

(* So does the rest of any call.                                           *)
LEMMA ReturnsInv ==
    ASSUME FlowsInv, NEW c \in Callers, NEW interrupted, NEW outcome,
           Returns(c, interrupted, outcome)
    PROVE  FlowsInv'
<1>1. CASE calls[c].op \in Ops
  <2>1. calls[c].op \notin AllOps
    BY <1>1 DEF Ops, AllOps
  <2> QED BY <1>1, <2>1, OneReturnsInv DEF Returns
<1>2. CASE calls[c].op \in AllOps
  <2>1. calls[c].op \notin Ops /\ calls[c].op # "absorb"
    BY <1>2 DEF Ops, AllOps
  <2>2. /\ calls[c] # NoCall /\ queue' = queue /\ pushed' = pushed /\ clashed' = clashed
        /\ Sweep(c, calls[c].op, calls[c].rest, outcome)
    BY <1>2, <2>1 DEF Returns, Resume
  <2>3. FlowsTypeOK /\ DetachingOK /\ ClashesAreMarked
    BY DEF FlowsInv
  <2>4. calls[c].rest \in SUBSET Labels /\ clashed \subseteq clashed' /\ clashed' \subseteq Labels
    BY <1>2, <2>2, <2>3, CallType DEF FlowsTypeOK
  <2>5. ASSUME calls[c].op = "detachAll", NEW d \in Callers, calls[d].op = "absorb"
        PROVE  calls[d].label \in clashed'
    <3>1. c # d /\ calls[d] # NoCall /\ Clash(calls[c], calls[d].op, calls[d].label)
      BY <2>5, NoCallOp DEF Clash
    <3> QED BY <2>2, <2>3, <3>1 DEF ClashesAreMarked
  <2>6. calls[c].op = "detachAll" =>
            \A m \in Labels : m \notin calls[c].rest /\ m \notin clashed' => flowTasks[m] = NoPump
    BY <2>2, <2>3 DEF DetachingOK
  <2> QED BY <1>2, <2>1, <2>2, <2>4, <2>5, <2>6, SweepInv
<1> QED BY <1>1, <1>2 DEF Returns

(* And so does a call that raises what the pump raised.                    *)
LEMMA RaisesInv ==
    ASSUME FlowsInv, NEW c \in Callers, Raises(c)
    PROVE  FlowsInv'
<1> DEFINE l == calls[c].label
<1>1. /\ Resume(c) /\ Complete("drop", l, flowTasks)
      /\ calls' = [calls EXCEPT ![c] = NoCall]
  BY DEF Raises, Complete
<1>2. /\ l \in Labels
      /\ queue' = queue /\ pushed' = pushed /\ clashed' = clashed
      /\ clashed \subseteq clashed' /\ clashed' \subseteq Labels
      /\ calls' \in [Callers -> Waiting \cup {NoCall}]
      /\ \A d \in Callers : calls'[d] = calls[d] \/ calls'[d] = NoCall
      /\ flowTasks \in [Labels -> 0..MaxPumps]
      /\ Cardinality(Absorbing') \in Nat
      /\ Len(pumps) + Cardinality(Absorbing') <= MaxPumps
  BY <1>1, ResumeFacts
<1>3. \A m \in Labels : flowTasks[m] = flowTasks[m] \/ (m = l /\ flowTasks[m] = NoPump)
  OBVIOUS
<1>4. "drop" \in Ops /\ \A d \in Callers : ~Clash(calls'[d], "drop", l)
  BY ClashFacts DEF Ops
<1>5. Len(pumps) + Cardinality(Absorbing') + (IF "drop" = "absorb" THEN 1 ELSE 0) <= MaxPumps
  BY <1>2, PumpType DEF FlowsInv
<1> HIDE DEF l
<1> QED BY <1>1, <1>2, <1>3, <1>4, <1>5, CompleteInv

(* Only the type depends on what is on the queue.                          *)
LEMMA QueueInv ==
    ASSUME FlowsInv, UNCHANGED <<attached, flowTasks, pumps, calls, clashed>>,
           queue' \in Seq({"element", "completion"}), pushed' \in 0..MaxPushed
    PROVE  FlowsInv'
<1>1. FlowsTypeOK'
  BY DEF FlowsInv, FlowsTypeOK
<1>2. RoomForPumps'
  BY DEF FlowsInv, RoomForPumps, Absorbing
<1>3. RegisteredOK'
  BY DEF FlowsInv, RegisteredOK
<1>4. WaitingOK'
  BY DEF FlowsInv, WaitingOK
<1>5. ClashesAreMarked' /\ DetachingOK'
  BY DEF FlowsInv, ClashesAreMarked, DetachingOK
<1>6. PumpsAccountedFor'
  BY DEF FlowsInv, PumpsAccountedFor
<1> QED BY <1>1, <1>2, <1>3, <1>4, <1>5, <1>6 DEF FlowsInv

(* A step of the session that leaves the Cell alone.                       *)
LEMMA FlowsUntouched ==
    ASSUME FlowsInv, UNCHANGED flowVars
    PROVE  FlowsInv'
<1>1. UNCHANGED <<attached, flowTasks, pumps, calls, clashed>> /\ queue' = queue /\ pushed' = pushed
  BY DEF flowVars
<1>2. queue \in Seq({"element", "completion"}) /\ pushed \in 0..MaxPushed
  BY DEF FlowsInv, FlowsTypeOK
<1> QED BY <1>1, <1>2, QueueInv

(* A push, by the Cell or by a pump, keeps the queue and its bound typed.  *)
LEMMA PushType ==
    ASSUME FlowsInv, NEW item \in {"element", "completion"}, Push(item)
    PROVE  queue' \in Seq({"element", "completion"}) /\ pushed' \in 0..MaxPushed
<1>1. queue \in Seq({"element", "completion"}) /\ pushed \in 0..MaxPushed
  BY DEF FlowsInv, FlowsTypeOK
<1>2. queue' \in Seq({"element", "completion"})
  BY <1>1, AppendProperties DEF Push
<1> QED BY <1>1, <1>2, CellFlowsBounds DEF Push

(* A pump that ends stays where it is registered.                          *)
LEMMA PumpStopsInv ==
    ASSUME FlowsInv, NEW p \in DOMAIN pumps, PumpStops(p)
    PROVE  FlowsInv'
<1>1. FlowsTypeOK /\ RegisteredOK /\ WaitingOK /\ DetachingOK /\ ClashesAreMarked /\ PumpsAccountedFor
  BY DEF FlowsInv
<1>2. UNCHANGED <<attached, flowTasks, queue, pushed, calls, clashed>>
  BY DEF PumpStops
<1>3. PICK s \in {"ended", "failed"} : pumps' = [pumps EXCEPT ![p].state = s]
  BY DEF PumpStops
<1>4. s \in PumpStates
  BY DEF PumpStates
<1>5. /\ pumps' \in Seq(PumpRecords) /\ Len(pumps') = Len(pumps)
      /\ DOMAIN pumps' = DOMAIN pumps
      /\ \A q \in DOMAIN pumps :
             /\ pumps'[q].label = pumps[q].label
             /\ pumps'[q].state = IF q = p THEN s ELSE pumps[q].state
  BY <1>1, <1>3, <1>4, PumpSet
<1>6. FlowsTypeOK'
  BY <1>1, <1>2, <1>5 DEF FlowsTypeOK, PumpRecords
<1>7. RoomForPumps'
  BY <1>2, <1>5 DEF FlowsInv, RoomForPumps, Absorbing
<1>8. RegisteredOK'
  BY <1>1, <1>2, <1>5 DEF RegisteredOK
<1>9. WaitingOK'
  BY <1>1, <1>2, <1>5 DEF WaitingOK
<1>10. ClashesAreMarked' /\ DetachingOK'
  BY <1>1, <1>2 DEF ClashesAreMarked, DetachingOK
<1>11. PumpsAccountedFor'
  BY <1>1, <1>2, <1>5 DEF PumpsAccountedFor
<1> QED BY <1>6, <1>7, <1>8, <1>9, <1>10, <1>11 DEF FlowsInv

(* The Cell's own pushes and the pumps.                                    *)
LEMMA FlowsStepInv ==
    ASSUME FlowsInv, FlowsStep
    PROVE  FlowsInv'
<1>1. CASE CellPushes
  BY <1>1, PushType, QueueInv DEF CellPushes
<1>2. ASSUME NEW p \in DOMAIN pumps, PumpCopies(p)
      PROVE  FlowsInv'
  BY <1>2, PushType, QueueInv DEF PumpCopies
<1> QED BY <1>1, <1>2, PumpStopsInv DEF FlowsStep

(* The Cell starts with nothing attached and nothing pumped.               *)
LEMMA FlowsStart ==
    ASSUME FlowsInit
    PROVE  FlowsInv
<1> USE CellFlowsBounds DEF FlowsInit
<1>1. FlowsTypeOK
  BY DEF FlowsTypeOK, NoPump
<1>2. RoomForPumps
  <2>1. Absorbing = {}
    BY NoCallOp DEF Absorbing
  <2> QED BY <2>1, FS_EmptySet DEF RoomForPumps
<1>3. RegisteredOK /\ WaitingOK /\ DetachingOK /\ ClashesAreMarked /\ PumpsAccountedFor
  BY NoCallOp DEF RegisteredOK, WaitingOK, DetachingOK, ClashesAreMarked, PumpsAccountedFor
<1> QED BY <1>1, <1>2, <1>3 DEF FlowsInv

(* Whatever a task of the session or of the application does, the flows of *)
(* the Cell stay in order.                                                 *)
LEMMA FlowsInductive ==
    ASSUME TypeOK, FlowsInv, [Next]_vars
    PROVE  FlowsInv'
<1>1. "serve" \in Callers /\ Apps \subseteq Callers
  BY CellPublisherBounds DEF Apps
<1>2. CASE ServeTakes
  <2> DEFINE k == Head(commands)
  <2>1. k \in Commands
    BY <1>2, HeadTailProperties DEF ServeTakes, TypeOK
  <2>2. k.op \in LabelOps => k.label \in Labels
    BY <2>1 DEF Commands, LabelOps, Ops, AllOps
  <2>3. \/ UNCHANGED flowVars
        \/ k.op = "attach" /\ Attach(k.label)
        \/ k.op \in Ops /\ Begin("serve", k.op, k.label)
        \/ k.op \in AllOps /\ \E outcome \in Outcomes : BeginAll("serve", k.op, outcome)
    BY <1>2 DEF ServeTakes
  <2> HIDE DEF k
  <2> QED BY <1>1, <2>2, <2>3, FlowsUntouched, AttachInv, BeginInv, BeginAllInv DEF LabelOps
<1>3. CASE ServeResumes
  BY <1>1, <1>3, ReturnsInv, RaisesInv DEF ServeResumes
<1>4. CASE FeedStep
  <2>1. PICK f \in FeedIds : FeedStarts(f) \/ FeedTakes(f) \/ FeedSends(f) \/ FeedCancelled(f)
    BY <1>4 DEF FeedStep
  <2>2. CASE FeedTakes(f)
    <3>1. queue' \in Seq({"element", "completion"}) /\ pushed' \in 0..MaxPushed
      BY <2>2, HeadTailProperties DEF FeedTakes, FlowsInv, FlowsTypeOK
    <3> QED BY <2>2, <3>1, QueueInv DEF FeedTakes
  <2> QED BY <2>1, <2>2, FlowsUntouched DEF FeedStarts, FeedSends, FeedCancelled
<1>5. ASSUME NEW c \in Apps, AppCalls(c)
      PROVE  FlowsInv'
  BY <1>1, <1>5, AttachInv, BeginInv, BeginAllInv DEF AppCalls
<1>6. ASSUME NEW c \in Apps, AppResumes(c)
      PROVE  FlowsInv'
  BY <1>1, <1>6, ReturnsInv, RaisesInv DEF AppResumes
<1>7. CASE CellStep
  BY <1>7, FlowsStepInv DEF CellStep
<1>8. CASE Start \/ RemoteSends \/ ConnectionLost \/ ServeSends \/ ServeCancelled \/ Discard
           \/ BeginClose \/ CloseStep
  BY <1>8, FlowsUntouched DEF Start, RemoteSends, ConnectionLost, ServeSends, ServeCancelled,
     Discard, BeginClose, CloseStep, CloseFeeds, CloseServe, CloseBridge
<1>9. CASE UNCHANGED vars
  BY <1>9, FlowsUntouched DEF vars
<1> QED BY <1>2, <1>3, <1>4, <1>5, <1>6, <1>7, <1>8, <1>9 DEF Next

(* -------------------------- The feeds of a session ----------------------- *)

FeedRecords == [state : {"starting", "waiting", "sending", "ended", "failed"},
                cancelled : BOOLEAN, late : BOOLEAN]

(* The feeds are numbered from one.                                        *)
LEMMA FeedType ==
    ASSUME TypeOK
    PROVE  /\ Len(feeds) \in Nat /\ FeedIds = 1..Len(feeds)
           /\ \A f \in FeedIds : /\ feeds[f] \in FeedRecords
                                 /\ feeds[f].late \in BOOLEAN
<1>1. feeds \in Seq(FeedRecords)
  BY DEF TypeOK, FeedRecords
<1>2. Len(feeds) \in Nat /\ FeedIds = 1..Len(feeds)
  BY <1>1, LenProperties DEF FeedIds
<1>3. \A f \in FeedIds : feeds[f] \in FeedRecords
  BY <1>1, <1>2, ElementOfSeq
<1> QED BY <1>2, <1>3 DEF FeedRecords

(* A feed command creates the next feed, which is late if the session was  *)
(* told to stop.                                                           *)
LEMMA FeedAdded ==
    ASSUME TypeOK, feeds' = Append(feeds, NewFeed)
    PROVE  /\ feeds' \in Seq(FeedRecords)
           /\ FeedIds' = FeedIds \cup {Len(feeds) + 1}
           /\ \A f \in FeedIds : feeds'[f] = feeds[f]
           /\ Len(feeds) + 1 \notin FeedIds
           /\ feeds'[Len(feeds) + 1].late = stop
<1>1. feeds \in Seq(FeedRecords) /\ stop \in BOOLEAN
  BY DEF TypeOK, FeedRecords
<1>2. NewFeed \in FeedRecords /\ NewFeed.late = stop
  BY <1>1 DEF FeedRecords, NewFeed
<1>3. FeedIds = 1..Len(feeds) /\ Len(feeds) \in Nat
  BY FeedType
<1>4. /\ feeds' \in Seq(FeedRecords) /\ Len(feeds') = Len(feeds) + 1
      /\ \A f \in 1..Len(feeds) : feeds'[f] = feeds[f]
      /\ feeds'[Len(feeds) + 1] = NewFeed
  BY <1>1, <1>2, AppendProperties
<1>5. FeedIds' = 1..(Len(feeds) + 1)
  BY <1>4, LenProperties DEF FeedIds
<1>6. 1..(Len(feeds) + 1) = 1..Len(feeds) \cup {Len(feeds) + 1}
  BY <1>3
<1> QED BY <1>2, <1>3, <1>4, <1>5, <1>6

(* A feed that goes on, ends or is cancelled keeps its number, and is late *)
(* or is not as before; one that has ended does not come back.             *)
LEMMA FeedSet ==
    ASSUME TypeOK, NEW f \in FeedIds, NEW r \in FeedRecords,
           feeds' = [feeds EXCEPT ![f] = r], r.late = feeds[f].late,
           r.state \in {"starting", "waiting", "sending"} => Alive(f)
    PROVE  /\ feeds' \in Seq(FeedRecords)
           /\ FeedIds' = FeedIds
           /\ \A g \in FeedIds : /\ feeds'[g].late = feeds[g].late
                                 /\ Alive(g)' => Alive(g)
<1>1. feeds \in Seq(FeedRecords)
  BY DEF TypeOK, FeedRecords
<1>2. FeedIds = 1..Len(feeds) /\ Len(feeds) \in Nat
  BY FeedType
<1>3. feeds' \in Seq(FeedRecords)
  BY <1>1, <1>2, ExceptSeq
<1>4. FeedIds' = FeedIds
  BY DEF FeedIds
<1>5. \A g \in FeedIds : feeds'[g] = IF g = f THEN r ELSE feeds[g]
  BY DEF FeedIds
<1> QED BY <1>3, <1>4, <1>5 DEF Alive

(* A feed's own step changes its state.                                    *)
LEMMA FeedSetState ==
    ASSUME TypeOK, NEW f \in FeedIds, NEW s \in {"starting", "waiting", "sending", "ended", "failed"},
           SetFeed(f, s), Alive(f)
    PROVE  /\ feeds' \in Seq(FeedRecords)
           /\ FeedIds' = FeedIds
           /\ \A g \in FeedIds : /\ feeds'[g].late = feeds[g].late
                                 /\ Alive(g)' => Alive(g)
<1> DEFINE r == [feeds[f] EXCEPT !.state = s]
<1>1. feeds[f] \in FeedRecords
  BY FeedType
<1>2. r \in FeedRecords /\ r.late = feeds[f].late
  BY <1>1 DEF FeedRecords
<1>3. feeds' = [feeds EXCEPT ![f] = r]
  BY DEF SetFeed
<1> HIDE DEF r
<1> QED BY <1>2, <1>3, FeedSet

(* close() marks it as cancelled.                                          *)
LEMMA FeedSetCancelled ==
    ASSUME TypeOK, NEW f \in FeedIds, Alive(f), feeds' = [feeds EXCEPT ![f].cancelled = TRUE]
    PROVE  /\ feeds' \in Seq(FeedRecords)
           /\ FeedIds' = FeedIds
           /\ \A g \in FeedIds : /\ feeds'[g].late = feeds[g].late
                                 /\ Alive(g)' => Alive(g)
<1> DEFINE r == [feeds[f] EXCEPT !.cancelled = TRUE]
<1>1. feeds[f] \in FeedRecords
  BY FeedType
<1>2. r \in FeedRecords /\ r.late = feeds[f].late
  BY <1>1 DEF FeedRecords
<1>3. feeds' = [feeds EXCEPT ![f] = r]
  OBVIOUS
<1> HIDE DEF r
<1> QED BY <1>2, <1>3, FeedSet

(* A step that leaves the session alone leaves its feeds alone.            *)
LEMMA FeedsSame ==
    ASSUME TypeOK, feeds' = feeds
    PROVE  /\ feeds' \in Seq(FeedRecords)
           /\ FeedIds' = FeedIds
           /\ \A g \in FeedIds : /\ feeds'[g].late = feeds[g].late
                                 /\ Alive(g)' => Alive(g)
BY DEF TypeOK, FeedRecords, FeedIds, Alive

(* ---------------------------- Steps of the session ----------------------- *)

(* A step that moves neither the serve task nor close(), and creates no    *)
(* feed, has only the connection to answer for.                            *)
LEMMA SessionKept ==
    ASSUME Session, TypeOK',
           FeedIds' = FeedIds,
           \A g \in FeedIds : feeds'[g].late = feeds[g].late /\ (Alive(g)' => Alive(g)),
           feeds = <<>> => feeds' = <<>>,
           UNCHANGED <<serve, stop, closing, todo, awaited>>,
           \A g \in registered : Alive(g) => g \in registered',
           connected' /\ closing = "closed" => connected \/ \E g \in FeedIds : feeds[g].late
    PROVE  Session'
<1>1. StopIsClose'
  BY DEF Session, StopIsClose
<1>2. OneLateFeed'
  BY DEF Session, OneLateFeed
<1>3. FeedsInHand'
  <2> SUFFICES ASSUME NEW f \in FeedIds', Alive(f)', ~feeds'[f].late
               PROVE  /\ closing' \in {"open", "feeds", "raised"}
                      /\ f \in registered'
                      /\ closing' = "feeds" => f \in todo' \cup {awaited'}
    BY DEF FeedsInHand
  <2>1. f \in FeedIds /\ Alive(f) /\ ~feeds[f].late
    OBVIOUS
  <2> QED BY <2>1 DEF Session, FeedsInHand
<1>4. ServeEndsFirst'
  BY DEF Session, ServeEndsFirst
<1>5. ConnectedByLate'
  BY DEF Session, ConnectedByLate
<1> QED BY <1>1, <1>2, <1>3, <1>4, <1>5 DEF Session

(* While the serve task runs close() has not got to the bridge, and there  *)
(* is no late feed.                                                        *)
LEMMA ServeRuns ==
    ASSUME Session, serve \in {"getting", "calling", "sending"}
    PROVE  /\ closing \notin {"bridge", "closed"}
           /\ \A f \in FeedIds : ~feeds[f].late
BY DEF Session, ServeEndsFirst, OneLateFeed

(* A step of the serve task that creates no feed.                          *)
LEMMA ServeMoves ==
    ASSUME Session, TypeOK', serve \in {"getting", "calling", "sending"}, serve' # "none",
           UNCHANGED <<feeds, registered, stop, closing, todo, awaited>>
    PROVE  Session'
<1>1. /\ closing \notin {"bridge", "closed"}
      /\ \A f \in FeedIds : ~feeds[f].late
  BY ServeRuns
<1>2. FeedIds' = FeedIds /\ \A f \in FeedIds : Alive(f)' = Alive(f)
  BY DEF FeedIds, Alive
<1>3. StopIsClose'
  BY DEF Session, StopIsClose
<1>4. OneLateFeed'
  BY <1>1, <1>2 DEF OneLateFeed
<1>5. FeedsInHand'
  BY <1>2 DEF Session, FeedsInHand
<1>6. ServeEndsFirst' /\ ConnectedByLate'
  BY <1>1 DEF ServeEndsFirst, ConnectedByLate
<1> QED BY <1>3, <1>4, <1>5, <1>6 DEF Session

(* The head of the serve task's loop.                                      *)
LEMMA NextTurnType == NextTurn \in {"done", "getting"}
BY DEF NextTurn

(* Where a call of the Cell leaves the serve task.                         *)
LEMMA AfterCallType ==
    ASSUME NEW outcome
    PROVE  AfterCall(outcome) \in {"calling", "done", "getting", "sending"}
BY NextTurnType DEF AfterCall

(* The serve task takes a feed command: after the stop event it does not   *)
(* take another.                                                           *)
LEMMA ServeTakesFeed ==
    ASSUME Session, TypeOK', serve = "getting", serve' = NextTurn,
           feeds' = Append(feeds, NewFeed), registered' = registered \cup {Len(feeds) + 1},
           UNCHANGED <<stop, closing, todo, awaited>>
    PROVE  Session'
<1> DEFINE n == Len(feeds) + 1
<1>1. /\ closing \notin {"bridge", "closed"}
      /\ \A f \in FeedIds : ~feeds[f].late
  BY ServeRuns
<1>2. /\ FeedIds' = FeedIds \cup {n} /\ n \notin FeedIds
      /\ \A f \in FeedIds : feeds'[f] = feeds[f]
      /\ feeds'[n].late = stop
  BY FeedAdded DEF Session
<1> HIDE DEF n
<1>3. stop \in BOOLEAN /\ (stop <=> closing # "open")
  BY DEF Session, TypeOK, StopIsClose
<1>4. StopIsClose'
  BY <1>3, NextTurnType DEF StopIsClose
<1>5. OneLateFeed'
  BY <1>1, <1>2, <1>3 DEF OneLateFeed, NextTurn
<1>6. FeedsInHand'
  <2> SUFFICES ASSUME NEW f \in FeedIds', Alive(f)', ~feeds'[f].late
               PROVE  /\ closing' \in {"open", "feeds", "raised"}
                      /\ f \in registered'
                      /\ closing' = "feeds" => f \in todo' \cup {awaited'}
    BY DEF FeedsInHand
  <2>1. CASE f = n
    BY <1>2, <1>3, <2>1 DEF n
  <2>2. CASE f \in FeedIds
    <3>1. Alive(f) /\ ~feeds[f].late
      BY <1>2, <2>2 DEF Alive
    <3> QED BY <2>2, <3>1 DEF Session, FeedsInHand
  <2> QED BY <1>2, <2>1, <2>2
<1>7. ServeEndsFirst' /\ ConnectedByLate'
  BY <1>1 DEF ServeEndsFirst, ConnectedByLate
<1> QED BY <1>4, <1>5, <1>6, <1>7 DEF Session

(* close() on the feeds `fs`, when every feed that it has to end is in     *)
(* `fs`: it ends them all, or raises, before it cancels the serve task.    *)
LEMMA CloseOnInv ==
    ASSUME Session, TypeOK', NEW fs, fs \subseteq FeedIds, CloseOn(fs),
           \A f \in FeedIds : Alive(f) /\ ~feeds[f].late => f \in fs /\ f \in registered,
           serve # "none", serve' = serve, stop' = TRUE
    PROVE  Session'
<1>1. /\ FeedIds' = FeedIds
      /\ \A g \in FeedIds : feeds'[g].late = feeds[g].late /\ (Alive(g)' => Alive(g))
  <2>1. CASE feeds' = feeds
    BY <2>1, FeedsSame DEF Session
  <2>2. CASE feeds' # feeds
    <3>1. PICK f \in fs : Alive(f) /\ feeds' = [feeds EXCEPT ![f].cancelled = TRUE]
      BY <2>2 DEF CloseOn
    <3> QED BY <3>1, FeedSetCancelled DEF Session
  <2> QED BY <2>1, <2>2
<1>2. closing' \in {"feeds", "raised", "serve", "bridge"}
  BY DEF CloseOn
<1>3. StopIsClose'
  BY <1>2 DEF StopIsClose
<1>4. OneLateFeed'
  BY <1>1 DEF Session, OneLateFeed
<1>5. FeedsInHand'
  <2> SUFFICES ASSUME NEW f \in FeedIds', Alive(f)', ~feeds'[f].late
               PROVE  /\ closing' \in {"open", "feeds", "raised"}
                      /\ f \in registered'
                      /\ closing' = "feeds" => f \in todo' \cup {awaited'}
    BY DEF FeedsInHand
  <2>1. f \in FeedIds /\ Alive(f) /\ ~feeds[f].late /\ f \in fs /\ f \in registered
    BY <1>1
  <2>2. feeds[f].state # "ended"
    BY <2>1 DEF Alive
  <2> QED BY <2>1, <2>2 DEF CloseOn
<1>6. ServeEndsFirst'
  <2>1. closing' = "bridge" => serve \in {"done", "failed"}
    BY DEF CloseOn
  <2> QED BY <1>2, <2>1 DEF ServeEndsFirst
<1>7. ConnectedByLate'
  BY <1>2 DEF ConnectedByLate
<1> QED BY <1>3, <1>4, <1>5, <1>6, <1>7 DEF Session

(* What CloseOn leaves of the session's variables is of their type.        *)
LEMMA CloseOnType ==
    ASSUME TypeOK, NEW fs, fs \subseteq FeedIds, CloseOn(fs)
    PROVE  /\ feeds' \in Seq(FeedRecords)
           /\ registered' \subseteq FeedIds'
           /\ todo' \subseteq FeedIds' /\ awaited' \in FeedIds' \cup {NoFeed}
           /\ serveCancel' \in BOOLEAN
           /\ closing' \in {"feeds", "raised", "serve", "bridge"}
<1>1. registered \subseteq FeedIds /\ serveCancel \in BOOLEAN
  BY DEF TypeOK
<1>2. ASSUME NEW f \in fs, Alive(f), feeds' = [feeds EXCEPT ![f].cancelled = TRUE],
             awaited' = f, todo' = fs \ {f}, closing' = "feeds",
             UNCHANGED <<registered, serveCancel>>
      PROVE  /\ feeds' \in Seq(FeedRecords)
             /\ registered' \subseteq FeedIds'
             /\ todo' \subseteq FeedIds' /\ awaited' \in FeedIds' \cup {NoFeed}
             /\ serveCancel' \in BOOLEAN
             /\ closing' \in {"feeds", "raised", "serve", "bridge"}
  <2>1. feeds' \in Seq(FeedRecords) /\ FeedIds' = FeedIds
    BY <1>2, FeedSetCancelled
  <2> QED BY <1>1, <1>2, <2>1
<1>3. CASE feeds' = feeds /\ todo' = {} /\ awaited' = NoFeed
           /\ (registered' = {} \/ registered' = registered)
           /\ serveCancel' \in BOOLEAN /\ closing' \in {"raised", "serve", "bridge"}
  <2>1. feeds' \in Seq(FeedRecords) /\ FeedIds' = FeedIds
    BY <1>3, FeedsSame
  <2> QED BY <1>1, <1>3, <2>1
<1> QED BY <1>1, <1>2, <1>3 DEF CloseOn

(* Every step keeps the variables of their type.                           *)
LEMMA TypeInductive ==
    ASSUME IInv, FlowsTypeOK', [Next]_vars
    PROVE  TypeOK'
<1> USE CellPublisherBounds
<1>1. TypeOK
  BY DEF IInv, Session
<1>2. feeds \in Seq(FeedRecords)
  BY <1>1 DEF TypeOK, FeedRecords
<1>3. CASE Start
  BY <1>1, <1>3 DEF Start, TypeOK, FeedIds
<1>4. CASE RemoteSends
  <2>1. commands' \in Seq(Commands)
    BY <1>1, <1>4, AppendProperties DEF RemoteSends, TypeOK
  <2> QED BY <1>1, <1>4, <2>1 DEF RemoteSends, TypeOK, FeedIds
<1>5. CASE ConnectionLost
  <2>1. losses' \in 0..MaxLosses
    BY <1>1, <1>5 DEF ConnectionLost, TypeOK
  <2>2. connected' = FALSE /\ FeedIds' = FeedIds
    BY <1>5 DEF ConnectionLost, FeedIds
  <2> QED BY <1>1, <1>5, <2>1, <2>2 DEF ConnectionLost, TypeOK
<1>6. CASE ServeTakes
  <2>1. commands' \in Seq(Commands)
    BY <1>1, <1>6, HeadTailProperties DEF ServeTakes, TypeOK
  <2>2. serve' \in {"getting", "calling", "sending", "done"}
    BY <1>6, NextTurnType, AfterCallType DEF ServeTakes
  <2>3. /\ feeds' \in Seq(FeedRecords)
        /\ FeedIds \subseteq FeedIds' /\ registered' \subseteq FeedIds'
    <3>1. CASE UNCHANGED <<feeds, registered>>
      BY <1>1, <3>1, FeedsSame DEF TypeOK
    <3>2. CASE feeds' = Append(feeds, NewFeed) /\ registered' = registered \cup {Len(feeds) + 1}
      BY <1>1, <3>2, FeedAdded DEF TypeOK
    <3> QED BY <1>6, <3>1, <3>2 DEF ServeTakes
  <2>4. UNCHANGED <<received, serveCancel, stop, closing, todo, awaited, connected, appCalls, losses>>
    BY <1>6 DEF ServeTakes
  <2> QED BY <1>1, <2>1, <2>2, <2>3, <2>4 DEF TypeOK, FeedRecords
<1>7. CASE ServeResumes
  <2>1. serve' \in {"getting", "calling", "sending", "done"}
    BY <1>7, AfterCallType DEF ServeResumes
  <2> QED BY <1>1, <1>7, <2>1 DEF ServeResumes, TypeOK, FeedIds
<1>8. CASE ServeSends
  <2>1. serve' \in {"getting", "done", "failed"} /\ connected' \in BOOLEAN
    BY <1>1, <1>8, NextTurnType DEF ServeSends, TypeOK
  <2> QED BY <1>1, <1>8, <2>1 DEF ServeSends, TypeOK, FeedIds
<1>9. CASE ServeCancelled
  BY <1>1, <1>9 DEF ServeCancelled, TypeOK, FeedIds
<1>10. CASE FeedStep
  <2>1. PICK f \in FeedIds : FeedStarts(f) \/ FeedTakes(f) \/ FeedSends(f) \/ FeedCancelled(f)
    BY <1>10 DEF FeedStep
  <2>2. connected' \in BOOLEAN
    BY <1>1, <2>1 DEF TypeOK, FeedStarts, FeedTakes, FeedSends, FeedCancelled
  <2>3. PICK s \in {"starting", "waiting", "sending", "ended", "failed"} : SetFeed(f, s)
    BY <2>1 DEF FeedStarts, FeedTakes, FeedSends, FeedCancelled
  <2>4. Alive(f)
    BY <2>1 DEF FeedStarts, FeedTakes, FeedSends, FeedCancelled, Alive
  <2>5. feeds' \in Seq(FeedRecords) /\ FeedIds' = FeedIds
    BY <1>1, <2>3, <2>4, FeedSetState
  <2> QED BY <1>1, <1>10, <2>2, <2>5 DEF FeedStep, FeedsOnly, TypeOK, FeedRecords
<1>11. CASE Discard
  BY <1>1, <1>11 DEF Discard, TypeOK, FeedIds
<1>12. CASE BeginClose
  <2>1. registered \subseteq FeedIds /\ CloseOn(registered)
    BY <1>1, <1>12 DEF BeginClose, TypeOK
  <2> QED BY <1>1, <1>12, <2>1, CloseOnType DEF BeginClose, TypeOK, FeedRecords
<1>13. CASE CloseFeeds
  <2>1. todo \subseteq FeedIds /\ CloseOn(todo)
    BY <1>1, <1>13 DEF CloseFeeds, TypeOK
  <2> QED BY <1>1, <1>13, <2>1, CloseOnType DEF CloseFeeds, TypeOK, FeedRecords
<1>14. CASE CloseServe
  BY <1>1, <1>14 DEF CloseServe, TypeOK, FeedIds
<1>15. CASE CloseBridge
  BY <1>1, <1>15 DEF CloseBridge, TypeOK, FeedIds
<1>16. CASE \E c \in Apps : AppCalls(c)
  BY <1>1, <1>16 DEF AppCalls, TypeOK, FeedIds
<1>17. CASE UNCHANGED sessionVars
  BY <1>1, <1>17 DEF sessionVars, TypeOK, FeedIds
<1>18. (\E c \in Apps : AppResumes(c)) \/ CellStep \/ UNCHANGED vars => UNCHANGED sessionVars
  BY DEF AppResumes, CellStep, vars
<1> QED BY <1>3, <1>4, <1>5, <1>6, <1>7, <1>8, <1>9, <1>10, <1>11, <1>12, <1>13, <1>14, <1>15,
           <1>16, <1>17, <1>18 DEF Next, CloseStep

(* Every step keeps what the session promises.                             *)
LEMMA SessionInductive ==
    ASSUME IInv, TypeOK', [Next]_vars
    PROVE  Session'
<1>1. Session /\ TypeOK
  BY DEF IInv, Session
<1>2. CASE Start
  <2>1. closing = "open" /\ stop = FALSE /\ feeds = <<>> /\ FeedIds = {}
    BY <1>1, <1>2 DEF Start, Session, StopIsClose, TypeOK, FeedIds
  <2>2. /\ UNCHANGED <<feeds, stop, closing>> /\ FeedIds' = {} /\ serve' = "getting"
    BY <1>2, <2>1 DEF Start, FeedIds
  <2> QED BY <2>1, <2>2 DEF Session, StopIsClose, OneLateFeed, FeedsInHand, ServeEndsFirst,
          ConnectedByLate
<1>3. CASE ServeTakes
  <2>1. CASE UNCHANGED <<feeds, registered>>
    <3>1. serve' # "none"
      BY <1>3, NextTurnType, AfterCallType DEF ServeTakes
    <3> QED BY <1>1, <1>3, <2>1, <3>1, ServeMoves DEF ServeTakes
  <2>2. CASE /\ feeds' = Append(feeds, NewFeed) /\ registered' = registered \cup {Len(feeds) + 1}
             /\ serve' = NextTurn
    BY <1>1, <1>3, <2>2, ServeTakesFeed DEF ServeTakes
  <2> QED BY <1>3, <2>1, <2>2 DEF ServeTakes
<1>4. CASE ServeResumes
  <2>1. serve' # "none"
    BY <1>4, AfterCallType DEF ServeResumes
  <2> QED BY <1>1, <1>4, <2>1, ServeMoves DEF ServeResumes
<1>5. CASE ServeSends
  <2>1. serve' # "none"
    BY <1>5, NextTurnType DEF ServeSends
  <2> QED BY <1>1, <1>5, <2>1, ServeMoves DEF ServeSends
<1>6. CASE ServeCancelled
  BY <1>1, <1>6, ServeMoves DEF ServeCancelled
<1>7. CASE FeedStep
  <2>1. PICK f \in FeedIds : FeedStarts(f) \/ FeedTakes(f) \/ FeedSends(f) \/ FeedCancelled(f)
    BY <1>7 DEF FeedStep
  <2>2. PICK s \in {"starting", "waiting", "sending", "ended", "failed"} : SetFeed(f, s)
    BY <2>1 DEF FeedStarts, FeedTakes, FeedSends, FeedCancelled
  <2>3. Alive(f)
    BY <2>1 DEF FeedStarts, FeedTakes, FeedSends, FeedCancelled, Alive
  <2>4. /\ FeedIds' = FeedIds
        /\ \A g \in FeedIds : feeds'[g].late = feeds[g].late /\ (Alive(g)' => Alive(g))
    BY <1>1, <2>2, <2>3, FeedSetState
  <2>5. closing = "closed" => feeds[f].late
    BY <1>1, <2>3 DEF Session, FeedsInHand
  <2>6. feeds # <<>>
    BY <2>1 DEF FeedIds
  <2> QED BY <1>1, <1>7, <2>4, <2>5, <2>6, SessionKept DEF FeedStep, FeedsOnly
<1>8. CASE Discard
  BY <1>1, <1>8, FeedsSame, SessionKept DEF Discard
<1>9. CASE BeginClose
  <2>1. \A f \in FeedIds : Alive(f) /\ ~feeds[f].late => f \in registered
    BY <1>1 DEF Session, FeedsInHand
  <2>2. registered \subseteq FeedIds
    BY <1>1 DEF TypeOK
  <2> QED BY <1>1, <1>9, <2>1, <2>2, CloseOnInv DEF BeginClose
<1>10. CASE CloseFeeds
  <2>1. \A f \in FeedIds : Alive(f) /\ ~feeds[f].late => f \in todo /\ f \in registered
    BY <1>1, <1>10 DEF CloseFeeds, Session, FeedsInHand
  <2>2. todo \subseteq FeedIds
    BY <1>1 DEF TypeOK
  <2>3. serve # "none" /\ stop = TRUE
    BY <1>1, <1>10 DEF CloseFeeds, Session, StopIsClose, TypeOK
  <2> QED BY <1>1, <1>10, <2>1, <2>2, <2>3, CloseOnInv DEF CloseFeeds
<1>11. CASE CloseServe \/ CloseBridge
  <2>1. /\ closing \in {"serve", "bridge"} /\ closing' \in {"bridge", "raised", "closed"}
        /\ closing' \in {"bridge", "closed"} => serve \in {"done", "failed"}
        /\ closing' = "closed" => ~connected'
        /\ UNCHANGED <<serve, feeds, registered, stop, todo, awaited>>
    BY <1>1, <1>11 DEF CloseServe, CloseBridge, Session, ServeEndsFirst
  <2>2. FeedIds' = FeedIds /\ \A f \in FeedIds : Alive(f)' => Alive(f)
    BY <1>1, <2>1, FeedsSame
  <2>3. \A f \in FeedIds : Alive(f) => feeds[f].late
    BY <1>1, <2>1 DEF Session, FeedsInHand
  <2>4. StopIsClose' /\ OneLateFeed'
    BY <1>1, <2>1, <2>2 DEF Session, StopIsClose, OneLateFeed
  <2>5. FeedsInHand' /\ ServeEndsFirst' /\ ConnectedByLate'
    BY <2>1, <2>2, <2>3 DEF FeedsInHand, ServeEndsFirst, ConnectedByLate
  <2> QED BY <2>4, <2>5 DEF Session
<1>12. CASE RemoteSends \/ ConnectionLost \/ (\E c \in Apps : AppCalls(c) \/ AppResumes(c))
            \/ CellStep \/ UNCHANGED vars
  <2>1. /\ UNCHANGED <<feeds, serve, stop, closing, todo, awaited, registered>>
        /\ connected' => connected
    <3>1. CASE RemoteSends
      BY <3>1 DEF RemoteSends
    <3>2. CASE ConnectionLost
      BY <3>2 DEF ConnectionLost
    <3>3. CASE \E c \in Apps : AppCalls(c)
      BY <3>3 DEF AppCalls
    <3>4. CASE (\E c \in Apps : AppResumes(c)) \/ CellStep \/ UNCHANGED vars
      <4>1. UNCHANGED sessionVars
        BY <3>4 DEF AppResumes, CellStep, vars
      <4> QED BY <4>1 DEF sessionVars
    <3> QED BY <1>12, <3>1, <3>2, <3>3, <3>4
  <2> QED BY <1>1, <2>1, FeedsSame, SessionKept
<1> QED BY <1>2, <1>3, <1>4, <1>5, <1>6, <1>7, <1>8, <1>9, <1>10, <1>11, <1>12
        DEF Next, CloseStep

(* The initial states satisfy the invariant.                               *)
LEMMA InitInv == Init => IInv
<1> SUFFICES ASSUME Init PROVE IInv
  OBVIOUS
<1> USE CellPublisherBounds DEF Init
<1>1. FlowsInv
  BY FlowsStart
<1>2. FeedIds = {}
  BY DEF FeedIds
<1>3. TypeOK
  <2>1. commands \in Seq(Commands) /\ feeds \in Seq(FeedRecords)
    BY EmptySeq
  <2>2. received \in 0..MaxCommands /\ appCalls \in 0..MaxCalls /\ losses \in 0..MaxLosses
    OBVIOUS
  <2> QED BY <1>1, <1>2, <2>1, <2>2 DEF TypeOK, FlowsInv, FeedRecords
<1>4. StopIsClose /\ OneLateFeed /\ FeedsInHand /\ ServeEndsFirst /\ ConnectedByLate
  BY <1>2 DEF StopIsClose, OneLateFeed, FeedsInHand, ServeEndsFirst, ConnectedByLate
<1> QED BY <1>1, <1>3, <1>4 DEF IInv, Session

(* ------------------------------- Theorems -------------------------------- *)

(* However the session's tasks, the application's calls and the pumps are  *)
(* interleaved, the invariant holds from start() on.                       *)
THEOREM Invariance == Spec => []IInv
<1>1. IInv /\ [Next]_vars => IInv'
  <2> SUFFICES ASSUME IInv, [Next]_vars PROVE IInv'
    OBVIOUS
  <2>1. FlowsInv'
    BY FlowsInductive DEF IInv, Session
  <2>2. TypeOK'
    BY <2>1, TypeInductive DEF FlowsInv
  <2>3. Session'
    BY <2>2, SessionInductive
  <2> QED BY <2>1, <2>3 DEF IInv
<1> QED BY InitInv, <1>1, PTL DEF Spec

(* The variables of the session and of the Cell keep their types: no step  *)
(* of close(), of a feed or of the serve task leads to a feed or a pump    *)
(* that does not exist.                                                    *)
THEOREM PublisherTypeCorrect == Spec => []TypeOK
<1>1. IInv => TypeOK
  BY DEF IInv, Session
<1> QED BY Invariance, <1>1, PTL

(* absorb_flow, drop_flow, detach, drop_all_flows and detach_all leave no  *)
(* pump behind that copies into the Cell and that no later drop_flow would *)
(* find, unless two calls that do not go together overlapped on the label: *)
(* for any number of labels, pumps and tasks that call the Cell.           *)
THEOREM PumpsAreFound == Spec => []PumpsAccountedFor
<1>1. IInv => PumpsAccountedFor
  BY DEF IInv, FlowsInv
<1> QED BY Invariance, <1>1, PTL

(* Once close() of a publisher session has returned, its serve task has    *)
(* ended and no feed runs but the one late one that the serve task may     *)
(* have created while close() waited, for any number of feeds, commands    *)
(* and lost connections.                                                   *)
THEOREM ClosesForGood == Spec => []ClosedForGood
<1>1. IInv => ClosedForGood
  <2> SUFFICES ASSUME IInv, closing = "closed"
               PROVE  /\ serve \in {"done", "failed"}
                      /\ \A f \in FeedIds : Alive(f) => feeds[f].late
                      /\ Cardinality({f \in FeedIds : Alive(f)}) <= 1
                      /\ connected => \E f \in FeedIds : feeds[f].late
    BY DEF ClosedForGood
  <2> DEFINE running == {f \in FeedIds : Alive(f)}
  <2>1. Session
    BY DEF IInv
  <2>2. serve \in {"done", "failed"}
    BY <2>1 DEF Session, ServeEndsFirst
  <2>3. \A f \in FeedIds : Alive(f) => feeds[f].late
    BY <2>1 DEF Session, FeedsInHand
  <2>4. connected => \E f \in FeedIds : feeds[f].late
    BY <2>1 DEF Session, ConnectedByLate
  <2>5. Cardinality(running) <= 1
    <3>1. CASE running = {}
      BY <3>1, FS_EmptySet
    <3>2. CASE running # {}
      <4>1. PICK f \in running : TRUE
        BY <3>2
      <4>2. running = {f}
        BY <2>1, <2>3, <4>1 DEF Session, OneLateFeed
      <4>3. Cardinality({f}) = 1
        BY FS_Singleton
      <4> QED BY <4>2, <4>3
    <3> QED BY <3>1, <3>2
  <2> QED BY <2>2, <2>3, <2>4, <2>5
<1> QED BY Invariance, <1>1, PTL
=============================================================================

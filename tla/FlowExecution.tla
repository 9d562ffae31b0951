---------------------------- MODULE FlowExecution ----------------------------
(***************************************************************************)
(* Admitted demands as real traffic (orchestrator.py with EXECUTE=1).      *)
(*                                                                         *)
(* An admission takes a device session and a port and starts a run_flow    *)
(* thread; a pre-emption starts a stop_flow thread that looks for the      *)
(* flow's sender by device and port.  The threads run outside the lock     *)
(* that decide() holds, so every docker call and every look at the shared  *)
(* flow record is a step of its own.  Which demands are admitted, and at   *)
(* whose cost, is module Admission's business: here any victims will do,   *)
(* as long as the slice keeps to Room flows.                               *)
(***************************************************************************)
EXTENDS Naturals, FiniteSets

CONSTANTS
    FlowId,
    Device,        \* device sessions of the slice
    Port,          \* FLOW_PORT_FIRST .. FLOW_PORT_FIRST + 299
    Room,          \* flows the slice has capacity for
    MaxTries,      \* attempts of stop_flow: 10
    none

ASSUME ExecutionAssumption ==
    /\ Port \subseteq Nat
    /\ Room \in Nat /\ MaxTries \in Nat \ {0}
    /\ none \notin Device \cup Port

VARIABLES
    holding,       \* flows in the list whose hold has not ended
    pc,            \* where the run_flow thread of a flow is
    device, port,  \* flow["device"], flow["port"]
    preempted,     \* flows with flow["preempted"] set
    done,          \* flows with flow["done"] set
    sender,        \* the flow's sender process in the data network
    outcome,       \* run_flow's local `outcome`, the recorded one once closed
    stopper,       \* where the stop_flow thread of a flow is
    tries,         \* attempts it has left
    ports,         \* _ports
    busy           \* busy_devices

flow_vars == <<holding, pc, device, port, preempted, done, sender, outcome, stopper, tries, ports, busy>>

Running == {f \in FlowId : pc[f] \in {"receiving", "sending", "ended", "closing"}}

FlowTypeOK ==
    /\ holding \subseteq FlowId /\ preempted \subseteq FlowId /\ done \subseteq FlowId
    /\ pc \in [FlowId -> {"new", "receiving", "sending", "ended", "closing",
                          "closed", "unstarted"}]
    /\ device \in [FlowId -> Device \cup {none}]
    /\ port \in [FlowId -> Port \cup {none}]
    /\ sender \in [FlowId -> {"none", "alive", "finished", "killed"}]
    /\ outcome \in [FlowId -> {"unmet", "met", "preempted"}]
    /\ stopper \in [FlowId -> {"off", "kill", "check", "over"}]
    /\ tries \in [FlowId -> 0 .. MaxTries]
    /\ ports \subseteq Port
    /\ busy \in [Device -> Nat]

FlowInit ==
    /\ holding = {} /\ preempted = {} /\ done = {}
    /\ pc = [f \in FlowId |-> "new"]
    /\ device = [f \in FlowId |-> none]
    /\ port = [f \in FlowId |-> none]
    /\ sender = [f \in FlowId |-> "none"]
    /\ outcome = [f \in FlowId |-> "unmet"]
    /\ stopper = [f \in FlowId |-> "off"]
    /\ tries = [f \in FlowId |-> MaxTries]
    /\ ports = {}
    /\ busy = [d \in Device |-> 0]

-----------------------------------------------------------------------------
(* decide(), with the lock held: preempt(), then start_flow() *)

\* preempt(): the victims' capacity is free at once, their traffic is told to stop.
Preempt(V) ==
    /\ preempted' = preempted \cup V
    /\ stopper' = [f \in FlowId |-> IF f \in V /\ device[f] # none THEN "kill" ELSE stopper[f]]

LeastBusy(up) == {d \in up : \A e \in up : busy[d] <= busy[e]}
\* (mutants: the ports in use are not looked at; the range is one too long)
FirstFreeOfAll == {p \in Port : \A q \in Port : p <= q}
FirstFreeOneMore ==
    LET free == (Port \cup {p + 1 : p \in Port}) \ ports
    IN {p \in free : \A q \in free : p <= q}
FirstFree == {p \in Port \ ports : \A q \in Port \ ports : p <= q}

\* decide() up to the flow list: f takes the place of the victims V.
Admission(f, V) ==
    /\ pc[f] = "new"
    /\ V \subseteq holding
    /\ Cardinality(holding \ V) < Room
    /\ Preempt(V)

AdmitAndStart(f, V, up) ==
    /\ Admission(f, V)
    /\ \E d \in LeastBusy(up), p \in FirstFree :
          /\ device' = [device EXCEPT ![f] = d]
          /\ port' = [port EXCEPT ![f] = p]
          /\ ports' = ports \cup {p}
          /\ busy' = [busy EXCEPT ![d] = @ + 1]
    /\ holding' = (holding \ V) \cup {f}
    /\ pc' = [pc EXCEPT ![f] = "receiving"]
    /\ UNCHANGED <<done, sender, outcome, tries>>

\* No session can carry it: the capacity is given back immediately.
AdmitWithoutSession(f, V) ==
    /\ Admission(f, V)
    /\ holding' = holding \ V
    /\ pc' = [pc EXCEPT ![f] = "unstarted"]
    /\ UNCHANGED <<device, port, done, sender, outcome, tries, ports, busy>>

\* Every port is taken: next() raises after the flow was put in the list.
AdmitWithoutPort(f, V) ==
    /\ Admission(f, V)
    /\ FirstFree = {}
    /\ holding' = (holding \ V) \cup {f}
    /\ pc' = [pc EXCEPT ![f] = "unstarted"]
    /\ UNCHANGED <<device, port, done, sender, outcome, tries, ports, busy>>

\* expire_flows() drops a flow at its safety net, FLOW_SECONDS + 30.
SafetyNet(f) ==
    /\ f \in holding
    /\ holding' = holding \ {f}
    /\ UNCHANGED <<pc, device, port, preempted, done, sender, outcome, stopper, tries, ports, busy>>

-----------------------------------------------------------------------------
(* run_flow() *)

\* The receiver says READY and the sender starts.
SenderStarts(f) ==
    /\ pc[f] = "receiving"
    /\ pc' = [pc EXCEPT ![f] = "sending"]
    /\ sender' = [sender EXCEPT ![f] = "alive"]
    /\ UNCHANGED <<holding, device, port, preempted, done, outcome, stopper, tries, ports, busy>>

ReceiverFails(f) ==
    /\ pc[f] = "receiving"
    /\ pc' = [pc EXCEPT ![f] = "ended"]
    /\ UNCHANGED <<holding, device, port, preempted, done, sender, outcome, stopper, tries, ports, busy>>

\* The sender is through (or its `timeout -s KILL` ended it, or stop_flow did) and
\* the receiver reports: the rate was met (also by a sender killed over its last
\* packets), or not (short), or the report cannot be read (failed).
ReceiverReports(f) ==
    /\ pc[f] = "sending"
    /\ sender' = [sender EXCEPT ![f] = IF @ = "alive" THEN "finished" ELSE @]
    /\ \E result \in {"unmet", "met"} : outcome' = [outcome EXCEPT ![f] = result]
    /\ pc' = [pc EXCEPT ![f] = "ended"]
    /\ UNCHANGED <<holding, device, port, preempted, done, stopper, tries, ports, busy>>

\* finally: `preempted` is read, and `done` set, before the lock is taken.
Conclude(f) ==
    /\ pc[f] = "ended"
    /\ outcome' = [outcome EXCEPT ![f] = IF f \in preempted THEN "preempted" ELSE @]
    /\ done' = done \cup {f}
    /\ pc' = [pc EXCEPT ![f] = "closing"]
    /\ UNCHANGED <<holding, device, port, preempted, sender, stopper, tries, ports, busy>>

\* (mutants: the device stays busy; the capacity is kept)
CloseKeepingDevice(f) ==
    /\ pc[f] = "closing"
    /\ ports' = ports \ {port[f]}
    /\ holding' = holding \ {f}
    /\ pc' = [pc EXCEPT ![f] = "closed"]
    /\ UNCHANGED <<device, port, preempted, done, sender, outcome, stopper, tries, busy>>
CloseKeepingCapacity(f) ==
    /\ pc[f] = "closing"
    /\ ports' = ports \ {port[f]}
    /\ busy' = [busy EXCEPT ![device[f]] = IF @ > 0 THEN @ - 1 ELSE 0]
    /\ pc' = [pc EXCEPT ![f] = "closed"]
    /\ UNCHANGED <<holding, device, port, preempted, done, sender, outcome, stopper, tries>>

\* With the lock: port, device and capacity are released, the result recorded.
Close(f) ==
    /\ pc[f] = "closing"
    /\ ports' = ports \ {port[f]}
    /\ busy' = [busy EXCEPT ![device[f]] = IF @ > 0 THEN @ - 1 ELSE 0]
    /\ holding' = holding \ {f}
    /\ pc' = [pc EXCEPT ![f] = "closed"]
    /\ UNCHANGED <<device, port, preempted, done, sender, outcome, stopper, tries>>

-----------------------------------------------------------------------------
(* stop_flow() *)

\* The senders `pkill -f "send <device> <port>"` finds.
Matching(f) ==
    {g \in FlowId : sender[g] = "alive" /\ device[g] = device[f] /\ port[g] = port[f]}

Kill(f) ==
    /\ stopper[f] = "kill"
    /\ sender' = [g \in FlowId |-> IF g \in Matching(f) THEN "killed" ELSE sender[g]]
    /\ stopper' = [stopper EXCEPT ![f] = IF Matching(f) # {} THEN "over" ELSE "check"]
    /\ UNCHANGED <<holding, pc, device, port, preempted, done, outcome, tries, ports, busy>>

\* docker does not answer within 10 s: the exception ends the thread.
StopFails(f) ==
    /\ stopper[f] = "kill"
    /\ stopper' = [stopper EXCEPT ![f] = "over"]
    /\ UNCHANGED <<holding, pc, device, port, preempted, done, sender, outcome, tries, ports, busy>>

\* Nothing was killed: give up when the flow is done or after the last attempt.
CheckDone(f) ==
    /\ stopper[f] = "check"
    /\ tries' = [tries EXCEPT ![f] = @ - 1]
    /\ stopper' = [stopper EXCEPT ![f] = IF f \in done \/ tries[f] = 1 THEN "over" ELSE "kill"]
    /\ UNCHANGED <<holding, pc, device, port, preempted, done, sender, outcome, ports, busy>>

-----------------------------------------------------------------------------
RunFlow(f) ==
    SenderStarts(f) \/ ReceiverFails(f) \/ ReceiverReports(f) \/ Conclude(f) \/ Close(f)

StopFlow(f) == Kill(f) \/ StopFails(f) \/ CheckDone(f)

FlowNext ==
    \E f \in FlowId :
        \/ \E V \in SUBSET holding :
              \/ \E up \in SUBSET Device \ {{}} : AdmitAndStart(f, V, up)
              \/ AdmitWithoutSession(f, V)
              \/ AdmitWithoutPort(f, V)
        \/ SafetyNet(f)
        \/ RunFlow(f)
        \/ StopFlow(f)

\* The threads of a flow go on once started: what they wait for is bounded by
\* `timeout -s KILL` inside the containers and by the docker calls' own timeouts.
FlowSpec ==
    /\ FlowInit /\ [][FlowNext]_flow_vars
    /\ \A f \in FlowId : WF_flow_vars(RunFlow(f))

-----------------------------------------------------------------------------
(* Properties *)

\* Two flows under way never share a port: what one receives is its own, also
\* when a pre-empted flow lives on after its capacity was given away.
PortsExclusive == \A f, g \in Running : port[f] = port[g] => f = g

\* The books are right at every moment: a port is taken and a device is busy
\* exactly for the flows under way, whatever was pre-empted or timed out.
BooksBalance ==
    /\ ports = {port[f] : f \in Running}
    /\ \A d \in Device : busy[d] = Cardinality({f \in Running : device[f] = d})

\* In the end nothing is under way: every flow that was started (each FlowId is,
\* at most once) has closed, with its port, its device and its capacity back.
FlowsEnd ==
    <>[](\A f \in FlowId :
            pc[f] \in {"new", "unstarted"} \/ (pc[f] = "closed" /\ f \notin holding))
=============================================================================

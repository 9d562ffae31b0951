------------------------------ MODULE Measurement ------------------------------
(***************************************************************************)
(* How delay and loss are measured: the traffic agent in the UE container  *)
(* (traffic_agent.py) numbers the packets of every device that holds a     *)
(* session, the collector in the slice's data network (kpi_collector.py)   *)
(* tallies what arrives, for its life and for the run under way.           *)
(*                                                                         *)
(* One slice.  A device whose address comes, goes or changes gets a new    *)
(* Device object, numbered from 0 again, under the epoch that the agent    *)
(* drew when it started.  `dropped` and `arrived` are history variables:   *)
(* what really became of the packets.                                      *)
(***************************************************************************)
EXTENDS Naturals, FiniteSets, FiniteSetsExt

CONSTANTS
    Device,
    Address,
    Epoch,         \* 0 .. 255
    MaxSeq,        \* bound on the packets of one Device object
    MaxEvents,     \* bound on what happens around agent and collector
    none

\* A Device object; what the collector keeps of a stream.
Object == [ip: Address, seq: Nat, gen: Nat]
Entry == [first: Nat, last: Nat, received: Nat \ {0}]

ASSUME MeasurementAssumption ==
    /\ IsFiniteSet(Device)
    /\ none \notin Address \cup Object \cup Entry
    /\ MaxSeq \in Nat /\ MaxEvents \in Nat

VARIABLES
    addr,          \* ue_addresses(): what the UE interfaces hold
    override,      \* /tmp/traffic-profile.json: absent, or it disables the slice
    epoch, devs,   \* the agent's EPOCH and devs
    heap,          \* entries a device has in the heap; when they are due is left out
    born,          \* Device objects made so far: `gen` tells them apart
    net,           \* packets under way
    tally,         \* life and run
    dropped, arrived,
    events

agent == <<epoch, devs, heap, born>>
vars == <<addr, override, epoch, devs, heap, born, net, tally, dropped, arrived, events>>

Tallies == {"life", "run"}
Stream == Device \X Epoch
Packet == [dev: Device, epoch: Epoch, seq: Nat, gen: Nat]
KeyOf(p) == <<p.dev, p.epoch>>

-----------------------------------------------------------------------------
(* Tally *)

Empty == [k \in Stream |-> none]

Add(t, p) ==
    [t EXCEPT ![KeyOf(p)] =
        IF @ = none THEN [first |-> p.seq, last |-> p.seq, received |-> 1]
        ELSE [first |-> Min({@.first, p.seq}), last |-> Max({@.last, p.seq}),
              received |-> @.received + 1]]

Heard(t) == {k \in Stream : t[k] # none}
Span(s) == s.last - s.first + 1

\* counts()
Received(t) == MapThenSumSet(LAMBDA k : t[k].received, Heard(t))
Expected(t) == Max({MapThenSumSet(LAMBDA k : Span(t[k]), Heard(t)), Received(t)})

-----------------------------------------------------------------------------
(* The agent *)

\* effective(): an override that is absent, or cannot be parsed yet, changes nothing.
Enabled == override # "off"
Wanted == [d \in Device |-> IF Enabled THEN addr[d] ELSE none]

Gone == {d \in Device : devs[d] # none /\ Wanted[d] # devs[d].ip}

\* Every 2 s.  New devices come with an entry in the heap; those that go leave
\* theirs behind.  A device whose address vanishes before the bind is passed over.
Scan ==
    LET kept == {d \in Device : devs[d] # none} \ Gone
        new == {d \in Device : Wanted[d] # none} \ kept
    IN \E late \in SUBSET new :
          LET made == new \ late
              number == CHOOSE f \in [made -> 1 .. Cardinality(made)] :
                            \A d, e \in made : f[d] = f[e] => d = e
          IN /\ late # {} => events < MaxEvents
             /\ events' = IF late # {} THEN events + 1 ELSE events
             /\ addr' = [d \in Device |-> IF d \in late THEN none ELSE addr[d]]
             /\ devs' = [d \in Device |->
                            IF d \in made
                            THEN [ip |-> addr[d], seq |-> 0, gen |-> born + number[d]]
                            ELSE IF d \in kept THEN devs[d] ELSE none]
             /\ heap' = [d \in Device |-> heap[d] + IF d \in made THEN 1 ELSE 0]
             /\ born' = born + Cardinality(made)
             /\ UNCHANGED <<override, epoch, net, tally, dropped, arrived>>

Due(d) == heap[d] > 0

Packet_of(d) == [dev |-> d, epoch |-> epoch, seq |-> devs[d].seq, gen |-> devs[d].gen]

\* The entry goes back into the heap; the packet is under way.
Send(d) ==
    /\ Due(d) /\ devs[d] # none /\ devs[d].seq < MaxSeq
    /\ net' = net \cup {Packet_of(d)}
    /\ devs' = [devs EXCEPT ![d].seq = @ + 1]
    /\ UNCHANGED <<addr, override, epoch, heap, born, tally, dropped, arrived, events>>

\* (mutants: the number is used up; the entry is not pushed back)
SendFailsCounted(d) ==
    /\ Due(d) /\ devs[d] # none /\ devs[d].seq < MaxSeq
    /\ devs' = [devs EXCEPT ![d].seq = @ + 1]
    /\ UNCHANGED <<addr, override, epoch, heap, born, net, tally, dropped, arrived, events>>
SendFailsForgotten(d) ==
    /\ Due(d) /\ devs[d] # none
    /\ heap' = [heap EXCEPT ![d] = @ - 1]
    /\ UNCHANGED <<addr, override, epoch, devs, born, net, tally, dropped, arrived, events>>

\* An OSError: number and entry stay.
SendFails(d) ==
    /\ Due(d) /\ devs[d] # none
    /\ UNCHANGED vars

\* "removed since it was scheduled"
PopStale(d) ==
    /\ Due(d) /\ devs[d] = none
    /\ heap' = [heap EXCEPT ![d] = @ - 1]
    /\ UNCHANGED <<addr, override, epoch, devs, born, net, tally, dropped, arrived, events>>

-----------------------------------------------------------------------------
(* The network and the collector *)

\* One path per session on one host: packets of a device object keep their order.
Foremost(p) == \A q \in net : q.gen = p.gen => p.seq <= q.seq

Lose(p) ==
    /\ net' = net \ {p}
    /\ dropped' = dropped \cup {p}
    /\ UNCHANGED <<addr, override, agent, tally, arrived, events>>

\* receive_loop(), under the collector's lock
Receive(p) ==
    /\ Foremost(p)
    /\ net' = net \ {p}
    /\ tally' = [t \in Tallies |-> Add(tally[t], p)]
    /\ arrived' = [t \in Tallies |-> arrived[t] \cup {p}]
    /\ UNCHANGED <<addr, override, agent, dropped, events>>

Event == events < MaxEvents /\ events' = events + 1

\* GET /run/start
RunStart ==
    /\ Event
    /\ tally' = [tally EXCEPT !["run"] = Empty]
    /\ arrived' = [arrived EXCEPT !["run"] = {}]
    /\ UNCHANGED <<addr, override, agent, net, dropped>>

-----------------------------------------------------------------------------
(* What happens around them *)

\* A UE loses its session, gets one, or gets another address.
SetAddress(d, a) ==
    /\ Event /\ a # addr[d]
    /\ addr' = [addr EXCEPT ![d] = a]
    /\ UNCHANGED <<override, agent, net, tally, dropped, arrived>>

\* set_profile() of a KPI run
SetProfile(o) ==
    /\ Event /\ o # override
    /\ override' = o
    /\ UNCHANGED <<addr, agent, net, tally, dropped, arrived>>

\* The loop in ue-entrypoint.sh starts the agent again: a new epoch is drawn.
AgentRestart(e) ==
    /\ Event
    /\ epoch' = e
    /\ devs' = [d \in Device |-> none]
    /\ heap' = [d \in Device |-> 0]
    /\ UNCHANGED <<addr, override, born, net, tally, dropped, arrived>>

\* The data-network container stops and starts (a slice that is switched off and on).
CollectorRestart ==
    /\ Event
    /\ tally' = [t \in Tallies |-> Empty]
    /\ arrived' = [t \in Tallies |-> {}]
    /\ dropped' = dropped \cup net /\ net' = {}
    /\ UNCHANGED <<addr, override, agent>>

Init ==
    /\ addr \in [Device -> Address \cup {none}]
    /\ override = "absent"
    /\ epoch \in Epoch
    /\ devs = [d \in Device |-> none]
    /\ heap = [d \in Device |-> 0]
    /\ born = 0
    /\ net = {} /\ dropped = {}
    /\ tally = [t \in Tallies |-> Empty]
    /\ arrived = [t \in Tallies |-> {}]
    /\ events = 0

Next ==
    \/ Scan
    \/ \E d \in Device : Send(d) \/ SendFails(d) \/ PopStale(d)
    \/ \E p \in net : Lose(p) \/ Receive(p)
    \/ RunStart
    \/ \E d \in Device, a \in Address \cup {none} : SetAddress(d, a)
    \/ \E o \in {"absent", "off"} : SetProfile(o)
    \/ \E e \in Epoch : AgentRestart(e)
    \/ CollectorRestart

Spec == Init /\ [][Next]_vars

-----------------------------------------------------------------------------
(* Properties *)

\* The state is well-typed.
TypeOK ==
    /\ addr \in [Device -> Address \cup {none}]
    /\ override \in {"absent", "off"}
    /\ epoch \in Epoch
    /\ devs \in [Device -> Object \cup {none}]
    /\ \A d \in Device : devs[d] # none => devs[d].seq <= MaxSeq
    /\ heap \in [Device -> Nat]
    /\ born \in Nat
    /\ net \subseteq Packet /\ dropped \subseteq Packet
    /\ tally \in [Tallies -> [Stream -> Entry \cup {none}]]
    /\ arrived \in [Tallies -> SUBSET Packet]
    /\ events \in 0 .. MaxEvents

Counted(t, k) == {p \in arrived[t] : KeyOf(p) = k}
OneObject(t, k) == \A p, q \in Counted(t, k) : p.gen = q.gen

\* The loss a tally reports for a device is what was really lost of it, to the
\* packet: nothing lost goes unnoticed between the first and the last packet, and
\* neither a failed send, a run that starts while packets are under way, nor a
\* restart of agent or collector is taken for loss, as long as all the tally holds
\* of a device under one epoch comes from one Device object.
LossIsReal ==
    \A t \in Tallies : \A k \in Heard(tally[t]) :
        OneObject(t, k) =>
            LET s == tally[t][k]
                gens == {p.gen : p \in Counted(t, k)}
            IN Span(s) - s.received =
               Cardinality({p \in dropped : p.gen \in gens /\ s.first < p.seq /\ p.seq < s.last})

\* A device that sends never falls out of the schedule: whatever was removed, added
\* again, or failed to be sent, it has an entry that will come due.
SchedulesKept == \A d \in Device : devs[d] # none => heap[d] > 0
=============================================================================

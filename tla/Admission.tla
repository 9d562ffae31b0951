------------------------------ MODULE Admission ------------------------------
(***************************************************************************)
(* The admission state of the slice orchestrator                           *)
(* (tools/slice-orchestrator/orchestrator.py): the demands that hold       *)
(* capacity, the controller's admission limits, the active switch of every *)
(* slice and the cached measurement of what each slice carries.            *)
(*                                                                         *)
(* Every handler that touches this state runs under one lock, so each is   *)
(* one action: decide() (POST /request), the switch (POST /slices), the    *)
(* controller's step, and the reads that sweep expired demands (GET        *)
(* /state, /metrics).  Rates are naturals: Mbps in a unit small enough for *)
(* every class.                                                            *)
(***************************************************************************)
EXTENDS Integers, FiniteSets

CONSTANTS
    Slice, Class, Subscriber,
    Capacity,      \* [Slice -> Nat]: capacity_mbps
    Latency,       \* [Slice -> Nat]: max_latency_ms a slice promises
    Demands,       \* SUBSET (Subscriber \X Class \X Nat): who asks for what rate
    MaxLatency,    \* [Class -> Nat]: max_latency_ms a class tolerates
    Permitted,     \* [Subscriber -> SUBSET Slice]: the core's subscriber records
    Arp,           \* [Subscriber -> [Slice -> ArpRecord]]
    Spillover,     \* SPILLOVER=1
    Execute,       \* EXECUTE=1: admitted demands become real flows
    Policies,      \* admission policies an instance is started with
    Reserve,       \* [Slice -> Nat]: RESERVE, 0 where none is set
    Exempt,        \* SUBSET Class: RESERVE_EXEMPT
    Value,         \* [Class -> Nat]: CLASS_VALUE
    Price(_, _),   \* psi(in_use / limit), the threshold price at that load
    Throttle,      \* SUBSET Slice: CONTROL_THROTTLE
    Floor,         \* [Slice -> Nat]: CONTROL_FLOOR * capacity
    Loads,         \* SUBSET [Slice -> Nat]: readings Prometheus may return
    Slots          \* admission order of the demands held at one time

ArpRecord == [priority: Nat, may_preempt: BOOLEAN, preemptable: BOOLEAN]

ASSUME SliceAssumption ==
    /\ Capacity \in [Slice -> Nat]
    /\ Latency \in [Slice -> Nat]
    /\ Reserve \in [Slice -> Nat]
    /\ Floor \in [Slice -> Nat]
    /\ \A s \in Slice : Floor[s] <= Capacity[s]
    /\ Loads \subseteq [Slice -> Nat]
    /\ Throttle \subseteq Slice
ASSUME DemandAssumption ==
    /\ Demands \subseteq Subscriber \X Class \X Nat
    /\ MaxLatency \in [Class -> Nat]
    /\ Value \in [Class -> Nat]
    /\ Exempt \subseteq Class
    /\ Permitted \in [Subscriber -> SUBSET Slice]
    /\ Arp \in [Subscriber -> [Slice -> ArpRecord]]
    /\ Slots \subseteq Nat
    /\ {Spillover, Execute} \subseteq BOOLEAN
    /\ Policies \subseteq {"greedy", "reservation", "pricing"}

VARIABLES
    flows,         \* the demands in the list `flows`
    limits,        \* the controller's limit; Capacity where it has set none
    active,        \* the network orchestrator's switch
    measured,      \* _measured["by_slice"], 0 where a slice has no series
    measured_ok,   \* _measured["ok"]
    policy         \* ADMISSION_POLICY, read when the process starts

vars == <<flows, limits, active, measured, measured_ok, policy>>

\* `held` is expires > now; `at` orders the flows as admitted_at does.
Flow == [at: Slots, supi: Subscriber, cls: Class, mbps: Nat, slice: Slice,
         arp: ArpRecord, held: BOOLEAN]

Idle == [s \in Slice |-> 0]

-----------------------------------------------------------------------------
(* What counts against a slice *)

\* One unit for every Mbps a flow holds: their number is the sum of the rates.
Units(F) == UNION {{f} \X (1 .. f.mbps) : f \in F}
Load(F) == Cardinality(Units(F))
On(F, s) == {f \in F : f.slice = s}
Allocated(F, s) == Load(On(F, s))
Unexpired(F) == {f \in F : f.held}
Larger(x, y) == IF x >= y THEN x ELSE y
Smaller(x, y) == IF x <= y THEN x ELSE y
\* (mutant: what was admitted and has not shown up in the measurement is free)
InUseMeasured(F, m, s) == m[s]
InUse(F, m, s) == Larger(Allocated(F, s), m[s])
Limit(s) == Smaller(Capacity[s], limits[s])

\* measured_mbps(): the cached reading m, a fresh one, or a query that failed.
Measure(m) ==
    \/ m = measured /\ UNCHANGED <<measured, measured_ok>>
    \/ m \in Loads /\ measured' = m /\ measured_ok' = TRUE
    \/ m = measured /\ UNCHANGED measured /\ measured_ok' = FALSE

Readings == Loads \cup {measured}

-----------------------------------------------------------------------------
(* The steps of decide() *)

\* The active slices good enough for the class; unless demands may spill over,
\* only those with the loosest guarantee.
Fitting(supi, cls) ==
    LET adequate == {s \in Permitted[supi] : active[s] /\ Latency[s] <= MaxLatency[cls]}
    IN {s \in adequate : Spillover \/ \A t \in adequate : Latency[t] <= Latency[s]}

\* (mutant: the policy capacity, not the limit the controller set)
RoomyToCapacity(F, m, S, need) == {s \in S : InUse(F, m, s) + need <= Capacity[s]}
Roomy(F, m, S, need) == {s \in S : InUse(F, m, s) + need <= Limit(s)}

\* (mutant: the reserve is compared with the room before the demand takes its part)
AllowsBefore(F, m, s, cls, need) ==
    cls \in Exempt \/ Limit(s) - InUse(F, m, s) >= Reserve[s]
AdmissionAllows(F, m, s, cls, need) ==
    CASE policy = "greedy" -> TRUE
      [] policy = "reservation" ->
            cls \in Exempt \/ Limit(s) - InUse(F, m, s) - need >= Reserve[s]
      [] policy = "pricing" -> Value[cls] >= Price(InUse(F, m, s), Limit(s))

Kept(F, m, S, cls, need) ==
    {s \in Roomy(F, m, S, need) : AdmissionAllows(F, m, s, cls, need)}

\* (mutant: an equal priority is enough)
PreemptableEqual(F, s, arp) ==
    {f \in On(F, s) : f.arp.preemptable /\ f.arp.priority >= arp.priority}
Preemptable(F, s, arp) ==
    {f \in On(F, s) : f.arp.preemptable /\ f.arp.priority > arp.priority}

\* Lowest priority first, newest first within a level.
StopsBefore(f, g) ==
    \/ f.arp.priority > g.arp.priority
    \/ f.arp.priority = g.arp.priority /\ f.at > g.at

FitsWithout(F, m, s, V, need) ==
    Larger(Allocated(F, s) - Load(V), m[s] - Load(V)) + need <= Limit(s)

\* (mutant: everyone who can be stopped is)
VictimsAll(F, m, s, arp, need) ==
    {V \in {Preemptable(F, s, arp)} : arp.may_preempt /\ FitsWithout(F, m, s, V, need)}

\* The victims a demand may stop on s, taken in that order: none if it may not
\* pre-empt or stopping all would not be enough, else the one shortest run.
Victims(F, m, s, arp, need) ==
    LET cands == Preemptable(F, s, arp)
        runs == {V \in SUBSET cands : \A f \in V, g \in cands : StopsBefore(g, f) => g \in V}
        enough == {V \in runs : FitsWithout(F, m, s, V, need)}
    IN IF arp.may_preempt THEN {V \in enough : \A W \in enough : V \subseteq W} ELSE {}

\* The slice with the most room among the loosest.
Roomiest(F, m, S) ==
    {s \in S : \A t \in S :
        \/ Latency[t] < Latency[s]
        \/ /\ Latency[t] = Latency[s]
           /\ Limit(t) - InUse(F, m, t) <= Limit(s) - InUse(F, m, s)}

\* Where stopping victims costs the least rate, the loosest slice on a tie.
Cheapest(options) ==
    {o \in options : \A p \in options :
        \/ Load(o.victims) < Load(p.victims)
        \/ Load(o.victims) = Load(p.victims) /\ Latency[o.slice] >= Latency[p.slice]}

PreemptOptions(F, m, supi, cls, need) ==
    UNION {{[slice |-> s, victims |-> V] : V \in Victims(F, m, s, Arp[supi][s], need)} :
             s \in Fitting(supi, cls)}

\* The position of the demand admitted next to the demands in F.
Next_at(F) == {a \in Slots :
    /\ \A f \in F : f.at < a
    /\ \A b \in Slots : (\A f \in F : f.at < b) => a <= b}

\* A flow that no device session can carry (EXECUTE=1) gives its capacity back
\* at once: it stays in the list with its hold already ended.
Admit(F, victims, supi, cls, need, s) ==
    \E at \in Next_at(flows), started \in {TRUE, ~Execute} :
        flows' = (F \ victims) \cup
            {[at |-> at, supi |-> supi, cls |-> cls, mbps |-> need, slice |-> s,
              arp |-> Arp[supi][s], held |-> started]}

-----------------------------------------------------------------------------
(* The actions *)

Init ==
    /\ flows = {}
    /\ limits = Capacity
    /\ active = [s \in Slice |-> TRUE]
    /\ measured = Idle
    /\ measured_ok = FALSE
    /\ policy \in Policies

\* decide(): a slice has room and the policy lets this class have it.
DecideAdmit(supi, cls, need) ==
    \E m \in Readings :
        LET F == Unexpired(flows)
        IN /\ Measure(m)
           /\ \E s \in Roomiest(F, m, Kept(F, m, Fitting(supi, cls), cls, need)) :
                 Admit(F, {}, supi, cls, need, s)
    /\ UNCHANGED <<limits, active, policy>>

\* decide(): every slice is full; lower-priority demands make way on one.
DecidePreempt(supi, cls, need) ==
    \E m \in Readings :
        LET F == Unexpired(flows)
        IN /\ Measure(m)
           /\ Roomy(F, m, Fitting(supi, cls), need) = {}
           /\ \E o \in Cheapest(PreemptOptions(F, m, supi, cls, need)) :
                 Admit(F, o.victims, supi, cls, need, o.slice)
    /\ UNCHANGED <<limits, active, policy>>

\* decide(): no slice will do (unknown, not permitted, not active, too slow),
\* or the policy holds the room back, or the slices are full.
DecideRefuse(supi, cls, need) ==
    /\ flows' = Unexpired(flows)
    /\ \/ Fitting(supi, cls) = {} /\ UNCHANGED <<measured, measured_ok>>
       \/ \E m \in Readings :
             /\ Measure(m)
             /\ Roomy(flows', m, Fitting(supi, cls), need) # {}
             /\ Kept(flows', m, Fitting(supi, cls), cls, need) = {}
       \/ \E m \in Readings :
             /\ Fitting(supi, cls) # {}
             /\ Measure(m)
             /\ Roomy(flows', m, Fitting(supi, cls), need) = {}
             /\ PreemptOptions(flows', m, supi, cls, need) = {}
    /\ UNCHANGED <<limits, active, policy>>

\* (mutant: the flow that ended is left in the list as well)
HoldEndsTwice(f) ==
    /\ f.held
    /\ flows' = flows \cup {[f EXCEPT !.held = FALSE]}
    /\ UNCHANGED <<limits, active, measured, measured_ok, policy>>

\* A demand's hold runs out, or its executed traffic ends (run_flow).
HoldEnds(f) ==
    /\ f.held
    /\ flows' = (flows \ {f}) \cup {[f EXCEPT !.held = FALSE]}
    /\ UNCHANGED <<limits, active, measured, measured_ok, policy>>

\* GET /state and /metrics drop what has expired; a full reading of the slices.
Sweep ==
    /\ flows' = Unexpired(flows)
    /\ \E m \in Readings : Measure(m)
    /\ UNCHANGED <<limits, active, policy>>

\* POST /slices.  It answers with the demands it finds and expires none.
SetActive(s, b) ==
    /\ active' = [active EXCEPT ![s] = b]
    /\ UNCHANGED <<flows, limits, measured, measured_ok, policy>>

\* control_step(): whatever the law, the limit of every throttled slice lands
\* between floor and ceiling (module Controller shows that each law does this).
ControlStep ==
    LET band(s) == IF s \in Throttle THEN Floor[s] .. Capacity[s] ELSE {limits[s]}
    IN /\ flows' = Unexpired(flows)
       /\ \E m \in Readings : Measure(m)
       /\ limits' \in {l \in [Slice -> UNION {band(s) : s \in Slice}] :
                            \A s \in Slice : l[s] \in band(s)}
       /\ UNCHANGED <<active, policy>>

\* The process is restarted: it keeps nothing, and admits on every slice.
Restart ==
    /\ flows' = {}
    /\ limits' = Capacity
    /\ active' = [s \in Slice |-> TRUE]
    /\ measured' = Idle
    /\ measured_ok' = FALSE
    /\ policy' \in Policies

Decide ==
    \E d \in Demands :
        \/ DecideAdmit(d[1], d[2], d[3])
        \/ DecidePreempt(d[1], d[2], d[3])
        \/ DecideRefuse(d[1], d[2], d[3])

Next ==
    \/ Decide
    \/ \E f \in flows : HoldEnds(f)
    \/ Sweep
    \/ \E s \in Slice, b \in BOOLEAN : SetActive(s, b)
    \/ ControlStep
    \/ Restart

Spec == Init /\ [][Next]_vars

-----------------------------------------------------------------------------
(* Properties *)

\* The state is well-typed, and every demand holds a position of its own.
TypeOK ==
    /\ flows \subseteq Flow
    /\ \A f, g \in flows : f.at = g.at => f = g
    /\ limits \in [Slice -> Nat]
    /\ active \in [Slice -> BOOLEAN]
    /\ measured \in [Slice -> Nat]
    /\ measured_ok \in BOOLEAN
    /\ policy \in Policies

\* What is admitted onto a slice never adds up to more than its policy
\* capacity, whatever the controller, pre-emption or a restart did before.
CapacityRespected == \A s \in Slice : Allocated(flows, s) <= Capacity[s]

New == {g \in flows' : ~\E f \in flows : f.at = g.at}
Stopped == {f \in flows : f.held /\ ~\E g \in flows' : g.at = f.at}

\* No demand is admitted above the limit of the moment: what its slice was
\* admitted to and measured to carry, less what was stopped for it, leaves room.
AdmittedWithinLimit ==
    [][\A g \in New : g.held => 
          Larger(Allocated(flows', g.slice),
                 measured'[g.slice] - Load(Stopped) + g.mbps) <= Limit(g.slice)]_vars

\* A demand that still holds capacity loses it only to a demand on the same
\* slice that may pre-empt and ranks strictly higher (TS 23.501 5.7.2.2).
PreemptedOnlyByHigherPriority ==
    [][flows' # {} => \A f \in Stopped : \E g \in New :
          /\ g.slice = f.slice
          /\ g.arp.may_preempt
          /\ f.arp.preemptable
          /\ g.arp.priority < f.arp.priority]_vars

\* Pre-emption stops the lowest priority first and the newest first within a
\* level, and not one demand more than it takes: with the last of its victims
\* still there the new demand would not have fitted.
PreemptionTakesTheLeast ==
    [][\A f \in Stopped, g \in New : 
          /\ \A k \in Preemptable(Unexpired(flows), f.slice, g.arp) :
                StopsBefore(k, f) => k \in Stopped
          /\ (\A h \in Stopped : ~StopsBefore(f, h)) =>
                ~FitsWithout(Unexpired(flows), measured', f.slice, Stopped \ {f}, g.mbps)]_vars

\* Trunk reservation: whatever order demands come and go in, those of the
\* classes that are not exempt never eat into the reserve of a slice -- except when
\* their subscriber may pre-empt: room made by pre-emption is not compared with the reserve.
ReserveKept ==
    policy = "reservation" =>
        \A s \in Slice :
            LET ordinary == {f \in On(flows, s) : f.cls \notin Exempt /\ ~f.arp.may_preempt}
            IN ordinary # {} => Load(ordinary) + Reserve[s] <= Capacity[s]
=============================================================================

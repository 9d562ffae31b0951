------------------------------ MODULE ClosedLoop ------------------------------
(***************************************************************************)
(* The closed loop of the network orchestrator in time: auto_tick() with   *)
(* its idle time, minimum time up and learned period, over GET /plan of    *)
(* the slice orchestrator and one on-demand slice, Mine.  (SliceLifecycle  *)
(* has the operations' steps and the races between them; here an operation *)
(* is one span of time.)                                                   *)
(*                                                                         *)
(* The unit of time is AUTO_INTERVAL: one tick in each unit, everything    *)
(* else before it.  Demands come in a rhythm, a burst every `period` units *)
(* as in simulate_autoscale.py, or at any time when period = 0.            *)
(***************************************************************************)
EXTENDS Planning

CONSTANTS
    Class, Rate, Latency,       \* [Class -> Nat]: thousandths of a Mbps; milliseconds
    Slices, Mine,               \* [name -> [latency, capacity]]; the on-demand slice
    Hold,                       \* how long a demand holds its rate
    PLAN_WINDOW, IDLE_SECONDS, MIN_UP, ACTIVATE_LEAD, \* in units, like all times here
    Takes,                      \* [operation -> Nat]: the longest it takes
    Periods, Burst,             \* rhythms explored (0: none), demands in a burst
    KEEP,                       \* onsets remembered
    MaxTime, FreeTime,          \* how far a rhythm is followed, and a run without one
    MaxArrivals, MaxEvents,     \* demands outside a rhythm; faults and operations by hand
    never

ASSUME ClosedLoopAssumption ==
    /\ Mine \in DOMAIN Slices /\ IsFiniteSet(Class)
    /\ Rate \in [Class -> Nat] /\ Latency \in [Class -> Nat]
    /\ {Hold, IDLE_SECONDS, MIN_UP, ACTIVATE_LEAD, Burst, MaxTime, FreeTime,
       MaxArrivals, MaxEvents}
          \subseteq Nat
    /\ PLAN_WINDOW \in Nat \ {0} /\ KEEP \in Nat \ {0}
    /\ Takes \in [{"activate", "deactivate", "scale"} -> Nat \ {0}]
    /\ Periods \subseteq Nat /\ never \notin Nat

VARIABLES
    now, period,
    log,            \* demand_log of the slice orchestrator, as far as the window reaches
    state,          \* what observe() says of the slice
    op, until,      \* the running operation, and when it ends
    enabled,        \* loop["enabled"]
    onsets, prev_need, last_need, \* of loop
    last_change,    \* as the service remembers it
    changed,        \* history: when the slice really changed
    demanded,       \* history: when a demand on Mine came last that the plan shows
    steady,         \* history: since when the loop has been on, with every tick answered
    wanted,         \* history: since when every tick has found Mine needed
    touched,        \* history: the last operation by hand, or failed activation
    arrivals, events

service == <<enabled, onsets, prev_need, last_need, last_change>>
vars == <<now, period, log, state, op, until, enabled, onsets, prev_need, last_need,
          last_change, changed, demanded, steady, wanted, touched, arrivals, events>>

Event == period = 0 /\ events < MaxEvents /\ events' = events + 1

-----------------------------------------------------------------------------
(* The slice orchestrator *)

Home(c) == CheapestAdequate(Slices, Latency[c])

\* A demand is logged whether it is admitted or refused; what the window no longer reaches
\* is left out of the state.  The order of the entries matters to nothing; demands of one class
\* at one time are numbered.
Logged(c) ==
    LET reached == {e \in log : e.t + PLAN_WINDOW >= now}
        before == {e \in reached : e.t = now /\ e.class = c}
    IN reached \cup {[t |-> now, class |-> c, nth |-> Cardinality(before) + 1]}

\* GET /plan?window=...: the demand on Mine.
Demand ==
    LET of(c) == Observed(log, c, Rate[c], Hold, PLAN_WINDOW, now)
    IN MapThenSumSet(of, {c \in Class : Home(c) = {Mine}})

Needed == AboveZero(Demand)

-----------------------------------------------------------------------------
(* auto_tick() *)

\* gaps[len(gaps) // 2] of the sorted gaps.
Median(gaps) ==
    LET smaller(g) == Cardinality({i \in DOMAIN gaps : gaps[i] < g})
        upto(g) == Cardinality({i \in DOMAIN gaps : gaps[i] <= g})
        half == Len(gaps) \div 2
    IN CHOOSE g \in {gaps[i] : i \in DOMAIN gaps} : smaller(g) <= half /\ half < upto(g)

\* next_onset(): never until three onsets were seen.
NextOnset(on) ==
    IF Len(on) < 3 THEN never
    ELSE on[Len(on)] + Median([i \in 1 .. Len(on) - 1 |-> on[i + 1] - on[i]])

Latest(s) == IF Len(s) > KEEP THEN SubSeq(s, Len(s) - KEEP + 1, Len(s)) ELSE s

DueSoon(nxt) == nxt # never /\ now + ACTIVATE_LEAD >= nxt /\ now < nxt + IDLE_SECONDS

Settled == last_change = never \/ now - last_change >= MIN_UP

\* (mutants: the minimum time up is not asked for; nor is the time without demand; the
\* prediction is not followed; a demand counts in the tick that sees it begin only)
DecisionHasty(needed, seen, due) ==
    CASE state = "DORMANT" /\ (needed \/ due) -> "activate"
      [] state = "ACTIVE" /\ ~needed /\ ~due /\ now - seen >= IDLE_SECONDS -> "deactivate"
      [] OTHER -> "none"
DecisionAtOnce(needed, seen, due) ==
    CASE state = "DORMANT" /\ (needed \/ due) -> "activate"
      [] state = "ACTIVE" /\ ~needed /\ ~due /\ Settled -> "deactivate"
      [] OTHER -> "none"
DecisionReactive(needed, seen, due) ==
    CASE state = "DORMANT" /\ needed -> "activate"
      [] state = "ACTIVE" /\ ~needed /\ now - seen >= IDLE_SECONDS /\ Settled -> "deactivate"
      [] OTHER -> "none"

DecisionAtOnset(needed, seen, due) ==
    CASE state = "DORMANT" /\ ((needed /\ ~prev_need) \/ due) -> "activate"
      [] state = "ACTIVE" /\ ~needed /\ ~due /\ now - seen >= IDLE_SECONDS /\ Settled -> "deactivate"
      [] OTHER -> "none"

Decision(needed, seen, due) ==
    CASE state = "DORMANT" /\ (needed \/ due) -> "activate"
      [] state = "ACTIVE" /\ ~needed /\ ~due /\ now - seen >= IDLE_SECONDS /\ Settled -> "deactivate"
      [] OTHER -> "none"

\* submit(): refused while an operation runs; it takes up to Takes[kind] units.
Submit(kind) ==
    IF kind = "none" \/ op # "none" THEN UNCHANGED <<op, until, state>>
    ELSE /\ op' = kind
         /\ \E d \in 1 .. Takes[kind] : until' = now + d
         /\ state' = CASE kind = "activate" -> "ACTIVATING"
                       [] kind = "deactivate" -> "DEACTIVATING"
                       [] kind = "scale" -> "SCALING"

TimePasses == now' = now + 1 /\ UNCHANGED <<period, log, changed, demanded, wanted, touched, arrivals>>

\* Everything due before the tick has happened.
Ready ==
    /\ now < IF period > 0 THEN MaxTime ELSE FreeTime
    /\ op # "none" => until > now
    /\ period > 0 /\ now % period = 0 => arrivals = Burst

Tick ==
    /\ Ready /\ enabled
    /\ LET on == IF Needed /\ ~prev_need THEN Latest(Append(onsets, now)) ELSE onsets
           seen == IF Needed \/ last_need = never THEN now ELSE last_need
           kind == Decision(Needed, seen, DueSoon(NextOnset(on)))
       IN /\ onsets' = on /\ prev_need' = Needed /\ last_need' = seen
          /\ wanted' = IF ~Needed THEN never ELSE IF wanted = never THEN now ELSE wanted
          /\ Submit(kind)
    /\ now' = now + 1
    /\ arrivals' = IF period > 0 THEN 0 ELSE arrivals
    /\ UNCHANGED <<period, log, changed, demanded, steady, touched, enabled, last_change, events>>

\* GET /plan has no answer: the tick ends at once.
TickBlind ==
    /\ Ready /\ enabled /\ Event
    /\ steady' = now + 1
    /\ TimePasses
    /\ UNCHANGED <<state, op, until, service>>

TickOff ==
    /\ Ready /\ ~enabled
    /\ TimePasses
    /\ UNCHANGED <<state, op, until, service, steady, events>>

-----------------------------------------------------------------------------
(* The environment *)

Demanded(c) ==
    /\ log' = Logged(c)
    /\ arrivals' = arrivals + 1
    /\ UNCHANGED <<now, period, state, op, until, service, changed, steady, wanted, touched, events>>
    /\ demanded' = IF Home(c) = {Mine} /\ Needed' THEN now ELSE demanded

Arrive(c) == period = 0 /\ arrivals < MaxArrivals /\ Demanded(c)

\* A burst of the rhythm, which Mine alone is to serve.
Beat(c) ==
    /\ period > 0 /\ now % period = 0 /\ arrivals < Burst /\ now < MaxTime
    /\ Home(c) = {Mine}
    /\ Demanded(c)

\* An operation by hand.
Operate(kind) ==
    /\ op = "none" /\ Event
    /\ kind = "activate" => state = "DORMANT"
    /\ kind # "activate" => state = "ACTIVE"
    /\ Submit(kind)
    /\ touched' = now
    /\ UNCHANGED <<now, period, log, service, changed, demanded, steady, wanted, arrivals>>

\* POST /auto
Toggle ==
    /\ Event
    /\ enabled' = ~enabled
    /\ steady' = now
    /\ UNCHANGED <<now, period, log, state, op, until, onsets, prev_need, last_need, last_change,
                   changed, demanded, wanted, touched, arrivals>>

\* The service comes back with nothing but NETORCH_AUTO=1; an operation under way is cut
\* short, here after all of its work.
Restart ==
    /\ op = "none" /\ Event
    /\ enabled' = TRUE /\ onsets' = <<>> /\ prev_need' = FALSE
    /\ last_need' = never /\ last_change' = never
    /\ steady' = now
    /\ UNCHANGED <<now, period, log, state, op, until, changed, demanded, wanted, touched, arrivals>>

\* _finish(): a completed change is remembered, a failed one is not; a failed activation
\* that was rolled back is.
Completes ==
    /\ op # "none" /\ until = now
    /\ op' = "none" /\ until' = never
    /\ state' = IF op = "deactivate" THEN "DORMANT" ELSE "ACTIVE"
    /\ last_change' = now
    /\ changed' = now
    /\ UNCHANGED <<now, period, log, enabled, onsets, prev_need, last_need, demanded, steady,
                   wanted, touched, arrivals, events>>

RollsBack ==
    /\ op = "activate" /\ until = now /\ Event
    /\ op' = "none" /\ until' = never
    /\ state' = "DORMANT"
    /\ last_change' = now
    /\ changed' = now /\ touched' = now
    /\ UNCHANGED <<now, period, log, enabled, onsets, prev_need, last_need, demanded, steady,
                   wanted, arrivals>>

Init ==
    /\ now = 0 /\ period \in Periods /\ log = {}
    /\ state \in {"ACTIVE", "DORMANT"}
    /\ op = "none" /\ until = never
    /\ enabled = TRUE /\ onsets = <<>> /\ prev_need = FALSE
    /\ last_need = never /\ last_change = never
    /\ changed = never /\ demanded = never /\ wanted = never /\ steady = 0 /\ touched = 0
    /\ arrivals = 0 /\ events = 0

Next ==
    \/ Tick \/ TickBlind \/ TickOff
    \/ \E c \in Class : Arrive(c) \/ Beat(c)
    \/ \E kind \in {"activate", "deactivate", "scale"} : Operate(kind)
    \/ Toggle \/ Restart \/ Completes \/ RollsBack

Spec == Init /\ [][Next]_vars

-----------------------------------------------------------------------------
(* Properties *)

\* The state is well-typed; every time remembered has passed.
TypeOK ==
    /\ now \in 0 .. MaxTime /\ period \in Periods
    /\ log \subseteq [t: 0 .. now, class: Class, nth: Nat \ {0}]
    /\ state \in {"ACTIVE", "DORMANT", "ACTIVATING", "DEACTIVATING", "SCALING"}
    /\ op \in {"none", "activate", "deactivate", "scale"}
    /\ until \in (now .. MaxTime + Takes[IF op = "none" THEN "scale" ELSE op]) \cup {never}
    /\ enabled \in BOOLEAN /\ prev_need \in BOOLEAN
    /\ Len(onsets) <= KEEP
    /\ \A i \in DOMAIN onsets : onsets[i] < now /\ (i > 1 => onsets[i] > onsets[i - 1])
    /\ {last_need, last_change, changed, demanded, wanted} \subseteq (0 .. now) \cup {never}
    /\ steady \in 0 .. now /\ touched \in 0 .. now

SwitchedOff == now' > now /\ op = "none" /\ op' = "deactivate"

\* "Never within MIN_UP of its last change": also across a restart of the service, which
\* forgets the change, as long as IDLE_SECONDS is not shorter than MIN_UP.
MinUpKept ==
    [][(SwitchedOff /\ IDLE_SECONDS >= MIN_UP) => changed = never \/ now - changed >= MIN_UP]_vars

\* "Deactivated after IDLE_SECONDS with no demand": none came in that time, whatever was
\* learned or forgotten, since the loop has been on and its plan answered.
SwitchedOffIdle ==
    [][SwitchedOff => \/ demanded = never \/ now - demanded >= IDLE_SECONDS
                      \/ demanded < steady]_vars

\* Once the period is known the slice is up when the next burst begins, unless it was still
\* going down when the lead began: the lead is longer than an activation and a tick, not
\* than a deactivation as well.
UpInTime ==
    [][(period > 0 /\ Len(onsets) >= 3 /\ arrivals' > arrivals) =>
          \/ state = "ACTIVE"
          \/ changed # never /\ now - changed < ACTIVATE_LEAD]_vars

\* A demand that lasts is served, wherever an operation under way has the slice when it
\* begins: with the loop on and answered since, and nobody interfering, the slice is up as
\* soon as a deactivation and an activation have had their time.
Follows ==
    (/\ enabled /\ wanted # never /\ steady <= wanted /\ touched <= wanted
     /\ now - wanted > Takes["deactivate"] + Takes["activate"])
        => state = "ACTIVE"
=============================================================================

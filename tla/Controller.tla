------------------------------ MODULE Controller ------------------------------
(***************************************************************************)
(* The feedback controller of the slice orchestrator (control_step() and   *)
(* its four laws): every CONTROL_INTERVAL it sets the admission limit of a *)
(* throttled slice from the protected slice's latency, the load and the    *)
(* share of flows that fell short of their rate.  The slices it throttles  *)
(* are independent of each other: this is one of them.                     *)
(*                                                                         *)
(* Rates are hundredths of a Mbps, what round(new, 2) keeps; latencies are *)
(* tenths of a millisecond; fractions of the ceiling are percentages.      *)
(***************************************************************************)
EXTENDS Integers, FiniteSets

CONSTANTS
    Laws,          \* CONTROL_POLICY: subset of {"aimd", "pi", "mpc", "ucb"}
    Ceiling,       \* capacity_mbps
    FloorShare,    \* CONTROL_FLOOR
    Budget,        \* max_latency_ms of CONTROL_PROTECT
    Readings,      \* latencies Prometheus may return
    Uses,          \* what in_use() may be: above the limit too
    Models,        \* best limits the fitted load model of mpc may name
    HoldSteps,     \* CONTROL_HOLD in steps
    DwellSteps,    \* UCB_DWELL in steps
    Arms,          \* UCB_ARMS, listed from the lowest share of the ceiling up
    none

ASSUME ControllerAssumption ==
    /\ Laws \subseteq {"aimd", "pi", "mpc", "ucb"}
    /\ Ceiling \in Nat /\ Budget \in Nat \ {0}
    /\ FloorShare \in 0 .. 100
    /\ Readings \subseteq Nat /\ Uses \subseteq Nat /\ Models \subseteq Nat
    /\ HoldSteps \in Nat \ {0} /\ DwellSteps \in Nat \ {0}
    /\ Arms \subseteq 0 .. 100 /\ Arms # {}
    /\ none \notin Nat

VARIABLES
    law,           \* read when the process starts
    limit,         \* limits[name]
    latency,       \* control["latency_ms"], none when unknown
    short,         \* sr > CONTROL_SHORT_MAX at the last step
    use,           \* in_use() at the last step
    since_cut,     \* steps since last_cut, HoldSteps and more alike
    prev,          \* pi: the reading before, none at first
    samples,       \* mpc: n, 4 and more alike
    arm, since, tried, scored, \* ucb: arm held (none at first), for how long,
                               \* arms with n > 0, acc is not empty
    fell           \* history: steps since the limit last fell, HoldSteps and more alike

controller_vars == <<law, limit, latency, short, use, since_cut, prev, samples, arm, since, tried, scored, fell>>
laws == <<since_cut, prev, samples, arm, since, tried, scored>>
ucb == <<arm, since, tried, scored>>

Larger(x, y) == IF x >= y THEN x ELSE y
Smaller(x, y) == IF x <= y THEN x ELSE y
Share(percent) == (percent * Ceiling) \div 100
Floor == Share(FloorShare)
Clamp(x) == Smaller(Ceiling, Larger(Floor, x))

\* _bounded(): at most CONTROL_MAX_STEP of the ceiling per step.
Bounded(cur, target) == Larger(cur - Share(30), Smaller(cur + Share(30), target))

\* Demand presses on the limit: in_use >= 0.8 of it.
Pressing(cur, u) == 10 * u >= 8 * cur

-----------------------------------------------------------------------------
(* The four laws: the limit asked for, and what they remember *)

\* Hot or short: cut from the operating point, once per CONTROL_HOLD.
\* (mutant: the time of the cut is not kept)
CuttingUnrecorded(cur, l, sh, u) ==
    /\ (l # none /\ 10 * l > 8 * Budget) \/ sh
    /\ limit' = IF since_cut < HoldSteps THEN cur
                ELSE Larger(Floor, (7 * Smaller(cur, u)) \div 10)
    /\ since_cut' = Smaller(since_cut + 1, HoldSteps)

Cutting(cur, l, sh, u) ==
    /\ (l # none /\ 10 * l > 8 * Budget) \/ sh
    /\ IF since_cut < HoldSteps
       THEN limit' = cur /\ since_cut' = since_cut + 1
       ELSE limit' = Larger(Floor, (7 * Smaller(cur, u)) \div 10) /\ since_cut' = 1

\* (mutant: the additive step is taken past the ceiling)
ProbingPast(cur, l, sh, u) ==
    /\ l # none /\ 10 * l < 5 * Budget /\ ~sh
    /\ Pressing(cur, u)
    /\ limit' = cur + Share(5)
    /\ since_cut' = Smaller(since_cut + 1, HoldSteps)

Probing(cur, l, sh, u) ==
    /\ l # none /\ 10 * l < 5 * Budget /\ ~sh
    /\ Pressing(cur, u) /\ cur < Ceiling
    /\ limit' = Smaller(Ceiling, cur + Share(5))
    /\ since_cut' = Smaller(since_cut + 1, HoldSteps)

Holding(cur, l, sh, u) ==
    /\ ~((l # none /\ 10 * l > 8 * Budget) \/ sh)
    /\ ~(l # none /\ 10 * l < 5 * Budget /\ Pressing(cur, u) /\ cur < Ceiling)
    /\ limit' = cur
    /\ since_cut' = Smaller(since_cut + 1, HoldSteps)

Aimd(cur, l, sh, u) ==
    /\ law = "aimd"
    /\ Cutting(cur, l, sh, u) \/ Probing(cur, l, sh, u) \/ Holding(cur, l, sh, u)
    /\ UNCHANGED <<prev, samples, ucb>>

\* The guard of the newer laws: flows are short, so the limit is above what the
\* host carries; then the floor and the ceiling.
Guarded(new, sh, u) ==
    Clamp(IF sh /\ 100 * new > 85 * u THEN Larger(Floor, (85 * u) \div 100) ELSE new)

\* -ceiling * (0.15 (L - 0.65 budget) + 0.3 (L - prev)) / budget
Delta(l) ==
    LET before == IF prev = none THEN l ELSE prev
    IN (-Ceiling * (15 * (100 * l - 65 * Budget) + 3000 * (l - before))) \div (10000 * Budget)

\* (mutants: the change is remembered in place of the reading; no anti-windup)
PiKeepsDelta(cur, l, sh, u) ==
    /\ law = "pi"
    /\ IF l = none THEN limit' = Guarded(cur, sh, u) /\ UNCHANGED prev
       ELSE /\ prev' = Delta(l)
            /\ limit' = Guarded(IF Delta(l) > 0 /\ ~Pressing(cur, u) THEN cur
                                ELSE Bounded(cur, cur + Delta(l)), sh, u)
    /\ UNCHANGED <<since_cut, samples, ucb>>
PiWindsUp(cur, l, sh, u) ==
    /\ law = "pi"
    /\ IF l = none THEN limit' = Guarded(cur, sh, u) /\ UNCHANGED prev
       ELSE prev' = l /\ limit' = Guarded(Bounded(cur, cur + Delta(l)), sh, u)
    /\ UNCHANGED <<since_cut, samples, ucb>>

Pi(cur, l, sh, u) ==
    /\ law = "pi"
    /\ IF l = none THEN limit' = Guarded(cur, sh, u) /\ UNCHANGED prev
       ELSE /\ prev' = l
            /\ limit' = Guarded(IF Delta(l) > 0 /\ ~Pressing(cur, u) THEN cur
                                ELSE Bounded(cur, cur + Delta(l)), sh, u)
    /\ UNCHANGED <<since_cut, samples, ucb>>

\* The largest limit whose predicted latency meets the target, once the model has
\* four samples; what the least squares fit says is left open.
Mpc(cur, l, sh, u) ==
    /\ law = "mpc"
    /\ IF l = none THEN limit' = Guarded(cur, sh, u) /\ UNCHANGED samples
       ELSE /\ samples' = Smaller(samples + 1, 4)
            /\ \E best \in Models :
                  limit' = Guarded(IF samples' < 4 \/ (best > cur /\ ~Pressing(cur, u)) THEN cur
                                   ELSE Bounded(cur, best), sh, u)
    /\ UNCHANGED <<since_cut, prev, ucb>>

Lowest(S) == {a \in S : \A b \in S : a <= b}

\* The first arm; then, a dwell time over, the lowest arm never scored or, all
\* of them scored, the one whose score is best: any.
UcbStarts(sh, u) ==
    /\ arm = none
    /\ \E a \in Lowest(Arms) : arm' = a /\ limit' = Guarded(Share(a), sh, u)
    /\ since' = 1
    /\ UNCHANGED <<tried, scored>>

UcbHolds(cur, l, sh, u) ==
    /\ arm # none /\ since < DwellSteps
    /\ scored' = (scored \/ l # none)
    /\ since' = since + 1
    /\ limit' = Guarded(cur, sh, u)
    /\ UNCHANGED <<arm, tried>>

\* (mutant: any arm never scored will do)
UcbMovesAnywhere(l, sh, u) ==
    /\ arm # none /\ since = DwellSteps
    /\ LET now == IF scored \/ l # none THEN tried \cup {arm} ELSE tried
       IN /\ tried' = now
          /\ \E a \in IF Arms \ now # {} THEN Arms \ now ELSE Arms :
                arm' = a /\ limit' = Guarded(Share(a), sh, u)
    /\ scored' = FALSE /\ since' = 1

UcbMoves(l, sh, u) ==
    /\ arm # none /\ since = DwellSteps
    /\ LET now == IF scored \/ l # none THEN tried \cup {arm} ELSE tried
       IN /\ tried' = now
          /\ \E a \in IF Arms \ now # {} THEN Lowest(Arms \ now) ELSE Arms :
                arm' = a /\ limit' = Guarded(Share(a), sh, u)
    /\ scored' = FALSE /\ since' = 1

Ucb(cur, l, sh, u) ==
    /\ law = "ucb"
    /\ UcbStarts(sh, u) \/ UcbHolds(cur, l, sh, u) \/ UcbMoves(l, sh, u)
    /\ UNCHANGED <<since_cut, prev, samples>>

-----------------------------------------------------------------------------
ControllerInit ==
    /\ law \in Laws
    /\ limit = Ceiling
    /\ latency = none /\ short = FALSE /\ use = 0
    /\ since_cut = HoldSteps
    /\ prev = none /\ samples = 0
    /\ arm = none /\ since = 0 /\ tried = {} /\ scored = FALSE
    /\ fell = HoldSteps

\* control_step(): cur is limit(s), never above the capacity.
ControlStep(l, sh, u) ==
    LET cur == Smaller(Ceiling, limit)
    IN /\ latency' = l /\ short' = sh /\ use' = u
       /\ Aimd(cur, l, sh, u) \/ Pi(cur, l, sh, u) \/ Mpc(cur, l, sh, u) \/ Ucb(cur, l, sh, u)
       /\ fell' = IF limit' < limit THEN 1 ELSE Smaller(fell + 1, HoldSteps)
       /\ UNCHANGED law

ControllerNext == \E l \in Readings \cup {none}, sh \in BOOLEAN, u \in Uses : ControlStep(l, sh, u)

ControllerSpec == ControllerInit /\ [][ControllerNext]_controller_vars

-----------------------------------------------------------------------------
(* Properties *)

\* The state is well-typed.
ControllerTypeOK ==
    /\ law \in Laws
    /\ limit \in Nat
    /\ latency \in Readings \cup {none} /\ short \in BOOLEAN /\ use \in Uses \cup {0}
    /\ since_cut \in 0 .. HoldSteps
    /\ prev \in Readings \cup {none}
    /\ samples \in 0 .. 4
    /\ arm \in Arms \cup {none} /\ since \in 0 .. DwellSteps
    /\ tried \subseteq Arms /\ scored \in BOOLEAN
    /\ fell \in 1 .. HoldSteps

\* Whatever the readings do, the limit stays between the floor and the ceiling:
\* what the admission model relies on.
Band == limit \in Floor .. Ceiling

\* aimd, pi and mpc raise the limit only on a reading, while demand presses on it.
RaisesOnEvidence ==
    [][(law # "ucb" /\ limit' > limit) => latency' # none /\ Pressing(limit, use')]_controller_vars

\* aimd: a cut has CONTROL_HOLD to show before the next one: among any HoldSteps steps in a
\* row the limit falls at most once, by what it did and not by the time the code keeps.
CutsKeepDistance ==
    [][(law = "aimd" /\ limit' < limit) => fell >= HoldSteps]_controller_vars

\* ucb explores from the lowest limit up: an arm is held only when every lower
\* one has been scored.
ExploresUpwards == arm # none => \A a \in Arms : a < arm => a \in tried
=============================================================================

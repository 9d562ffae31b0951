------------------------------ MODULE Loops_proofs ------------------------------
(***************************************************************************)
(* What holds of the two loops that act on their own, and of the search    *)
(* that sizes a slice.  Controller, for every ceiling, budget, set of      *)
(* readings, hold and dwell time: its limit stays in the band the          *)
(* admission model relies on, and each law moves it only the way it        *)
(* promises.  ClosedLoop, for any lead, idle time, minimum time up and     *)
(* rhythm: a slice is not switched off too soon after it changed or was    *)
(* demanded, demand that lasts is answered in time, and a rhythm that is   *)
(* learned finds the slice up.  Sizing, for all offered loads and demand   *)
(* sizes: the recursion of Kaufman and Roberts is the loss system it       *)
(* stands for, and the search ends on either side of its target.           *)
(***************************************************************************)
EXTENDS Controller, ClosedLoop, Sizing, Sums, SequenceTheorems

-----------------------------------------------------------------------------
(* Arithmetic of the laws *)

\* A share of the ceiling is a rate, a percentage of it at most the ceiling.
LEMMA ShareIsRate ==
    ASSUME NEW p \in 0 .. 100
    PROVE  Share(p) \in 0 .. Ceiling
<1>1. Ceiling \in Nat
  BY ControllerAssumption
<1>2. p * Ceiling \in Nat /\ p * Ceiling <= 100 * Ceiling
  BY <1>1
<1> QED
  BY <1>1, <1>2 DEF Share

\* The floor is not above the ceiling.
LEMMA FloorIsRate == Floor \in 0 .. Ceiling
  BY ShareIsRate, ControllerAssumption DEF Floor

\* Whatever a law asks for, the guard of the newer laws lands in the band; it
\* never raises what was asked for, but to the floor.
LEMMA GuardedInBand ==
    ASSUME NEW new \in Int, NEW sh \in BOOLEAN, NEW u \in Nat
    PROVE  /\ Guarded(new, sh, u) \in Floor .. Ceiling
           /\ Guarded(new, sh, u) <= Larger(Floor, new)
<1>1. Floor \in 0 .. Ceiling /\ Ceiling \in Nat
  BY FloorIsRate, ControllerAssumption
<1>2. (85 * u) \div 100 \in Nat
  OBVIOUS
<1>3. 100 * new > 85 * u => (85 * u) \div 100 <= new
  OBVIOUS
<1>4. Larger(Floor, (85 * u) \div 100) \in Nat
  BY <1>1, <1>2 DEF Larger
<1>5. sh /\ 100 * new > 85 * u => Larger(Floor, (85 * u) \div 100) <= Larger(Floor, new)
  BY <1>1, <1>2, <1>3 DEF Larger
<1> DEFINE asked == IF sh /\ 100 * new > 85 * u THEN Larger(Floor, (85 * u) \div 100) ELSE new
<1>6. asked \in Int /\ asked <= Larger(Floor, new)
  BY <1>1, <1>4, <1>5 DEF Larger
<1>7. Guarded(new, sh, u) = Clamp(asked)
  BY DEF Guarded
<1> HIDE DEF asked
<1>8. Clamp(asked) \in Floor .. Ceiling
  BY <1>1, <1>6 DEF Clamp, Larger, Smaller
<1>9. Clamp(asked) <= Larger(Floor, new)
  BY <1>1, <1>6 DEF Clamp, Larger, Smaller
<1> QED
  BY <1>7, <1>8, <1>9

\* The bounded move is a number, and goes no further than its goal.
LEMMA BoundedMoves ==
    ASSUME NEW cur \in Nat, NEW goal \in Int
    PROVE  Bounded(cur, goal) \in Int /\ (goal <= cur => Bounded(cur, goal) <= cur)
<1>1. Share(30) \in Nat
  BY ShareIsRate, ControllerAssumption
<1> QED
  BY <1>1 DEF Bounded, Larger, Smaller

\* The change PI asks for is a number.
LEMMA DeltaIsInt ==
    ASSUME NEW l \in Nat, prev \in Nat \cup {none}
    PROVE  Delta(l) \in Int
<1> DEFINE before == IF prev = none THEN l ELSE prev
<1>1. before \in Nat
  OBVIOUS
<1> DEFINE num == -Ceiling * (15 * (100 * l - 65 * Budget) + 3000 * (l - before))
           den == 10000 * Budget
<1>2. num \in Int /\ den \in Nat \ {0}
  BY <1>1, ControllerAssumption
<1>3. Delta(l) = num \div den
  BY DEF Delta
<1> HIDE DEF num, den
<1> QED
  BY <1>2, <1>3

-----------------------------------------------------------------------------
(* Every law keeps the band *)

Law(cur, l, sh, u) == Aimd(cur, l, sh, u) \/ Pi(cur, l, sh, u) \/ Mpc(cur, l, sh, u) \/ Ucb(cur, l, sh, u)

\* A reading, a verdict on the flows and a load, as ControlStep takes them.
Input(l, sh, u) == l \in Readings \cup {none} /\ sh \in BOOLEAN /\ u \in Uses

\* One line of facts about the constants, cited by the steps below.
LEMMA Rates ==
    /\ Ceiling \in Nat /\ Budget \in Nat /\ Floor \in 0 .. Ceiling
    /\ Readings \subseteq Nat /\ Uses \subseteq Nat /\ Models \subseteq Nat
    /\ none \notin Nat
    /\ HoldSteps \in Nat \ {0} /\ DwellSteps \in Nat \ {0}
    /\ Arms \subseteq 0 .. 100
  BY FloorIsRate, ControllerAssumption

\* aimd: the limit stays in the band, rises only on a reading and under pressure,
\* falls only a full hold after the last cut.
LEMMA AimdStep ==
    ASSUME NEW l, NEW sh, NEW u, Input(l, sh, u), ControllerTypeOK, Band, Aimd(limit, l, sh, u)
    PROVE  /\ limit' \in Floor .. Ceiling
           /\ since_cut' \in 0 .. HoldSteps
           /\ limit' > limit => l # none /\ Pressing(limit, u)
           /\ limit' < limit => since_cut >= HoldSteps /\ since_cut' = 1
           /\ since_cut' <= since_cut + 1
<1> USE Rates
<1>1. limit \in Nat /\ limit \in Floor .. Ceiling /\ since_cut \in 0 .. HoldSteps /\ u \in Nat
  BY DEF ControllerTypeOK, Band, Input
<1>2. CASE Cutting(limit, l, sh, u)
  <2> DEFINE least == Smaller(limit, u)
             cut == (7 * least) \div 10
  <2>1. least \in Nat /\ least <= limit
    BY <1>1 DEF Smaller
  <2> HIDE DEF least
  <2>2. cut \in Nat /\ cut <= limit
    BY <2>1, <1>1
  <2> HIDE DEF cut
  <2>3. Larger(Floor, cut) \in Floor .. Ceiling /\ Larger(Floor, cut) <= limit
    BY <2>2, <1>1 DEF Larger
  <2> QED
    BY <1>1, <1>2, <2>3 DEF Cutting, least, cut
<1>3. CASE Probing(limit, l, sh, u)
  <2>1. Share(5) \in Nat
    BY ShareIsRate
  <2> QED
    BY <1>1, <1>3, <2>1 DEF Probing, Smaller
<1>4. CASE Holding(limit, l, sh, u)
  BY <1>1, <1>4 DEF Holding, Smaller
<1> QED
  BY <1>2, <1>3, <1>4 DEF Aimd

\* pi: the same band, and it does not wind up.
LEMMA PiStep ==
    ASSUME NEW l, NEW sh, NEW u, Input(l, sh, u), ControllerTypeOK, Band, Pi(limit, l, sh, u)
    PROVE  /\ limit' \in Floor .. Ceiling
           /\ prev' \in Readings \cup {none}
           /\ limit' > limit => l # none /\ Pressing(limit, u)
<1> USE Rates
<1>1. limit \in Nat /\ limit \in Floor .. Ceiling /\ u \in Nat /\ sh \in BOOLEAN
  BY DEF ControllerTypeOK, Band, Input
<1>2. Larger(Floor, limit) = limit
  BY <1>1 DEF Larger
<1>3. CASE l = none
  BY <1>1, <1>2, <1>3, GuardedInBand DEF Pi, ControllerTypeOK
<1>4. CASE l # none
  <2>1. l \in Readings /\ l \in Nat /\ Delta(l) \in Int
    BY <1>4, DeltaIsInt DEF Input, ControllerTypeOK
  <2> DEFINE asked == IF Delta(l) > 0 /\ ~Pressing(limit, u) THEN limit
                      ELSE Bounded(limit, limit + Delta(l))
  <2>2. limit' = Guarded(asked, sh, u) /\ prev' = l
    BY <1>4 DEF Pi
  <2>3. asked \in Int /\ (~Pressing(limit, u) => asked <= limit)
    BY <1>1, <2>1, BoundedMoves
  <2> HIDE DEF asked
  <2>4. limit' \in Floor .. Ceiling /\ limit' <= Larger(Floor, asked)
    BY <1>1, <2>2, <2>3, GuardedInBand
  <2>5. ~Pressing(limit, u) => limit' <= limit
    BY <1>1, <2>3, <2>4 DEF Larger
  <2> QED
    BY <1>1, <1>4, <2>1, <2>2, <2>4, <2>5
<1> QED
  BY <1>3, <1>4

\* mpc: the same, whatever the fitted model says.
LEMMA MpcStep ==
    ASSUME NEW l, NEW sh, NEW u, Input(l, sh, u), ControllerTypeOK, Band, Mpc(limit, l, sh, u)
    PROVE  /\ limit' \in Floor .. Ceiling
           /\ samples' \in 0 .. 4
           /\ limit' > limit => l # none /\ Pressing(limit, u)
<1> USE Rates
<1>1. limit \in Nat /\ limit \in Floor .. Ceiling /\ u \in Nat /\ sh \in BOOLEAN /\ samples \in 0 .. 4
  BY DEF ControllerTypeOK, Band, Input
<1>2. Larger(Floor, limit) = limit
  BY <1>1 DEF Larger
<1>3. CASE l = none
  BY <1>1, <1>2, <1>3, GuardedInBand DEF Mpc
<1>4. CASE l # none
  <2>1. PICK best \in Models :
          limit' = Guarded(IF samples' < 4 \/ (best > limit /\ ~Pressing(limit, u)) THEN limit
                           ELSE Bounded(limit, best), sh, u)
    BY <1>4 DEF Mpc
  <2> DEFINE asked == IF samples' < 4 \/ (best > limit /\ ~Pressing(limit, u)) THEN limit
                      ELSE Bounded(limit, best)
  <2>2. limit' = Guarded(asked, sh, u)
    BY <2>1
  <2>3. samples' \in 0 .. 4
    BY <1>1, <1>4 DEF Mpc, Smaller
  <2>4. asked \in Int /\ (~Pressing(limit, u) => asked <= limit)
    BY <1>1, BoundedMoves
  <2> HIDE DEF asked
  <2>5. limit' \in Floor .. Ceiling /\ limit' <= Larger(Floor, asked)
    BY <1>1, <2>2, <2>4, GuardedInBand
  <2>6. ~Pressing(limit, u) => limit' <= limit
    BY <1>1, <2>4, <2>5 DEF Larger
  <2> QED
    BY <1>1, <1>4, <2>3, <2>5, <2>6
<1> QED
  BY <1>3, <1>4

\* ucb: the same band, and lower arms are scored before higher ones are held.
LEMMA UcbStep ==
    ASSUME NEW l, NEW sh, NEW u, Input(l, sh, u), ControllerTypeOK, Band, ExploresUpwards, Ucb(limit, l, sh, u)
    PROVE  /\ limit' \in Floor .. Ceiling
           /\ arm' \in Arms \cup {none} /\ since' \in 0 .. DwellSteps
           /\ tried' \subseteq Arms /\ scored' \in BOOLEAN
           /\ ExploresUpwards'
<1> USE Rates
<1>1. limit \in Nat /\ limit \in Floor .. Ceiling /\ u \in Nat /\ sh \in BOOLEAN
  BY DEF ControllerTypeOK, Band, Input
<1>2. \A a \in Arms : Guarded(Share(a), sh, u) \in Floor .. Ceiling
  <2>1. \A a \in Arms : Share(a) \in Int
    BY ShareIsRate
  <2> QED
    BY <1>1, <2>1, GuardedInBand
<1>3. Guarded(limit, sh, u) \in Floor .. Ceiling
  BY <1>1, GuardedInBand
<1>4. CASE UcbStarts(sh, u)
  BY <1>2, <1>4 DEF UcbStarts, Lowest, ExploresUpwards, ControllerTypeOK
<1>5. CASE UcbHolds(limit, l, sh, u)
  BY <1>3, <1>5 DEF UcbHolds, ExploresUpwards, ControllerTypeOK
<1>6. CASE UcbMoves(l, sh, u)
  <2> DEFINE seen == IF scored \/ l # none THEN tried \cup {arm} ELSE tried
  <2>1. seen \subseteq Arms /\ tried' = seen /\ scored' = FALSE /\ since' = 1
    BY <1>6 DEF UcbMoves, ControllerTypeOK
  <2>2. PICK a \in IF Arms \ seen # {} THEN Lowest(Arms \ seen) ELSE Arms :
          arm' = a /\ limit' = Guarded(Share(a), sh, u)
    BY <1>6 DEF UcbMoves
  <2> HIDE DEF seen
  <2>3. a \in Arms /\ (\A b \in Arms : b < a => b \in seen)
    BY <2>2 DEF Lowest
  <2>4. since' \in 0 .. DwellSteps /\ tried' \subseteq Arms
    <3>1. 1 \in 0 .. DwellSteps
      OBVIOUS
    <3> QED
      BY <2>1, <3>1
  <2>7. scored' \in BOOLEAN
    BY <2>1, Zenon
  <2>5. limit' \in Floor .. Ceiling /\ arm' \in Arms \cup {none}
    BY <1>2, <2>2, <2>3
  <2>6. ExploresUpwards'
    BY <2>1, <2>2, <2>3 DEF ExploresUpwards
  <2> QED
    BY <2>4, <2>7, <2>5, <2>6
<1> QED
  BY <1>4, <1>5, <1>6 DEF Ucb

-----------------------------------------------------------------------------
(* The inductive invariant *)

\* The law aimd remembers its last cut: a fall of the limit cannot be more recent.
CutRemembered == law = "aimd" => since_cut <= fell

ControllerIInv == ControllerTypeOK /\ Band /\ ExploresUpwards /\ CutRemembered

LEMMA InitIInv == ControllerInit => ControllerIInv
<1> SUFFICES ASSUME ControllerInit PROVE ControllerIInv
  OBVIOUS
<1> USE Rates DEF ControllerInit
<1>1. ControllerTypeOK
  <2>1. scored \in BOOLEAN /\ short \in BOOLEAN
    BY Zenon
  <2>2. law \in Laws /\ latency \in Readings \cup {none} /\ prev \in Readings \cup {none}
    OBVIOUS
  <2>3. arm \in Arms \cup {none} /\ tried \subseteq Arms /\ use \in Uses \cup {0}
    OBVIOUS
  <2>4. limit \in Nat /\ since_cut \in 0 .. HoldSteps /\ samples \in 0 .. 4 /\ since \in 0 .. DwellSteps
    OBVIOUS
  <2>5. fell \in 1 .. HoldSteps
    OBVIOUS
  <2> QED
    BY <2>1, <2>2, <2>3, <2>4, <2>5, Zenon DEF ControllerTypeOK
<1>2. Band
  BY DEF Band
<1>3. ExploresUpwards
  BY DEF ExploresUpwards
<1>4. CutRemembered
  BY DEF CutRemembered
<1> QED
  BY <1>1, <1>2, <1>3, <1>4 DEF ControllerIInv

\* A step of ControllerNext under the invariant is a step of one law on the limit itself.
LEMMA NextIsLaw ==
    ASSUME ControllerIInv, ControllerNext
    PROVE  \E l \in Readings \cup {none}, u \in Uses, sh \in BOOLEAN :
              /\ Input(l, sh, u)
              /\ latency' = l /\ short' = sh /\ use' = u /\ law' = law
              /\ fell' = IF limit' < limit THEN 1 ELSE Smaller(fell + 1, HoldSteps)
              /\ Law(limit, l, sh, u)
<1>1. PICK l \in Readings \cup {none}, sh \in BOOLEAN, u \in Uses : ControlStep(l, sh, u)
  BY DEF ControllerNext
<1>2. Smaller(Ceiling, limit) = limit
  BY Rates DEF ControllerIInv, ControllerTypeOK, Band, Smaller
<1>3. Law(limit, l, sh, u)
  BY <1>1, <1>2 DEF ControlStep, Law
<1> QED
  BY <1>1, <1>3 DEF ControlStep, Input

LEMMA NextIInv == ControllerIInv /\ [ControllerNext]_controller_vars => ControllerIInv'
<1> SUFFICES ASSUME ControllerIInv, [ControllerNext]_controller_vars PROVE ControllerIInv'
  OBVIOUS
<1> USE DEF ControllerIInv
<1>1. CASE UNCHANGED controller_vars
  BY <1>1 DEF controller_vars, ControllerTypeOK, Band, ExploresUpwards, CutRemembered
<1>2. CASE ControllerNext
  <2>1. PICK l \in Readings \cup {none}, u \in Uses, sh \in BOOLEAN :
          /\ Input(l, sh, u)
          /\ latency' = l /\ short' = sh /\ use' = u /\ law' = law
          /\ fell' = IF limit' < limit THEN 1 ELSE Smaller(fell + 1, HoldSteps)
          /\ Law(limit, l, sh, u)
    BY <1>2, NextIsLaw
  <2>2. law' \in Laws /\ latency' \in Readings \cup {none} /\ short' \in BOOLEAN /\ use' \in Uses \cup {0}
    BY <2>1 DEF ControllerTypeOK, Input
  <2>7. fell' \in 1 .. HoldSteps
    BY <2>1, Rates DEF ControllerTypeOK, Smaller
  <2>3. CASE Aimd(limit, l, sh, u)
    <3>1. limit' \in Floor .. Ceiling /\ since_cut' \in 0 .. HoldSteps
      BY <2>1, <2>3, AimdStep
    <3>3. CutRemembered'
      BY <2>1, <2>3, <2>7, <3>1, AimdStep, Rates DEF CutRemembered, ControllerTypeOK, Band, Smaller, Aimd
    <3>2. UNCHANGED <<prev, samples, ucb>>
      BY <2>3 DEF Aimd
    <3> QED
      BY <2>2, <2>7, <3>1, <3>2, <3>3, Rates DEF ControllerTypeOK, Band, ExploresUpwards, ucb
  <2>4. CASE Pi(limit, l, sh, u)
    <3>1. limit' \in Floor .. Ceiling /\ prev' \in Readings \cup {none}
      BY <2>1, <2>4, PiStep
    <3>2. UNCHANGED <<since_cut, samples, ucb>>
      BY <2>4 DEF Pi
    <3>3. CutRemembered'
      BY <2>1, <2>4 DEF CutRemembered, Pi
    <3> QED
      BY <2>2, <2>7, <3>1, <3>2, <3>3, Rates DEF ControllerTypeOK, Band, ExploresUpwards, ucb
  <2>5. CASE Mpc(limit, l, sh, u)
    <3>1. limit' \in Floor .. Ceiling /\ samples' \in 0 .. 4
      BY <2>1, <2>5, MpcStep
    <3>2. UNCHANGED <<since_cut, prev, ucb>>
      BY <2>5 DEF Mpc
    <3>3. CutRemembered'
      BY <2>1, <2>5 DEF CutRemembered, Mpc
    <3> QED
      BY <2>2, <2>7, <3>1, <3>2, <3>3, Rates DEF ControllerTypeOK, Band, ExploresUpwards, ucb
  <2>6. CASE Ucb(limit, l, sh, u)
    <3>1. /\ limit' \in Floor .. Ceiling
          /\ arm' \in Arms \cup {none} /\ since' \in 0 .. DwellSteps
          /\ tried' \subseteq Arms /\ scored' \in BOOLEAN
          /\ ExploresUpwards'
      BY <2>1, <2>6, UcbStep
    <3>2. UNCHANGED <<since_cut, prev, samples>>
      BY <2>6 DEF Ucb
    <3>3. CutRemembered'
      BY <2>1, <2>6 DEF CutRemembered, Ucb
    <3> QED
      BY <2>2, <2>7, <3>1, <3>2, <3>3, Rates DEF ControllerTypeOK, Band
  <2> QED
    BY <2>1, <2>3, <2>4, <2>5, <2>6 DEF Law
<1> QED
  BY <1>1, <1>2

\* The inductive invariant holds throughout.
THEOREM ControllerInvariance == ControllerSpec => []ControllerIInv
  BY InitIInv, NextIInv, PTL DEF ControllerSpec

\* The controller's state is well-typed in every reachable state.
THEOREM ControllerTypeCorrect == ControllerSpec => []ControllerTypeOK
  BY ControllerInvariance, PTL DEF ControllerIInv

\* No reading, load or law takes the limit out of the band from the floor to the
\* capacity: module Admission's ControlStep allows every limit in it, and no other.
THEOREM BandTheorem == ControllerSpec => []Band
  BY ControllerInvariance, PTL DEF ControllerIInv

\* ucb explores the arms from the lowest up.
THEOREM ExploreTheorem == ControllerSpec => []ExploresUpwards
  BY ControllerInvariance, PTL DEF ControllerIInv

-----------------------------------------------------------------------------
(* Action properties *)

\* aimd, pi and mpc never open the limit blindly or without demand pressing on it.
THEOREM EvidenceTheorem == ControllerSpec => RaisesOnEvidence
<1>1. ControllerIInv /\ [ControllerNext]_controller_vars =>
        [(law # "ucb" /\ limit' > limit) => latency' # none /\ Pressing(limit, use')]_controller_vars
  <2> SUFFICES ASSUME ControllerIInv, ControllerNext, law # "ucb", limit' > limit
               PROVE  latency' # none /\ Pressing(limit, use')
    BY DEF controller_vars
  <2> USE DEF ControllerIInv
  <2>1. PICK l \in Readings \cup {none}, u \in Uses, sh \in BOOLEAN :
          /\ Input(l, sh, u)
          /\ latency' = l /\ short' = sh /\ use' = u /\ law' = law
          /\ Law(limit, l, sh, u)
    BY NextIsLaw
  <2>2. CASE Aimd(limit, l, sh, u)
    BY <2>1, <2>2, AimdStep
  <2>3. CASE Pi(limit, l, sh, u)
    BY <2>1, <2>3, PiStep
  <2>4. CASE Mpc(limit, l, sh, u)
    BY <2>1, <2>4, MpcStep
  <2> QED
    BY <2>1, <2>2, <2>3, <2>4 DEF Law, Ucb
<1> QED
  BY <1>1, ControllerInvariance, PTL DEF ControllerSpec, RaisesOnEvidence

\* Under aimd the limit never falls again before its last fall had CONTROL_HOLD to show:
\* the time of the last cut that the law keeps is never older than the fall itself.
THEOREM DistanceTheorem == ControllerSpec => CutsKeepDistance
<1>1. ControllerIInv /\ [ControllerNext]_controller_vars => [(law = "aimd" /\ limit' < limit) => fell >= HoldSteps]_controller_vars
  <2> SUFFICES ASSUME ControllerIInv, ControllerNext, law = "aimd", limit' < limit
               PROVE  fell >= HoldSteps
    BY DEF controller_vars
  <2> USE DEF ControllerIInv
  <2>1. PICK l \in Readings \cup {none}, u \in Uses, sh \in BOOLEAN : Input(l, sh, u) /\ Law(limit, l, sh, u)
    BY NextIsLaw
  <2>2. Aimd(limit, l, sh, u)
    BY <2>1 DEF Law, Pi, Mpc, Ucb
  <2>3. since_cut >= HoldSteps
    BY <2>1, <2>2, AimdStep
  <2> QED
    BY <2>3, Rates DEF CutRemembered, ControllerTypeOK
<1> QED
  BY <1>1, ControllerInvariance, PTL DEF ControllerSpec, CutsKeepDistance

-----------------------------------------------------------------------------
(* ClosedLoop *)

-----------------------------------------------------------------------------
(* The invariant *)

\* An operation that runs ends within the time it takes; what is remembered has passed.
InOrder ==
    /\ now \in Nat
    /\ op \in {"none", "activate", "deactivate", "scale"}
    /\ op # "none" => until \in Nat /\ now <= until /\ until <= now + Takes[op]
    /\ op = "none" => state \in {"ACTIVE", "DORMANT"}
    /\ wanted # never => wanted \in Nat /\ wanted < now
    /\ {last_need, last_change, changed} \subseteq (0 .. now) \cup {never}

\* What the service remembers is the last change; when a restart has made it forget, the
\* time without demand has begun after the change.
Remembers ==
    /\ last_change # never => changed = last_change
    /\ changed # never /\ last_need # never /\ last_change = never => changed <= last_need

\* Since every tick has found the slice needed: it is up, or a tick is about to switch it
\* on, or what has to end first will have ended in time.
BeingAnswered ==
    \/ op = "none" /\ state = "ACTIVE"
    \/ op = "none" /\ state = "DORMANT" /\ now <= wanted + Takes["deactivate"]
    \/ op = "deactivate" /\ until <= wanted + Takes["deactivate"]
    \/ op \in {"activate", "scale"} /\ until <= wanted + Takes["deactivate"] + Takes["activate"]

Undisturbed == enabled /\ wanted # never /\ steady <= wanted /\ touched <= wanted

Answers == Undisturbed => BeingAnswered

IInv == InOrder /\ Remembers /\ steady \in Nat /\ touched \in Nat

LEMMA Durations ==
    /\ Takes["activate"] \in Nat \ {0} /\ Takes["deactivate"] \in Nat \ {0} /\ Takes["scale"] \in Nat \ {0}
    /\ \A kind \in {"activate", "deactivate", "scale"} : Takes[kind] \in Nat \ {0}
    /\ never \notin Nat /\ IDLE_SECONDS \in Nat /\ MIN_UP \in Nat
  BY ClosedLoopAssumption

\* Of two times the earlier one is longer ago.
LEMMA Longer ==
    ASSUME NEW n \in Nat, NEW early \in Nat, NEW late \in Nat, NEW i \in Nat, NEW m \in Nat,
           early <= late, n - late >= i, i >= m
    PROVE  n - early >= m
  OBVIOUS

\* What submit() starts, and when it will have ended.
LEMMA Submitted ==
    ASSUME NEW kind \in {"activate", "deactivate", "scale"}, op = "none", Submit(kind), now \in Nat
    PROVE  /\ op' = kind /\ until' \in Nat /\ now < until' /\ until' <= now + Takes[kind]
<1>1. PICK d \in 1 .. Takes[kind] : until' = now + d
  BY DEF Submit
<1>2. op' = kind
  BY DEF Submit
<1> QED
  BY <1>1, <1>2, Durations

\* What a tick does: nothing, an activation of a dormant slice, or the deactivation of one
\* that has been idle and up for long enough; and a dormant slice that is needed is activated.
LEMMA TickDecides ==
    ASSUME IInv, Tick
    PROVE  /\ now' = now + 1 /\ (op # "none" => now < until)
           /\ UNCHANGED <<steady, touched, enabled, last_change, changed>> /\ enabled
           /\ last_need' \in {now, last_need} /\ (last_need = never => last_need' = now)
           /\ wanted' = IF ~Needed THEN never ELSE IF wanted = never THEN now ELSE wanted
           /\ \/ UNCHANGED <<op, until, state>> /\ ~(op = "none" /\ Needed /\ state = "DORMANT")
              \/ op = "none" /\ state = "DORMANT" /\ Submit("activate")
              \/ /\ op = "none" /\ state = "ACTIVE" /\ ~Needed /\ Submit("deactivate")
                 /\ now - last_need' >= IDLE_SECONDS /\ Settled
<1> DEFINE on == IF Needed /\ ~prev_need THEN Latest(Append(onsets, now)) ELSE onsets
           seen == IF Needed \/ last_need = never THEN now ELSE last_need
           due == DueSoon(NextOnset(on))
           kind == Decision(Needed, seen, due)
<1>1. /\ now' = now + 1 /\ (op # "none" => now < until)
      /\ UNCHANGED <<steady, touched, enabled, last_change, changed>> /\ enabled
      /\ last_need' = seen
      /\ wanted' = IF ~Needed THEN never ELSE IF wanted = never THEN now ELSE wanted
      /\ Submit(kind)
  BY DEF Tick, Ready, IInv, InOrder
<1>2. last_need' \in {now, last_need} /\ (last_need = never => last_need' = now)
  BY <1>1
<1> HIDE DEF due
<1>3. /\ kind \in {"activate", "deactivate", "none"}
      /\ kind = "activate" => state = "DORMANT"
      /\ kind = "deactivate" => state = "ACTIVE" /\ ~Needed /\ now - seen >= IDLE_SECONDS /\ Settled
      /\ Needed /\ state = "DORMANT" => kind = "activate"
  BY DEF Decision
<1> HIDE DEF kind
<1>4. CASE kind = "none" \/ op # "none"
  BY <1>1, <1>2, <1>3, <1>4 DEF Submit
<1>5. CASE kind # "none" /\ op = "none"
  BY <1>1, <1>2, <1>3, <1>5
<1> QED
  BY <1>4, <1>5

-----------------------------------------------------------------------------
(* Every step keeps the invariant *)

LEMMA TickKeeps ==
    ASSUME IInv, Tick
    PROVE  IInv'
<1>1. /\ now \in Nat /\ now' = now + 1 /\ now' \in Nat
      /\ UNCHANGED <<steady, touched, last_change, changed>>
      /\ last_need' \in {now, last_need} /\ (last_need = never => last_need' = now)
      /\ wanted' \in {never, now, wanted}
  BY TickDecides DEF IInv, InOrder
<1>2. /\ op' \in {"none", "activate", "deactivate", "scale"}
      /\ op' # "none" => until' \in Nat /\ now' <= until' /\ until' <= now' + Takes[op']
      /\ op' = "none" => state' \in {"ACTIVE", "DORMANT"}
  <2>1. CASE UNCHANGED <<op, until, state>>
    <3>1. op # "none" => /\ until \in Nat /\ now < until /\ until <= now + Takes[op]
                          /\ Takes[op] \in Nat
      BY TickDecides, Durations DEF IInv, InOrder
    <3> QED
      BY <1>1, <2>1, <3>1 DEF IInv, InOrder
  <2>2. CASE op = "none" /\ (Submit("activate") \/ Submit("deactivate"))
    <3>1. PICK kind \in {"activate", "deactivate"} : Submit(kind)
      BY <2>2
    <3> QED
      BY <1>1, <2>2, <3>1, Submitted, Durations
  <2> QED
    BY <2>1, <2>2, TickDecides
<1>3. {last_need, last_change, changed}' \subseteq (0 .. now') \cup {never}
  BY <1>1 DEF IInv, InOrder
<1>4. wanted' # never => wanted' \in Nat /\ wanted' < now'
  BY <1>1 DEF IInv, InOrder
<1>5. Remembers'
  BY <1>1, Durations DEF IInv, InOrder, Remembers
<1> QED
  BY <1>1, <1>2, <1>3, <1>4, <1>5 DEF IInv, InOrder

LEMMA OthersKeep ==
    ASSUME IInv, Next, ~Tick
    PROVE  IInv'
<1>1. CASE TickBlind \/ TickOff
  BY <1>1, Durations DEF TickBlind, TickOff, Ready, TimePasses, service, IInv, InOrder, Remembers
<1>2. CASE \E c \in Class : Arrive(c) \/ Beat(c)
  <2>1. UNCHANGED <<now, state, op, until, service, changed, steady, wanted, touched>>
    BY <1>2 DEF Arrive, Beat, Demanded
  <2> QED
    BY <2>1 DEF service, IInv, InOrder, Remembers
<1>3. CASE \E kind \in {"activate", "deactivate", "scale"} : Operate(kind)
  <2>1. PICK kind \in {"activate", "deactivate", "scale"} : Operate(kind)
    BY <1>3
  <2>2. /\ op = "none" /\ Submit(kind) /\ touched' = now
        /\ UNCHANGED <<now, last_need, last_change, changed, steady, wanted>>
    BY <2>1 DEF Operate, service
  <2>3. op' = kind /\ until' \in Nat /\ now <= until' /\ until' <= now + Takes[kind]
    BY <2>2, Submitted DEF IInv, InOrder
  <2> QED
    BY <2>2, <2>3 DEF IInv, InOrder, Remembers
<1>4. CASE Toggle \/ Restart
  BY <1>4, Durations DEF Toggle, Restart, IInv, InOrder, Remembers
<1>5. CASE Completes \/ RollsBack
  BY <1>5, Durations DEF Completes, RollsBack, IInv, InOrder, Remembers
<1> QED
  BY <1>1, <1>2, <1>3, <1>4, <1>5 DEF Next

\* The invariant holds throughout.
THEOREM Invariance == Spec => []IInv
<1>1. Init => IInv
  BY Durations DEF Init, IInv, InOrder, Remembers
<1>2. IInv /\ [Next]_vars => IInv'
  <2>1. IInv /\ UNCHANGED vars => IInv'
    BY DEF vars, IInv, InOrder, Remembers
  <2> QED
    BY <2>1, TickKeeps, OthersKeep
<1> QED
  BY <1>1, <1>2, PTL DEF Spec

\* A slice is not switched off within MIN_UP of its last change, though a restart of the
\* service forgets when that was: the idle time it must then wait for is as long.
THEOREM MinUpTheorem == Spec => MinUpKept
<1>1. IInv /\ [Next]_vars =>
          [(SwitchedOff /\ IDLE_SECONDS >= MIN_UP) => changed = never \/ now - changed >= MIN_UP]_vars
  <2> SUFFICES ASSUME IInv, Next, SwitchedOff, IDLE_SECONDS >= MIN_UP, changed # never
               PROVE  now - changed >= MIN_UP
    OBVIOUS
  <2>1. Tick
    BY Durations DEF SwitchedOff, Next, TickBlind, TickOff, Arrive, Beat, Demanded, Operate, Toggle,
       Restart, Completes, RollsBack, IInv, InOrder
  <2>2. /\ last_need' \in {now, last_need} /\ (last_need = never => last_need' = now)
        /\ now - last_need' >= IDLE_SECONDS /\ Settled
    <3>1. ~UNCHANGED op /\ (op = "none" => op' # "activate")
      BY DEF SwitchedOff
    <3>2. op = "none" /\ Submit("activate") => op' = "activate"
      BY Submitted DEF IInv, InOrder
    <3> QED
      BY <2>1, <3>1, <3>2, TickDecides DEF SwitchedOff
  <2>3. now \in Nat /\ changed \in 0 .. now
    BY DEF IInv, InOrder
  <2>4. CASE last_change # never
    BY <2>2, <2>3, <2>4 DEF IInv, Remembers, Settled
  <2>5. CASE last_change = never
    <3>1. changed <= last_need'
      BY <2>2, <2>3, <2>5 DEF IInv, Remembers
    <3>2. last_need' \in Nat
      BY <2>2, <2>3 DEF IInv, InOrder
    <3>3. now - last_need' >= IDLE_SECONDS /\ IDLE_SECONDS \in Nat /\ MIN_UP \in Nat
      BY <2>2, Durations
    <3>4. now \in Nat /\ changed \in Nat
      BY <2>3
    <3> QED
      BY <3>1, <3>2, <3>3, <3>4, Longer
  <2> QED
    BY <2>4, <2>5
<1> QED
  BY <1>1, Invariance, PTL DEF Spec, MinUpKept

-----------------------------------------------------------------------------
(* A demand that lasts is answered *)

\* scale(), two `docker update`s, is over before the slice could be switched off and on.
ScaleIsShort == Takes["scale"] <= Takes["deactivate"] + Takes["activate"]

LEMMA TickAnswers ==
    ASSUME ScaleIsShort, IInv, Answers, Tick
    PROVE  Answers'
<1> SUFFICES ASSUME Undisturbed' PROVE BeingAnswered'
  BY DEF Answers
<1> DEFINE D == Takes["deactivate"]
           A == Takes["activate"]
<1>1. /\ Needed /\ enabled /\ wanted' = IF wanted = never THEN now ELSE wanted
      /\ steady <= wanted' /\ touched <= wanted'
      /\ now' = now + 1 /\ (op # "none" => now < until)
  BY TickDecides DEF Undisturbed
<1>2. D \in Nat /\ A \in Nat /\ Takes["scale"] \in Nat /\ Takes["scale"] <= D + A /\ now \in Nat
  BY Durations DEF ScaleIsShort, IInv, InOrder
<1>3. \/ op = "none" /\ state = "ACTIVE"
      \/ op = "none" /\ state = "DORMANT" /\ now <= wanted' + D
      \/ op = "deactivate" /\ until <= wanted' + D
      \/ op \in {"activate", "scale"} /\ until <= wanted' + D + A
  <2>1. CASE wanted = never
    <3>1. wanted' = now
      BY <1>1, <2>1
    <3>2. op = "activate" => until \in Nat /\ until <= now + A
      BY DEF IInv, InOrder
    <3>3. op = "deactivate" => until <= now + D
      BY DEF IInv, InOrder
    <3>4. op = "scale" => until \in Nat /\ until <= now + Takes["scale"]
      BY DEF IInv, InOrder
    <3>5. op \in {"none", "activate", "deactivate", "scale"} /\ (op = "none" => state \in {"ACTIVE", "DORMANT"})
      BY DEF IInv, InOrder
    <3> QED
      BY <1>2, <3>1, <3>2, <3>3, <3>4, <3>5
  <2>2. CASE wanted # never
    BY <1>1, <2>2 DEF Answers, Undisturbed, BeingAnswered
  <2> QED
    BY <2>1, <2>2
<1>4. CASE UNCHANGED <<op, until, state>> /\ ~(op = "none" /\ Needed /\ state = "DORMANT")
  BY <1>1, <1>3, <1>4 DEF BeingAnswered
<1>5. CASE op = "none" /\ state = "DORMANT" /\ Submit("activate")
  <2>1. op' = "activate" /\ until' \in Nat /\ until' <= now + A
    BY <1>2, <1>5, Submitted
  <2>2. now <= wanted' + D /\ wanted' \in Nat
    BY <1>1, <1>3, <1>5 DEF IInv, InOrder
  <2>3. until' <= wanted' + D + A
    BY <1>2, <2>1, <2>2
  <2> QED
    BY <2>1, <2>3 DEF BeingAnswered
<1> QED
  BY <1>1, <1>4, <1>5, TickDecides

LEMMA OthersAnswer ==
    ASSUME ScaleIsShort, IInv, Answers, Next, ~Tick
    PROVE  Answers'
<1> SUFFICES ASSUME Undisturbed' PROVE BeingAnswered'
  BY DEF Answers
<1>1. now \in Nat /\ never \notin Nat /\ (wanted # never => wanted \in Nat /\ wanted < now)
  BY Durations DEF IInv, InOrder
<1>2. ~TickBlind /\ ~TickOff /\ ~Toggle /\ ~Restart /\ ~RollsBack
      /\ ~(\E kind \in {"activate", "deactivate", "scale"} : Operate(kind))
  <2>1. wanted' = wanted \/ Tick
    BY DEF Next, TickBlind, TickOff, TimePasses, Arrive, Beat, Demanded, Operate, Toggle, Restart,
       Completes, RollsBack
  <2>2. enabled' /\ wanted \in Nat /\ wanted < now /\ steady' <= wanted /\ touched' <= wanted
    BY <1>1, <2>1 DEF Undisturbed
  <2>3. ~TickBlind /\ ~Toggle /\ ~Restart
    <3>1. steady' # now /\ steady' # now + 1
      BY <1>1, <2>2
    <3> QED
      BY <3>1 DEF TickBlind, Toggle, Restart
  <2>4. ~TickOff
    BY <2>2 DEF TickOff, service
  <2>5. ~RollsBack /\ ~(\E kind \in {"activate", "deactivate", "scale"} : Operate(kind))
    <3>1. touched' # now
      BY <1>1, <2>2
    <3> QED
      BY <3>1 DEF RollsBack, Operate
  <2> QED
    BY <2>3, <2>4, <2>5
<1>3. CASE \E c \in Class : Arrive(c) \/ Beat(c)
  <2>1. UNCHANGED <<now, state, op, until, enabled, steady, wanted, touched>>
    BY <1>3 DEF Arrive, Beat, Demanded, service
  <2> QED
    BY <2>1 DEF Answers, Undisturbed, BeingAnswered
<1>4. CASE Completes
  <2>1. /\ op # "none" /\ until = now /\ op' = "none" /\ UNCHANGED <<now, wanted>>
        /\ state' = IF op = "deactivate" THEN "DORMANT" ELSE "ACTIVE"
        /\ BeingAnswered
    BY <1>4 DEF Completes, Answers, Undisturbed
  <2> QED
    BY <2>1 DEF BeingAnswered
<1> QED
  BY <1>2, <1>3, <1>4 DEF Next

\* With the loop on and its plan answered, a demand that lasts has the slice up once a
\* deactivation and an activation have had their time: whatever operation it met, whatever
\* the loop had learned, forgotten or was about to do.
THEOREM FollowsTheorem ==
    ASSUME ScaleIsShort
    PROVE  Spec => []Follows
<1>1. Init => Answers
  BY DEF Init, Answers, Undisturbed
<1>2. IInv /\ Answers /\ [Next]_vars => Answers'
  <2>1. Answers /\ UNCHANGED vars => Answers'
    BY DEF vars, Answers, Undisturbed, BeingAnswered
  <2> QED
    BY <2>1, TickAnswers, OthersAnswer
<1>3. IInv /\ Answers => Follows
  <2> SUFFICES ASSUME IInv, Answers, Undisturbed,
                      now - wanted > Takes["deactivate"] + Takes["activate"]
               PROVE  state = "ACTIVE"
    BY DEF Follows, Undisturbed
  <2>1. now \in Nat /\ wanted \in Nat /\ Takes["deactivate"] \in Nat /\ Takes["activate"] \in Nat
    BY Durations DEF IInv, InOrder, Undisturbed
  <2>2. op # "none" => until \in Nat /\ now <= until
    BY DEF IInv, InOrder
  <2>3. BeingAnswered
    BY DEF Answers
  <2> QED
    BY <2>1, <2>2, <2>3 DEF BeingAnswered
<1> QED
  BY <1>1, <1>2, <1>3, Invariance, PTL DEF Spec

-----------------------------------------------------------------------------
(* The loop waits for the idle time after a demand *)

Plans(l, n) == [c \in Class |-> Observed(l, c, Rate[c], Hold, PLAN_WINDOW, n)]

ForMine == {c \in Class : Home(c) = {Mine}}

\* What a log has of a class, as a number.
LEMMA PlansNat ==
    ASSUME NEW l, IsFiniteSet(l), NEW n, NEW c \in Class
    PROVE  Plans(l, n)[c] \in Nat
<1> DEFINE recent == {e \in l : e.t + PLAN_WINDOW >= n /\ e.class = c}
           m == Cardinality(recent)
           r == Rate[c]
<1>1. m \in Nat
  <2>1. IsFiniteSet(recent)
    BY FS_Subset
  <2> QED
    BY <2>1, FS_CardinalityType
<1>2. r \in Nat /\ Hold \in Nat /\ PLAN_WINDOW \in Nat \ {0}
  BY ClosedLoopAssumption
<1>3. Plans(l, n)[c] = (2 * m * r * Hold + PLAN_WINDOW) \div (2 * PLAN_WINDOW)
  BY DEF Plans, Observed
<1> HIDE DEF m, r
<1>4. 2 * m * r * Hold + PLAN_WINDOW \in Nat /\ 2 * PLAN_WINDOW \in Nat \ {0}
  BY <1>1, <1>2
<1> QED
  BY <1>3, <1>4

\* More demands, no less of a plan.
LEMMA MoreShows ==
    ASSUME NEW a \in Nat, NEW b \in Nat, a <= b, NEW r \in Nat, NEW h \in Nat, NEW w \in Nat \ {0}
    PROVE  (2 * a * r * h + w) \div (2 * w) <= (2 * b * r * h + w) \div (2 * w)
<1>1. a * (r * h) \in Nat /\ b * (r * h) \in Nat /\ a * (r * h) <= b * (r * h)
  <2>1. r * h \in Nat
    OBVIOUS
  <2> DEFINE p == r * h
  <2> HIDE DEF p
  <2>2. p \in Nat => a * p \in Nat /\ b * p \in Nat /\ a * p <= b * p
    OBVIOUS
  <2> QED
    BY <2>1, <2>2 DEF p
<1>2. 2 * a * r * h = 2 * (a * (r * h)) /\ 2 * b * r * h = 2 * (b * (r * h))
  OBVIOUS
<1> DEFINE x == 2 * a * r * h + w
           y == 2 * b * r * h + w
           d == 2 * w
<1>3. x \in Nat /\ y \in Nat /\ x <= y /\ d \in Nat \ {0}
  BY <1>1, <1>2
<1> HIDE DEF x, y, d
<1>4. x \div d <= y \div d
  BY <1>3
<1> QED
  BY <1>4 DEF x, y, d

\* A log with more in its window shows no less demand.
LEMMA PlansMore ==
    ASSUME NEW l, IsFiniteSet(l), NEW k, IsFiniteSet(k), NEW n, NEW c \in Class,
           \A e \in l : e.t + PLAN_WINDOW >= n => e \in k
    PROVE  Plans(l, n)[c] <= Plans(k, n)[c]
<1> DEFINE R(s) == {e \in s : e.t + PLAN_WINDOW >= n /\ e.class = c}
           a == Cardinality(R(l))
           b == Cardinality(R(k))
           r == Rate[c]
           w == PLAN_WINDOW
<1>1. a \in Nat /\ b \in Nat /\ a <= b
  <2>1. R(l) \subseteq R(k)
    OBVIOUS
  <2>2. IsFiniteSet(R(k)) /\ IsFiniteSet(R(l))
    BY FS_Subset
  <2> HIDE DEF R
  <2> QED
    BY <2>1, <2>2, FS_Subset, FS_CardinalityType
<1>2. r \in Nat /\ Hold \in Nat /\ w \in Nat \ {0}
  BY ClosedLoopAssumption
<1>3. /\ Plans(l, n)[c] = (2 * a * r * Hold + w) \div (2 * w)
      /\ Plans(k, n)[c] = (2 * b * r * Hold + w) \div (2 * w)
  BY DEF Plans, Observed
<1> HIDE DEF a, b, r, w
<1>4. (2 * a * r * Hold + w) \div (2 * w) <= (2 * b * r * Hold + w) \div (2 * w)
  BY <1>1, <1>2, MoreShows, Zenon
<1> QED
  BY <1>3, <1>4, Zenon

\* The demand on Mine is a sum over the classes that belong there.
LEMMA DemandIsSum ==
    IsFiniteSet(log) => Demand = SumOf(Plans(log, now), ForMine)
<1> SUFFICES ASSUME IsFiniteSet(log) PROVE Demand = SumOf(Plans(log, now), ForMine)
  OBVIOUS
<1> DEFINE S == ForMine
           g == Plans(log, now)
           It(h) == h = [s \in SUBSET S |->
                           IF s = {} THEN 0
                           ELSE Observed(log, CHOOSE x \in s : TRUE, Rate[CHOOSE x \in s : TRUE],
                                         Hold, PLAN_WINDOW, now)
                                + h[s \ {CHOOSE x \in s : TRUE}]]
           iter == CHOOSE h : It(h)
<1>1. /\ IsFiniteSet(S) /\ S \subseteq Class
      /\ \A c \in S : g[c] = Observed(log, c, Rate[c], Hold, PLAN_WINDOW, now) /\ g[c] \in Nat
  <2>1. S \subseteq Class
    BY DEF ForMine
  <2>2. IsFiniteSet(S)
    BY <2>1, ClosedLoopAssumption, FS_Subset
  <2>3. ASSUME NEW c \in S
        PROVE  g[c] = Observed(log, c, Rate[c], Hold, PLAN_WINDOW, now) /\ g[c] \in Nat
    BY <2>1, PlansNat DEF Plans
  <2> QED
    BY <2>1, <2>2, <2>3
<1> HIDE DEF S, g
<1>2. ASSUME NEW h PROVE It(h) <=> Solves(h, g, S)
  <2>1. ASSUME NEW s \in SUBSET S
        PROVE  (IF s = {} THEN 0
                ELSE Observed(log, CHOOSE x \in s : TRUE, Rate[CHOOSE x \in s : TRUE],
                              Hold, PLAN_WINDOW, now)
                     + h[s \ {CHOOSE x \in s : TRUE}]) = Sum1(g, h, s)
    <3>1. s # {} => g[Any(s)] = Observed(log, Any(s), Rate[Any(s)], Hold, PLAN_WINDOW, now)
      BY <1>1, <2>1, AnyIn
    <3> QED
      BY <3>1 DEF Sum1, Any
  <2> QED
    BY <2>1 DEF Solves
<1>3. \E h : Solves(h, g, S)
  BY <1>1, SumSolves
<1>4. Solves(iter, g, S)
  <2>1. \E h : It(h)
    <3>1. PICK h : Solves(h, g, S)
      BY <1>3
    <3> HIDE DEF It
    <3>2. It(h)
      BY <1>2, <3>1
    <3> QED
      BY <3>2
  <2>2. It(iter)
    BY <2>1
  <2> HIDE DEF iter
  <2> QED
    BY <1>2, <2>2
<1>5. Demand = iter[S]
  BY DEF Demand, MapThenSumSet, MapThenFoldSet, S, ForMine
<1> HIDE DEF iter
<1>6. iter[S] = SumOf(g, S)
  BY <1>1, <1>4, SolutionIsSum
<1> QED
  BY <1>5, <1>6 DEF g, S

\* A demand is added to those of the window: the slice is needed as it was.
LEMMA DemandGrows ==
    ASSUME IsFiniteSet(log), NEW c \in Class, Demanded(c)
    PROVE  IsFiniteSet(log') /\ (Needed => Needed')
<1> DEFINE entry == [t |-> now, class |-> c,
                     nth |-> Cardinality({e \in {x \in log : x.t + PLAN_WINDOW >= now} :
                                             e.t = now /\ e.class = c}) + 1]
           reached == {e \in log : e.t + PLAN_WINDOW >= now}
<1>1. log' = reached \cup {entry} /\ now' = now
  BY DEF Demanded, Logged
<1> HIDE DEF entry
<1>2. IsFiniteSet(log')
  <2>1. IsFiniteSet(reached) /\ IsFiniteSet({entry})
    BY FS_Subset, FS_Singleton
  <2> QED
    BY <1>1, <2>1, FS_Union
<1>3. Demand = SumOf(Plans(log, now), ForMine)
  BY DemandIsSum
<1>4. Demand' = SumOf(Plans(log', now), ForMine)
  <2>1. (IsFiniteSet(log) => Demand = SumOf(Plans(log, now), ForMine))'
    BY DemandIsSum, PTL
  <2>2. IsFiniteSet(log') => Demand' = SumOf(Plans(log', now'), ForMine)
    BY <2>1 DEF Plans, ForMine, Home
  <2> QED
    BY <1>1, <1>2, <2>2
<1>5. IsFiniteSet(ForMine) /\ ForMine \subseteq Class
  <2>1. ForMine \subseteq Class
    BY DEF ForMine
  <2> QED
    BY <2>1, ClosedLoopAssumption, FS_Subset
<1>6. \A x \in ForMine : /\ Plans(log, now)[x] \in Nat /\ Plans(log', now)[x] \in Nat
                         /\ Plans(log, now)[x] <= Plans(log', now)[x]
  <2> SUFFICES ASSUME NEW x \in ForMine
               PROVE  /\ Plans(log, now)[x] \in Nat /\ Plans(log', now)[x] \in Nat
                      /\ Plans(log, now)[x] <= Plans(log', now)[x]
    OBVIOUS
  <2>1. \A e \in log : e.t + PLAN_WINDOW >= now => e \in log'
    BY <1>1
  <2> QED
    BY <1>2, <1>5, <2>1, PlansNat, PlansMore
<1>7. Demand \in Nat /\ Demand' \in Nat /\ Demand <= Demand'
  BY <1>3, <1>4, <1>5, <1>6, SumIsNat, SumMonotone
<1>8. (Needed <=> Demand + 5 >= 10) /\ (Needed' <=> Demand' + 5 >= 10)
  BY Zenon DEF Needed, AboveZero
<1>9. \A d \in Nat, e \in Nat : d <= e /\ d + 5 >= 10 => e + 5 >= 10
  OBVIOUS
<1>10. Demand + 5 >= 10 => Demand' + 5 >= 10
  BY <1>7, <1>9, Zenon
<1> QED
  BY <1>2, <1>8, <1>10

\* The last demand that the plan shows has been seen by a tick, or is in the plan still.
Heard ==
    /\ IsFiniteSet(log)
    /\ demanded \in (0 .. now) \cup {never}
    /\ demanded = now => Needed
    /\ (enabled /\ demanded # never /\ demanded < now /\ steady <= demanded) =>
          last_need # never /\ demanded <= last_need

\* Needed does not depend on what the loop does.
LEMMA NeededStays ==
    ASSUME IsFiniteSet(log), UNCHANGED <<log, now>>
    PROVE  Needed' <=> Needed
<1>1. (IsFiniteSet(log) => Demand = SumOf(Plans(log, now), ForMine))'
  BY DemandIsSum, PTL
<1>2. IsFiniteSet(log') => Demand' = SumOf(Plans(log', now'), ForMine)
  BY <1>1 DEF Plans, ForMine, Home
<1>3. Demand' = Demand
  BY <1>2, DemandIsSum
<1> QED
  BY <1>3, Zenon DEF Needed, AboveZero

LEMMA TickHeard ==
    ASSUME IInv, Heard, Tick
    PROVE  Heard'
<1>1. /\ log' = log /\ demanded' = demanded /\ now' = now + 1 /\ now \in Nat
      /\ steady' = steady /\ enabled' = enabled
      /\ last_need' = IF Needed \/ last_need = never THEN now ELSE last_need
  BY DEF Tick, IInv, InOrder
<1>2. last_need' # never
  BY <1>1, Durations
<1>3. (demanded # never /\ demanded < now' /\ steady <= demanded /\ enabled) => demanded <= last_need'
  <2> SUFFICES ASSUME demanded # never, demanded < now', steady <= demanded, enabled
               PROVE  demanded <= last_need'
    OBVIOUS
  <2>1. demanded \in 0 .. now
    BY DEF Heard
  <2>2. CASE demanded = now
    BY <1>1, <2>1, <2>2 DEF Heard
  <2>3. CASE demanded # now
    <3>1. demanded < now
      BY <1>1, <2>1, <2>3
    <3>2. last_need # never /\ demanded <= last_need
      BY <3>1 DEF Heard
    <3>3. last_need' \in {now, last_need}
      BY <1>1
    <3> QED
      BY <2>1, <3>1, <3>2, <3>3
  <2> QED
    BY <2>2, <2>3
<1>4. demanded' \in (0 .. now') \cup {never} /\ demanded' # now'
  BY <1>1, Durations DEF Heard
<1> QED
  BY <1>1, <1>2, <1>3, <1>4 DEF Heard

LEMMA OthersHeard ==
    ASSUME IInv, Heard, Next, ~Tick
    PROVE  Heard'
<1> USE Durations
<1>1. CASE TickBlind \/ TickOff
  <2>1. /\ log' = log /\ demanded' = demanded /\ now' = now + 1 /\ now \in Nat
        /\ enabled' = enabled /\ last_need' = last_need
        /\ (steady' = now + 1) \/ (steady' = steady /\ ~enabled)
    BY <1>1 DEF TickBlind, TickOff, TimePasses, service, IInv, InOrder
  <2>2. demanded' \in (0 .. now') \cup {never} /\ demanded' # now'
    BY <2>1 DEF Heard
  <2>3. steady' = now + 1 => (demanded = never \/ ~(steady' <= demanded))
    BY <2>1 DEF Heard
  <2> QED
    BY <2>1, <2>2, <2>3 DEF Heard
<1>2. ASSUME NEW c \in Class, Arrive(c) \/ Beat(c) PROVE Heard'
  <2>1. Demanded(c)
    BY <1>2 DEF Arrive, Beat
  <2>2. /\ UNCHANGED <<now, enabled, last_need, steady>> /\ now \in Nat
        /\ demanded' = IF Home(c) = {Mine} /\ Needed' THEN now ELSE demanded
    BY <2>1 DEF Demanded, service, IInv, InOrder
  <2>3. IsFiniteSet(log') /\ (Needed => Needed')
    BY <2>1, DemandGrows DEF Heard
  <2>4. demanded' = now' => Needed'
    BY <2>2, <2>3 DEF Heard
  <2> QED
    BY <2>2, <2>3, <2>4 DEF Heard
<1>3. CASE \E kind \in {"activate", "deactivate", "scale"} : Operate(kind)
  <2>1. UNCHANGED <<now, log, demanded, enabled, last_need, steady>>
    BY <1>3 DEF Operate, service
  <2> QED
    BY <2>1, NeededStays DEF Heard
<1>4. CASE Toggle \/ Restart
  <2>1. UNCHANGED <<now, log, demanded>> /\ steady' = now /\ now \in Nat
    BY <1>4 DEF Toggle, Restart, IInv, InOrder
  <2>2. ~(demanded < now /\ steady' <= demanded) \/ demanded = never
    BY <2>1 DEF Heard
  <2> QED
    BY <2>1, <2>2, NeededStays DEF Heard
<1>5. CASE Completes \/ RollsBack
  <2>1. UNCHANGED <<now, log, demanded, enabled, last_need, steady>>
    BY <1>5 DEF Completes, RollsBack
  <2> QED
    BY <2>1, NeededStays DEF Heard
<1> QED
  BY <1>1, <1>2, <1>3, <1>4, <1>5 DEF Next

LEMMA StutterHeard ==
    ASSUME Heard, UNCHANGED vars
    PROVE  Heard'
<1>1. UNCHANGED <<now, log, demanded, enabled, last_need, steady>>
  BY DEF vars
<1> QED
  BY <1>1, NeededStays DEF Heard

\* No demand goes unheard.
LEMMA HeardHolds == Spec => []Heard
<1>1. Init => Heard
  <2>1. Init => IsFiniteSet(log) /\ demanded = never /\ now = 0
    BY FS_EmptySet DEF Init
  <2> QED
    BY <2>1, Durations DEF Heard
<1>2. IInv /\ Heard /\ [Next]_vars => Heard'
  BY TickHeard, OthersHeard, StutterHeard
<1> QED
  BY <1>1, <1>2, Invariance, PTL DEF Spec

\* A slice is not switched off within IDLE_SECONDS of a demand the plan showed, whatever the
\* loop has learned or a restart made it forget, if the loop has been on since that demand.
THEOREM IdleTheorem == Spec => SwitchedOffIdle
<1>1. IInv /\ Heard /\ [Next]_vars =>
        [SwitchedOff => demanded = never \/ now - demanded >= IDLE_SECONDS \/ demanded < steady]_vars
  <2> SUFFICES ASSUME IInv, Heard, Next, SwitchedOff, demanded # never, ~(demanded < steady)
               PROVE  now - demanded >= IDLE_SECONDS
    OBVIOUS
  <2>1. Tick
    BY Durations DEF SwitchedOff, Next, TickBlind, TickOff, Arrive, Beat, Demanded, Operate, Toggle,
       Restart, Completes, RollsBack, IInv, InOrder
  <2>2. enabled /\ ~Needed /\ now - last_need' >= IDLE_SECONDS
    <3>1. op = "none" /\ op' = "deactivate"
      BY DEF SwitchedOff
    <3>2. op = "none" /\ Submit("activate") => op' = "activate"
      BY Submitted DEF IInv, InOrder
    <3> QED
      BY <2>1, <3>1, <3>2, TickDecides
  <2>3. last_need' = IF last_need = never THEN now ELSE last_need
    BY <2>1, <2>2 DEF Tick
  <2>4. now \in Nat /\ demanded \in 0 .. now /\ steady \in Nat /\ last_need \in (0 .. now) \cup {never}
    BY DEF Heard, IInv, InOrder
  <2>5. demanded # now
    BY <2>2 DEF Heard
  <2>6. demanded < now /\ steady <= demanded
    BY <2>4, <2>5
  <2>7. last_need # never /\ demanded <= last_need
    BY <2>2, <2>6 DEF Heard
  <2>8. last_need \in Nat /\ demanded \in Nat /\ now - last_need >= IDLE_SECONDS
    BY <2>2, <2>3, <2>4, <2>7
  <2> QED
    BY <2>4, <2>7, <2>8, Durations, Longer
<1> QED
  BY <1>1, HeardHolds, Invariance, PTL DEF Spec, SwitchedOffIdle

-----------------------------------------------------------------------------
(* In a rhythm that is learned, the slice is up when the next burst begins *)

\* Between a beat and the next, no time is a multiple of the period; the next beat is.
LEMMA BeatsApart ==
    ASSUME NEW p \in Nat \ {0}, NEW b \in Nat, b % p = 0, NEW n \in Nat, b < n, n <= b + p
    PROVE  /\ (b + p) % p = 0
           /\ n % p = 0 => n = b + p
<1> DEFINE q == b \div p
           r == n \div p
<1>1. q \in Nat /\ b = p * q
  OBVIOUS
<1>2. b + p = p * (q + 1)
  BY <1>1
<1>3. (p * (q + 1)) % p = 0
  BY <1>1
<1>4. r \in Nat /\ (n % p = 0 => n = p * r)
  OBVIOUS
<1> HIDE DEF q, r
<1>5. ASSUME n = p * r PROVE n = b + p
  <2>1. q < r
    <3>1. r <= q => p * r <= p * q
      BY <1>1, <1>4
    <3> QED
      BY <1>1, <1>4, <1>5, <3>1
  <2>2. r <= q + 1
    <3>1. q + 2 <= r => p * (q + 2) <= p * r
      BY <1>1, <1>4
    <3>2. p * (q + 2) = b + p + p
      BY <1>1
    <3> QED
      BY <1>1, <1>4, <1>5, <3>1, <3>2
  <2>3. r = q + 1
    BY <1>1, <1>4, <2>1, <2>2
  <2> QED
    BY <1>2, <1>5, <2>3
<1> QED
  BY <1>2, <1>3, <1>4, <1>5

\* A step of the period after step of the period: the gaps' median is the period.
LEMMA PeriodLearned ==
    ASSUME NEW on \in Seq(Nat), Len(on) >= 3, NEW p \in Nat,
           \A i \in 1 .. Len(on) - 1 : on[i + 1] = on[i] + p
    PROVE  NextOnset(on) = on[Len(on)] + p
<1> DEFINE gaps == [i \in 1 .. Len(on) - 1 |-> on[i + 1] - on[i]]
           m == Len(on) - 1
           G == {gaps[i] : i \in DOMAIN gaps}
           smaller(g) == {i \in DOMAIN gaps : gaps[i] < g}
           upto(g) == {i \in DOMAIN gaps : gaps[i] <= g}
<1>1. m \in Nat /\ m >= 2 /\ DOMAIN gaps = 1 .. m
  OBVIOUS
<1>2. \A i \in 1 .. m : gaps[i] = p
  OBVIOUS
<1>3. gaps \in Seq(Nat) /\ Len(gaps) = m
  BY <1>1, <1>2
<1> HIDE DEF gaps
<1>4. G = {p}
  <2>1. 1 \in 1 .. m
    BY <1>1
  <2> QED
    BY <1>1, <1>2, <2>1
<1>5. smaller(p) = {} /\ upto(p) = 1 .. m
  <2>1. \A i \in 1 .. m : ~(gaps[i] < p) /\ gaps[i] <= p
    BY <1>2
  <2> QED
    BY <1>1, <2>1
<1>6. Cardinality(smaller(p)) = 0 /\ Cardinality(upto(p)) = m
  <2>1. m \in Int /\ 1 \in Int /\ m >= 1
    BY <1>1
  <2>2. Cardinality(1 .. m) = m
    BY <2>1, FS_Interval
  <2> HIDE DEF smaller, upto, m
  <2> QED
    BY <1>5, <2>2, FS_EmptySet
<1>7. Cardinality(smaller(p)) <= Len(gaps) \div 2 /\ Len(gaps) \div 2 < Cardinality(upto(p))
  BY <1>1, <1>3, <1>6
<1>8. Median(gaps) = p
  BY <1>4, <1>7 DEF Median
<1> QED
  BY <1>8 DEF NextOnset, gaps

\* Onsets a period apart, the last at b.
InStep(s, b, p) == s[Len(s)] = b /\ \A i \in 1 .. Len(s) - 1 : s[i + 1] = s[i] + p

\* What is remembered of a sequence in step is in step.
LEMMA LatestInStep ==
    ASSUME NEW on \in Seq(Nat), NEW b \in Nat, NEW p \in Nat,
           \A i \in 1 .. Len(on) - 1 : on[i + 1] = on[i] + p,
           on = <<>> \/ b = on[Len(on)] + p
    PROVE  /\ Latest(Append(on, b)) \in Seq(Nat) /\ Len(Latest(Append(on, b))) \in 1 .. Len(on) + 1
           /\ InStep(Latest(Append(on, b)), b, p)
<1> DEFINE on1 == Append(on, b)
<1>1. on1 \in Seq(Nat) /\ Len(on1) = Len(on) + 1 /\ on1[Len(on1)] = b
  OBVIOUS
<1>2. \A i \in 1 .. Len(on1) - 1 : on1[i + 1] = on1[i] + p
  OBVIOUS
<1> HIDE DEF on1
<1>3. KEEP \in Nat \ {0}
  BY ClosedLoopAssumption
<1> DEFINE Right(s) == s \in Seq(Nat) /\ Len(s) \in 1 .. Len(on) + 1 /\ InStep(s, b, p)
<1>4. CASE Len(on1) <= KEEP
  <2>1. Latest(on1) = on1
    BY <1>1, <1>3, <1>4 DEF Latest
  <2>2. Len(on1) \in 1 .. Len(on) + 1
    BY <1>1
  <2>3. Right(on1)
    BY <1>1, <1>2, <2>2 DEF InStep
  <2> QED
    BY <2>1, <2>3 DEF on1
<1>5. CASE Len(on1) > KEEP
  <2> DEFINE from == Len(on1) - KEEP + 1
             late == SubSeq(on1, from, Len(on1))
  <2>1. from \in 1 .. Len(on1) /\ Len(on1) \in Nat
    BY <1>1, <1>3, <1>5
  <2>2. /\ late \in Seq(Nat) /\ Len(late) = KEEP
        /\ \A i \in 1 .. KEEP : late[i] = on1[from + i - 1]
    BY <1>1, <1>3, <2>1, SubSeqProperties
  <2>3. Latest(on1) = late
    BY <1>5, <1>3 DEF Latest
  <2> HIDE DEF late
  <2>4. late[KEEP] = b
    BY <1>1, <1>3, <2>1, <2>2
  <2>5. ASSUME NEW i \in 1 .. KEEP - 1 PROVE late[i + 1] = late[i] + p
    <3>1. i \in 1 .. KEEP /\ i + 1 \in 1 .. KEEP
      BY <1>3
    <3>2. late[i] = on1[from + i - 1] /\ late[i + 1] = on1[(from + i - 1) + 1]
      BY <1>3, <2>1, <2>2, <3>1
    <3>3. from + i - 1 \in 1 .. Len(on1) - 1
      BY <1>3, <2>1
    <3> QED
      BY <1>2, <3>2, <3>3
  <2>6. Right(late)
    BY <1>1, <1>3, <1>5, <2>2, <2>4, <2>5 DEF InStep
  <2> QED
    BY <2>3, <2>6 DEF on1
<1> QED
  BY <1>1, <1>3, <1>4, <1>5

\* What the plan shows of n demands of a class.
Shown(c, n) == (2 * n * Rate[c] * Hold + PLAN_WINDOW) \div (2 * PLAN_WINDOW)

Reached == {e \in log : e.t + PLAN_WINDOW >= now}

\* A log of one class alone, which only Mine is for: a burst in the window is needed, an
\* empty window is not.
LEMMA NeededOfOne ==
    ASSUME IsFiniteSet(log), NEW c \in Class, ForMine = {c}, \A e \in log : e.class = c,
           AboveZero(Shown(c, Burst))
    PROVE  /\ Cardinality(Reached) >= Burst => Needed
           /\ Reached = {} => ~Needed
<1> DEFINE m == Cardinality(Reached)
           g == Plans(log, now)
<1>1. m \in Nat /\ Rate[c] \in Nat /\ Hold \in Nat /\ PLAN_WINDOW \in Nat \ {0} /\ Burst \in Nat
  <2>1. IsFiniteSet(Reached)
    BY FS_Subset DEF Reached
  <2> QED
    BY <2>1, FS_CardinalityType, ClosedLoopAssumption
<1>2. {e \in log : e.t + PLAN_WINDOW >= now /\ e.class = c} = Reached
  BY DEF Reached
<1>3. g[c] = Shown(c, m)
  BY <1>2 DEF Plans, Observed, Shown
<1>4. g[c] \in Nat
  BY PlansNat
<1> HIDE DEF g, m
<1>5. Demand = g[c]
  <2>1. Demand = SumOf(g, {c})
    BY DemandIsSum DEF g
  <2>2. IsFiniteSet({c}) /\ IsFiniteSet({}) /\ {c} \ {c} = {} /\ \A x \in {c} : g[x] \in Nat
    BY <1>4, FS_Singleton, FS_EmptySet
  <2>3. SumOf(g, {c}) = g[c] + SumOf(g, {c} \ {c})
    BY <2>2, SumRemove
  <2>4. SumOf(g, {}) = 0
    BY <2>2, SumEquation
  <2> QED
    BY <1>4, <2>1, <2>2, <2>3, <2>4
<1>6. Needed <=> Shown(c, m) + 5 >= 10
  BY <1>3, <1>5, Zenon DEF Needed, AboveZero
<1>7. ASSUME m >= Burst PROVE Needed
  <2>1. Shown(c, Burst) <= Shown(c, m)
    BY <1>1, <1>7, MoreShows DEF Shown
  <2>2. Shown(c, Burst) \in Nat /\ Shown(c, m) \in Nat
    BY <1>1, <1>3, <1>4 DEF Shown
  <2>3. Shown(c, Burst) + 5 >= 10
    BY DEF AboveZero
  <2> QED
    BY <1>6, <2>1, <2>2, <2>3
<1>8. ASSUME Reached = {} PROVE ~Needed
  <2>1. m = 0
    BY <1>8, FS_EmptySet DEF m
  <2>2. Shown(c, 0) = PLAN_WINDOW \div (2 * PLAN_WINDOW)
    BY <1>1 DEF Shown
  <2>3. PLAN_WINDOW \div (2 * PLAN_WINDOW) = 0
    BY <1>1
  <2> QED
    BY <1>6, <2>1, <2>2, <2>3
<1> QED
  BY <1>7, <1>8 DEF m

\* What a rhythm must be like to be learned: one class is all that Mine serves, and a burst of
\* it is needed; the lead is longer than an activation and no shorter than a deactivation; an
\* operation is over before the next burst.
Learnable ==
    /\ \E c \in Class : ForMine = {c} /\ AboveZero(Shown(c, Burst))
    /\ Takes["activate"] < ACTIVATE_LEAD /\ Takes["deactivate"] <= ACTIVATE_LEAD
    /\ \A p \in Periods \ {0} : Takes["activate"] < p /\ Takes["deactivate"] < p

\* The demand of one burst has left the window when the next begins.
Separate == PLAN_WINDOW + 1 < period

\* For the burst predicted for n: the slice is up, or is switched on in time, or what has it
\* down began before the lead did.
JustChanged(n) == changed # never /\ changed + ACTIVATE_LEAD > n
Prepared(n) ==
    \/ op = "none" /\ state = "ACTIVE"
    \/ op = "none" /\ state = "DORMANT" /\ (now + ACTIVATE_LEAD <= n \/ JustChanged(n))
    \/ op = "activate" /\ (until < n \/ JustChanged(n))
    \/ op = "deactivate" /\ until < n

\* The tick of a burst finds the slice needed: what runs then is over by the next burst.
LEMMA BurstPrepares ==
    ASSUME IInv, Tick, Needed, op # "scale", NEW p \in Nat,
           Takes["activate"] < p, Takes["deactivate"] < p, NEW n \in Nat, n = now + p
    PROVE  Prepared(n)' /\ op' # "scale"
<1>1. /\ now \in Nat /\ now' = now + 1
      /\ op \in {"none", "activate", "deactivate"}
      /\ op # "none" => until \in Nat /\ until <= now + Takes[op]
      /\ op = "none" => state \in {"ACTIVE", "DORMANT"}
  BY TickDecides DEF IInv, InOrder
<1>2. CASE UNCHANGED <<op, until, state>> /\ ~(op = "none" /\ Needed /\ state = "DORMANT")
  <2>1. CASE op = "none"
    BY <1>1, <1>2, <2>1 DEF Prepared
  <2>2. CASE op # "none"
    <3>1. until' < n
      BY <1>1, <1>2, <2>2, Durations
    <3> QED
      BY <1>1, <1>2, <2>2, <3>1 DEF Prepared
  <2> QED
    BY <2>1, <2>2
<1>3. CASE op = "none" /\ state = "DORMANT" /\ Submit("activate")
  <2>1. op' = "activate" /\ until' \in Nat /\ until' <= now + Takes["activate"]
    BY <1>1, <1>3, Submitted
  <2>2. until' < n
    BY <1>1, <2>1, Durations
  <2> QED
    BY <1>1, <2>1, <2>2 DEF Prepared
<1> QED
  BY <1>2, <1>3, TickDecides

\* A tick in between, which predicts the next burst for n.
LEMMA TickPrepares ==
    ASSUME IInv, Tick, ~(Needed /\ ~prev_need), NEW n \in Nat, NextOnset(onsets) = n, now < n,
           op # "scale", Prepared(n),
           Takes["activate"] < ACTIVATE_LEAD, Takes["deactivate"] <= ACTIVATE_LEAD
    PROVE  Prepared(n)' /\ op' # "scale"
<1> DEFINE seen == IF Needed \/ last_need = never THEN now ELSE last_need
           due == DueSoon(n)
           kind == Decision(Needed, seen, due)
<1>0. ACTIVATE_LEAD \in Nat /\ IDLE_SECONDS \in Nat /\ never \notin Nat
  BY ClosedLoopAssumption
<1>1. /\ now \in Nat /\ now' = now + 1 /\ changed' = changed /\ Submit(kind)
      /\ op \in {"none", "activate", "deactivate"}
      /\ op # "none" => until \in Nat
      /\ changed # never => changed \in Nat
  BY DEF Tick, IInv, InOrder
<1>2. due <=> now + ACTIVATE_LEAD >= n
  BY <1>0, <1>1 DEF DueSoon
<1> HIDE DEF due
<1>3. /\ kind \in {"activate", "deactivate", "none"}
      /\ kind = "activate" => state = "DORMANT"
      /\ kind = "deactivate" => state = "ACTIVE" /\ ~due
      /\ due /\ state = "DORMANT" => kind = "activate"
  BY DEF Decision
<1> HIDE DEF kind
<1>4. CASE op # "none"
  <2>1. UNCHANGED <<op, until, state>>
    BY <1>1, <1>4 DEF Submit
  <2> QED
    BY <1>1, <1>4, <2>1 DEF Prepared, JustChanged
<1>5. CASE op = "none" /\ kind = "none"
  <2>1. UNCHANGED <<op, until, state>>
    BY <1>1, <1>5 DEF Submit
  <2>2. state = "DORMANT" => now' + ACTIVATE_LEAD <= n
    BY <1>0, <1>1, <1>2, <1>3, <1>5
  <2> QED
    BY <1>1, <1>5, <2>1, <2>2 DEF Prepared
<1>6. CASE op = "none" /\ kind = "activate"
  <2>1. op' = "activate" /\ until' \in Nat /\ until' <= now + Takes["activate"]
    BY <1>1, <1>6, Submitted
  <2>2. now + ACTIVATE_LEAD <= n \/ JustChanged(n)
    BY <1>3, <1>6 DEF Prepared
  <2>3. now + ACTIVATE_LEAD <= n => until' < n
    BY <1>0, <1>1, <2>1, Durations
  <2> QED
    BY <1>1, <2>1, <2>2, <2>3 DEF Prepared, JustChanged
<1>7. CASE op = "none" /\ kind = "deactivate"
  <2>1. op' = "deactivate" /\ until' \in Nat /\ until' <= now + Takes["deactivate"]
    BY <1>1, <1>7, Submitted
  <2>2. until' < n
    BY <1>0, <1>1, <1>2, <1>3, <1>7, <2>1, Durations
  <2> QED
    BY <2>1, <2>2 DEF Prepared
<1> QED
  BY <1>1, <1>3, <1>4, <1>5, <1>6, <1>7

LEMMA CompletesPrepares ==
    ASSUME IInv, Completes, op # "scale", NEW n \in Nat, Prepared(n)
    PROVE  Prepared(n)'
<1>1. /\ now \in Nat /\ now' = now /\ changed' = now /\ op' = "none" /\ now # never
      /\ state' \in {"DORMANT", "ACTIVE"}
  BY Durations DEF Completes, IInv, InOrder
<1>2. now + ACTIVATE_LEAD <= n \/ now + ACTIVATE_LEAD > n
  BY <1>1, ClosedLoopAssumption
<1> QED
  BY <1>1, <1>2 DEF Prepared, JustChanged

\* In a rhythm nobody interferes, and the demands of the moment are as many as counted.
Kept == period \in Periods /\ onsets \in Seq(Nat) /\ enabled /\ op # "scale"

AtNow == {e \in log : e.t = now}
Counted ==
    /\ \A e \in log : e.t \in Nat /\ e.nth \in Nat /\ e.class \in ForMine
    /\ arrivals \in Nat /\ Cardinality(AtNow) = arrivals
    /\ \A e \in AtNow : e.nth <= arrivals

\* Before the first tick; and with the last whole burst at b.
First == now = 0 /\ onsets = <<>> /\ ~prev_need /\ AtNow = log

Heeded(b) ==
    /\ \A e \in log : e.t <= b \/ (e.t = now /\ now = b + period)
    /\ now <= b + PLAN_WINDOW => Cardinality({e \in log : e.t = b}) >= Burst
Onsets(b) ==
    /\ prev_need <=> now <= b + PLAN_WINDOW + 1
    /\ Separate => Len(onsets) >= 1 /\ InStep(onsets, b, period)
    /\ ~Separate => Len(onsets) <= 1
Since(b) ==
    /\ b % period = 0 /\ b < now /\ now <= b + period
    /\ Heeded(b) /\ Onsets(b)
    /\ Separate /\ Len(onsets) >= 3 => Prepared(b + period)

Rhythm == period > 0 => Kept /\ Counted /\ (First \/ \E b \in Nat : Since(b))

LEMMA Constants ==
    /\ PLAN_WINDOW \in Nat \ {0} /\ Burst \in Nat /\ ACTIVATE_LEAD \in Nat
    /\ Periods \subseteq Nat
  BY ClosedLoopAssumption

\* The one class of a rhythm.
LEMMA OneClass ==
    ASSUME Learnable, Heard, Counted
    PROVE  /\ Cardinality(Reached) >= Burst => Needed
           /\ Reached = {} => ~Needed
<1>1. PICK c \in Class : ForMine = {c} /\ AboveZero(Shown(c, Burst))
  BY DEF Learnable
<1>2. \A e \in log : e.class = c
  BY <1>1 DEF Counted
<1> QED
  BY <1>1, <1>2, NeededOfOne DEF Heard

\* Demands within the window, as many as a burst.
LEMMA EnoughReached ==
    ASSUME Learnable, Heard, Counted, NEW S, S \subseteq Reached, Cardinality(S) >= Burst
    PROVE  Needed
<1>1. IsFiniteSet(Reached)
  BY FS_Subset DEF Reached, Heard
<1>2. IsFiniteSet(S) /\ Cardinality(S) <= Cardinality(Reached)
  BY <1>1, FS_Subset
<1>3. Cardinality(S) \in Nat /\ Cardinality(Reached) \in Nat
  BY <1>1, <1>2, FS_CardinalityType
<1> QED
  BY <1>2, <1>3, OneClass, Constants

\* After a tick no demand is of the moment.
LEMMA NoneYet ==
    ASSUME Counted, now \in Nat, now' = now + 1, log' = log, arrivals' = 0,
           \A e \in log : e.t <= now
    PROVE  Counted'
<1>1. AtNow' = {}
  BY DEF AtNow, Counted
<1>2. Cardinality({}) = 0
  BY FS_EmptySet
<1>3. ForMine' = ForMine
  BY DEF ForMine, Home
<1> QED
  BY <1>1, <1>2, <1>3 DEF Counted

\* The tick of a burst begins the next step of the rhythm.
LEMMA BurstTick ==
    ASSUME IInv, Heard, Learnable, Rhythm, period > 0, Tick, now % period = 0
    PROVE  Rhythm'
<1> USE Constants
<1>1. /\ now \in Nat /\ now' = now + 1 /\ log' = log /\ period' = period /\ enabled' = enabled
      /\ arrivals = Burst /\ arrivals' = 0
      /\ prev_need' = Needed
      /\ onsets' = IF Needed /\ ~prev_need THEN Latest(Append(onsets, now)) ELSE onsets
  BY DEF Tick, Ready, IInv, InOrder
<1>2. Kept /\ Counted /\ period \in Nat \ {0}
  <2>1. Kept /\ Counted
    BY DEF Rhythm
  <2> QED
    BY <2>1 DEF Kept
<1>3. Needed
  <2>1. AtNow \subseteq Reached
    BY <1>1 DEF AtNow, Reached
  <2>2. Cardinality(AtNow) >= Burst
    BY <1>1, <1>2 DEF Counted
  <2> QED
    BY <1>2, <2>1, <2>2, EnoughReached
<1>4. ASSUME NEW b \in Nat, Since(b) PROVE now = b + period
  BY <1>1, <1>2, <1>4, BeatsApart DEF Since
<1>5. \A e \in log : e.t <= now
  <2>1. CASE First
    BY <1>1, <1>2, <2>1 DEF First, AtNow, Counted
  <2>2. ASSUME NEW b \in Nat, Since(b) PROVE \A e \in log : e.t <= now
    BY <1>1, <1>2, <2>2 DEF Since, Heeded, Counted
  <2> QED
    BY <1>2, <2>1, <2>2 DEF Rhythm
<1>6. Counted'
  BY <1>1, <1>2, <1>5, NoneYet
<1>7. PICK n \in Nat : n = now
  BY <1>1
<1>8. Heeded(n)'
  <2>1. AtNow = {e \in log : e.t = n}
    BY <1>7 DEF AtNow
  <2>2. Cardinality({e \in log : e.t = n}) >= Burst
    BY <1>1, <1>2, <2>1 DEF Counted
  <2> QED
    BY <1>1, <1>5, <1>7, <2>2 DEF Heeded
<1>9. Onsets(n)' /\ onsets' \in Seq(Nat)
  <2>1. prev_need' /\ now' <= n + PLAN_WINDOW + 1 /\ Separate' = Separate
    BY <1>1, <1>2, <1>3, <1>7 DEF Separate
  <2> DEFINE late == Latest(Append(onsets, n))
  <2>2. CASE First
    <3>1. onsets = <<>> /\ onsets' = late
      BY <1>1, <1>3, <1>7, <2>2 DEF First
    <3>2. late \in Seq(Nat) /\ Len(late) \in 1 .. Len(onsets) + 1 /\ InStep(late, n, period)
      <4>1. \A i \in 1 .. Len(onsets) - 1 : onsets[i + 1] = onsets[i] + period
        BY <3>1
      <4> QED
        BY <1>2, <3>1, <4>1, LatestInStep DEF Kept
    <3> HIDE DEF late
    <3>3. Len(late) = 1
      <4>1. Len(onsets) = 0
        BY <3>1
      <4> QED
        BY <3>2, <4>1
    <3>4. onsets' \in Seq(Nat) /\ Len(onsets') = 1 /\ InStep(onsets', n, period)
      BY <3>1, <3>2, <3>3
    <3>5. Len(onsets') >= 1 /\ Len(onsets') <= 1
      BY <3>4
    <3>6. period' = period
      BY <1>1
    <3>7. InStep(onsets', n, period')
      BY <3>4, <3>6, Zenon
    <3> QED
      BY <2>1, <3>4, <3>5, <3>7 DEF Onsets
  <2>3. ASSUME NEW b \in Nat, Since(b), Separate PROVE Onsets(n)' /\ onsets' \in Seq(Nat)
    <3>1. ~prev_need
      <4>1. now = b + period /\ PLAN_WINDOW + 1 < period
        BY <1>4, <2>3 DEF Separate
      <4>2. prev_need <=> now <= b + PLAN_WINDOW + 1
        BY <2>3 DEF Since, Onsets
      <4> QED
        BY <1>2, <4>1, <4>2
    <3>2. onsets' = late
      BY <1>1, <1>3, <1>7, <3>1
    <3>3. n = onsets[Len(onsets)] + period
      BY <1>4, <1>7, <2>3 DEF Since, Onsets, InStep
    <3>4. late \in Seq(Nat) /\ Len(late) \in 1 .. Len(onsets) + 1 /\ InStep(late, n, period)
      <4>1. \A i \in 1 .. Len(onsets) - 1 : onsets[i + 1] = onsets[i] + period
        BY <2>3 DEF Since, Onsets, InStep
      <4> QED
        BY <1>2, <3>3, <4>1, LatestInStep DEF Kept
    <3> HIDE DEF late
    <3> QED
      BY <1>1, <2>1, <2>3, <3>2, <3>4 DEF Onsets
  <2>4. ASSUME NEW b \in Nat, Since(b), ~Separate PROVE Onsets(n)' /\ onsets' \in Seq(Nat)
    <3>1. prev_need
      BY <1>1, <1>2, <1>4, <2>4 DEF Since, Onsets, Separate
    <3>2. onsets' = onsets
      BY <1>1, <3>1
    <3> QED
      BY <1>1, <1>2, <2>1, <2>4, <3>2 DEF Onsets, Since, Kept
  <2> QED
    BY <1>2, <2>2, <2>3, <2>4 DEF Rhythm
<1>10. \A m \in Nat : m = n + period => Prepared(m)' /\ op' # "scale"
  BY <1>2, <1>3, <1>7, BurstPrepares DEF Kept, Learnable
<1>11. Prepared(n + period)' /\ op' # "scale"
  BY <1>1, <1>2, <1>10
<1>12. n % period = 0 /\ n < now' /\ now' <= n + period
  BY <1>1, <1>2, <1>7
<1>13. Since(n)'
  BY <1>1, <1>8, <1>9, <1>11, <1>12 DEF Since
<1>14. Kept'
  BY <1>1, <1>2, <1>9, <1>11 DEF Kept
<1> QED
  BY <1>6, <1>13, <1>14 DEF Rhythm

\* A tick between bursts: the burst counts as long as the window reaches it.
LEMMA QuietTick ==
    ASSUME IInv, Heard, Learnable, Rhythm, period > 0, Tick, now % period # 0
    PROVE  Rhythm'
<1> USE Constants
<1>1. /\ now \in Nat /\ now' = now + 1 /\ log' = log /\ period' = period /\ enabled' = enabled
      /\ arrivals' = 0 /\ prev_need' = Needed
      /\ onsets' = IF Needed /\ ~prev_need THEN Latest(Append(onsets, now)) ELSE onsets
  BY DEF Tick, IInv, InOrder
<1>2. Kept /\ Counted /\ period \in Nat \ {0}
  <2>1. Kept /\ Counted
    BY DEF Rhythm
  <2> QED
    BY <2>1 DEF Kept
<1>3. PICK b \in Nat : Since(b)
  <2>1. ~First
    BY <1>2 DEF First
  <2> QED
    BY <2>1 DEF Rhythm
<1>4. b % period = 0 /\ b < now /\ now < b + period
  <2>1. now <= b + period /\ b % period = 0 /\ b < now
    BY <1>3 DEF Since
  <2>2. (b + period) % period = 0
    BY <1>1, <1>2, <2>1, BeatsApart
  <2>3. now # b + period
    BY <2>2
  <2> QED
    BY <1>1, <1>2, <2>1, <2>3
<1>5. \A e \in log : e.t \in Nat /\ e.t <= b
  BY <1>3, <1>4 DEF Since, Heeded, Counted, Rhythm
<1>6. Needed <=> now <= b + PLAN_WINDOW
  <2>1. ASSUME now <= b + PLAN_WINDOW PROVE Needed
    <3>1. {e \in log : e.t = b} \subseteq Reached
      BY <2>1 DEF Reached
    <3>2. Cardinality({e \in log : e.t = b}) >= Burst
      BY <1>3, <2>1 DEF Since, Heeded
    <3> QED
      BY <1>2, <3>1, <3>2, EnoughReached
  <2>2. ASSUME ~(now <= b + PLAN_WINDOW) PROVE ~Needed
    <3>1. Reached = {}
      BY <1>1, <1>5, <2>2 DEF Reached
    <3> QED
      BY <1>2, <3>1, OneClass
  <2> QED
    BY <2>1, <2>2
<1>7. ~(Needed /\ ~prev_need) /\ onsets' = onsets
  <2>1. now <= b + PLAN_WINDOW => prev_need
    BY <1>1, <1>3 DEF Since, Onsets
  <2> QED
    BY <1>1, <1>6, <2>1
<1>8. Counted'
  <2>1. \A e \in log : e.t <= now
    BY <1>1, <1>4, <1>5
  <2> QED
    BY <1>1, <1>2, <2>1, NoneYet
<1>9. Heeded(b)' /\ Separate' = Separate
  <2>1. now' <= b + PLAN_WINDOW => now <= b + PLAN_WINDOW
    BY <1>1
  <2> QED
    BY <1>1, <1>3, <1>5, <2>1 DEF Heeded, Since, Separate
<1>10. Onsets(b)'
  <2>1. prev_need' <=> now' <= b + PLAN_WINDOW + 1
    BY <1>1, <1>6
  <2> QED
    BY <1>1, <1>3, <1>7, <1>9, <2>1 DEF Onsets, Since
<1>11. op' # "scale" /\ (Separate /\ Len(onsets) >= 3 => Prepared(b + period)')
  <2>1. CASE Separate /\ Len(onsets) >= 3
    <3>1. NextOnset(onsets) = b + period
      BY <1>2, <1>3, <2>1, PeriodLearned DEF Since, Onsets, InStep, Kept
    <3>2. PICK n \in Nat : n = b + period
      BY <1>2
    <3>3. Prepared(n)
      BY <1>3, <2>1, <3>2 DEF Since
    <3>4. Prepared(n)' /\ op' # "scale"
      BY <1>2, <1>4, <1>7, <3>1, <3>2, <3>3, TickPrepares DEF Learnable, Kept
    <3> QED
      BY <1>1, <3>2, <3>4
  <2>2. CASE ~(Separate /\ Len(onsets) >= 3)
    <3>1. op' # "scale"
      BY <1>2, TickDecides, Submitted DEF Kept, IInv, InOrder
    <3> QED
      BY <2>2, <3>1
  <2> QED
    BY <2>1, <2>2
<1>12. b % period = 0 /\ b < now' /\ now' <= b + period
  BY <1>1, <1>2, <1>4
<1>13. Since(b)'
  BY <1>1, <1>7, <1>9, <1>10, <1>11, <1>12 DEF Since
<1>14. Kept'
  BY <1>1, <1>2, <1>7, <1>11 DEF Kept
<1> QED
  BY <1>8, <1>13, <1>14 DEF Rhythm

\* A demand of a burst: one more of the moment, and nothing the window reaches is lost.
LEMMA BeatKeeps ==
    ASSUME IInv, Heard, Rhythm, period > 0, NEW c \in Class, Beat(c), Learnable
    PROVE  Rhythm'
<1> USE Constants
<1> DEFINE before == {e \in {x \in log : x.t + PLAN_WINDOW >= now} : e.t = now /\ e.class = c}
           entry == [t |-> now, class |-> c, nth |-> Cardinality(before) + 1]
<1>1. /\ now \in Nat /\ now % period = 0 /\ c \in ForMine
      /\ UNCHANGED <<now, period, state, op, until, enabled, onsets, prev_need, changed>>
      /\ log' = Reached \cup {entry} /\ arrivals' = arrivals + 1
  BY DEF Beat, Demanded, Logged, Reached, service, IInv, InOrder, ForMine
<1>2. Kept /\ Counted /\ period \in Nat \ {0}
  <2>1. Kept /\ Counted
    BY DEF Rhythm
  <2> QED
    BY <2>1 DEF Kept
<1>3. before = AtNow
  <2>1. \A e \in log : e.class = c
    BY <1>1, <1>2 DEF Learnable, Counted
  <2> QED
    BY <1>1, <1>2, <2>1 DEF AtNow, Counted
<1>4. entry = [t |-> now, class |-> c, nth |-> arrivals + 1]
  BY <1>2, <1>3 DEF Counted
<1> HIDE DEF before, entry
<1>5. entry.t = now /\ entry.class = c /\ entry.nth = arrivals + 1
  BY <1>4
<1>6. AtNow' = AtNow \cup {entry} /\ entry \notin AtNow /\ AtNow \subseteq Reached
  <2>1. entry \notin AtNow
    BY <1>2, <1>5 DEF Counted
  <2> QED
    BY <1>1, <1>5, <2>1 DEF AtNow, Reached
<1>7. Counted'
  <2>1. IsFiniteSet(AtNow)
    BY FS_Subset DEF AtNow, Heard
  <2>2. Cardinality(AtNow') = arrivals + 1
    BY <1>2, <1>6, <2>1, FS_AddElement DEF Counted
  <2>3. ForMine' = ForMine
    BY DEF ForMine, Home
  <2>4. \A e \in log' : e.t \in Nat /\ e.nth \in Nat /\ e.class \in ForMine
    BY <1>1, <1>2, <1>5 DEF Counted, Reached
  <2>5. \A e \in AtNow' : e.nth <= arrivals + 1
    BY <1>2, <1>5, <1>6 DEF Counted, AtNow
  <2> QED
    BY <1>1, <1>2, <2>2, <2>3, <2>4, <2>5 DEF Counted
<1>8. Kept'
  BY <1>1, <1>2 DEF Kept
<1>9. CASE First
  <2>1. First'
    BY <1>1, <1>6, <1>9 DEF First, Reached
  <2> QED
    BY <1>7, <1>8, <2>1 DEF Rhythm
<1>10. ASSUME NEW b \in Nat, Since(b) PROVE Since(b)'
  <2>1. now = b + period /\ b < now
    BY <1>1, <1>2, <1>10, BeatsApart DEF Since
  <2>2. \A e \in log' : e.t <= b \/ (e.t = now /\ now = b + period)
    BY <1>1, <1>5, <1>10, <2>1 DEF Since, Heeded, Reached
  <2>3. now <= b + PLAN_WINDOW => {e \in log' : e.t = b} = {e \in log : e.t = b}
    BY <1>1, <1>5, <2>1 DEF Reached
  <2>4. Heeded(b)'
    BY <1>1, <1>10, <2>2, <2>3 DEF Since, Heeded
  <2>5. Onsets(b)' /\ Separate' = Separate
    BY <1>1, <1>10 DEF Since, Onsets, Separate
  <2>6. Prepared(b + period) => Prepared(b + period)'
    BY <1>1 DEF Prepared, JustChanged
  <2> QED
    BY <1>1, <1>10, <2>4, <2>5, <2>6 DEF Since
<1> QED
  BY <1>7, <1>8, <1>9, <1>10 DEF Rhythm

\* Nothing else happens in a rhythm but the end of an operation.
LEMMA RhythmNext ==
    ASSUME IInv, Heard, Learnable, Rhythm, [Next]_vars
    PROVE  Rhythm'
<1> SUFFICES ASSUME period' > 0 PROVE Rhythm'
  BY DEF Rhythm
<1>0. period' = period
  BY DEF Next, Tick, TickBlind, TickOff, TimePasses, Arrive, Beat, Demanded, Operate, Toggle, Restart,
     Completes, RollsBack, vars
<1>1. period > 0 /\ Kept /\ Counted /\ period # 0
  <2>1. period > 0 /\ Kept /\ Counted
    BY <1>0 DEF Rhythm
  <2> QED
    BY <2>1, Constants DEF Kept
<1>2. CASE Tick
  BY <1>1, <1>2, BurstTick, QuietTick
<1>3. CASE \E c \in Class : Beat(c)
  BY <1>1, <1>3, BeatKeeps
<1>4. CASE Completes
  <2>1. /\ UNCHANGED <<now, period, log, enabled, onsets, prev_need, arrivals>> /\ op' = "none"
    BY <1>4 DEF Completes
  <2>2. Kept' /\ Counted' /\ (First => First') /\ Separate' = Separate
    BY <1>1, <2>1 DEF Kept, Counted, First, AtNow, Separate, ForMine, Home
  <2>3. ASSUME NEW b \in Nat, Since(b) PROVE Since(b)'
    <3>1. Heeded(b)' /\ Onsets(b)'
      BY <2>1, <2>2, <2>3 DEF Since, Heeded, Onsets
    <3>2. PICK n \in Nat : n = b + period
      BY <1>1, Constants DEF Kept
    <3>3. Prepared(n) => Prepared(n)'
      BY <1>1, <1>4, CompletesPrepares DEF Kept
    <3> QED
      BY <2>1, <2>2, <2>3, <3>1, <3>2, <3>3 DEF Since
  <2> QED
    BY <1>1, <2>2, <2>3 DEF Rhythm
<1>5. CASE UNCHANGED vars
  <2>1. /\ UNCHANGED <<now, period, log, enabled, onsets, prev_need, arrivals, op, state, until, changed>>
    BY <1>5 DEF vars
  <2>2. Kept' /\ Counted' /\ (First => First') /\ Separate' = Separate
    BY <1>1, <2>1 DEF Kept, Counted, First, AtNow, Separate, ForMine, Home
  <2>3. ASSUME NEW b \in Nat, Since(b) PROVE Since(b)'
    <3>1. Heeded(b)' /\ Onsets(b)'
      BY <2>1, <2>2, <2>3 DEF Since, Heeded, Onsets
    <3>2. Prepared(b + period) => Prepared(b + period)'
      BY <2>1 DEF Prepared, JustChanged
    <3> QED
      BY <2>1, <2>2, <2>3, <3>1, <3>2 DEF Since
  <2> QED
    BY <1>1, <2>2, <2>3 DEF Rhythm
<1> QED
  BY <1>1, <1>2, <1>3, <1>4, <1>5 DEF Next, TickBlind, TickOff, Event, Arrive, Operate, Toggle, Restart,
     RollsBack, Kept

\* A burst of a learned rhythm finds the slice up, or so soon after it changed that no lead
\* could have brought it up.
THEOREM UpTheorem ==
    ASSUME Learnable
    PROVE  Spec => UpInTime
<1>1. Init => Rhythm
  <2> SUFFICES ASSUME Init PROVE Kept /\ Counted /\ First
    BY DEF Rhythm
  <2>1. AtNow = {} /\ log = {} /\ arrivals = 0 /\ Cardinality({}) = 0
    BY FS_EmptySet DEF Init, AtNow
  <2> QED
    BY <2>1 DEF Init, Kept, Counted, First
<1>2. IInv /\ Heard /\ Rhythm /\ [Next]_vars => Rhythm'
  BY RhythmNext
<1>3. IInv /\ Heard /\ Rhythm /\ [Next]_vars =>
        [(period > 0 /\ Len(onsets) >= 3 /\ arrivals' > arrivals) =>
            state = "ACTIVE" \/ (changed # never /\ now - changed < ACTIVATE_LEAD)]_vars
  <2> SUFFICES ASSUME IInv, Heard, Rhythm, Next, period > 0, Len(onsets) >= 3, arrivals' > arrivals
               PROVE  state = "ACTIVE" \/ (changed # never /\ now - changed < ACTIVATE_LEAD)
    OBVIOUS
  <2>1. Kept /\ Counted /\ period \in Nat \ {0}
    <3>1. Kept /\ Counted
      BY DEF Rhythm
    <3> QED
      BY <3>1, Constants DEF Kept
  <2>2. now \in Nat /\ now % period = 0
    <3>1. CASE Tick
      <4>1. arrivals' = 0
        BY <3>1 DEF Tick
      <4> QED
        BY <2>1, <4>1 DEF Counted
    <3>2. CASE \E c \in Class : Beat(c)
      BY <3>2 DEF Beat, IInv, InOrder
    <3>3. CASE Completes
      BY <2>1, <3>3 DEF Completes, Counted
    <3> QED
      BY <2>1, <3>1, <3>2, <3>3 DEF Next, TickBlind, TickOff, Event, Arrive, Operate, Toggle, Restart,
         RollsBack, Kept
  <2>3. PICK b \in Nat : Since(b)
    <3>1. ~First
      BY DEF First
    <3> QED
      BY <2>1, <3>1 DEF Rhythm
  <2>4. now = b + period
    BY <2>1, <2>2, <2>3, BeatsApart DEF Since
  <2>5. Prepared(now)
    BY <2>1, <2>3, <2>4 DEF Since, Onsets
  <2>6. /\ op # "none" => until \in Nat /\ now <= until
        /\ changed # never => changed \in Nat
    BY DEF IInv, InOrder
  <2>7. Takes["activate"] < ACTIVATE_LEAD
    BY DEF Learnable
  <2> QED
    BY <2>2, <2>5, <2>6, <2>7, Durations, Constants DEF Prepared, JustChanged
<1>4. Spec => []Heard
  BY HeardHolds
<1> QED
  BY <1>1, <1>2, <1>3, <1>4, Invariance, PTL DEF Spec, UpInTime

-----------------------------------------------------------------------------
(* Counting orders: factorials, and products of them *)

\* The recursion for n! has a solution, which n! meets.
LEMMA FactorialGrows ==
    Factorial[0] = 1 /\ \A n \in Nat : Factorial[n] \in Pos /\ Factorial[n + 1] = (n + 1) * Factorial[n]
<1> DEFINE g == [n \in Nat |-> n]
<1>0. \A n \in Nat : g[n] = n /\ (n \in Pos => g[n] \in Pos)
  OBVIOUS
<1>1. \A n \in Pos : g[n] \in Pos
  BY <1>0 DEF Pos
<1> HIDE DEF g
<1>2. ASSUME NEW h
      PROVE  [n \in Nat |-> Next1(h, g, n)] = [n \in Nat |-> IF n = 0 THEN 1 ELSE n * h[n - 1]]
  BY <1>0 DEF Next1
<1>3. PICK h : h = [n \in Nat |-> Next1(h, g, n)]
  BY <1>1, ProductsGrow
<1>4. h = [n \in Nat |-> IF n = 0 THEN 1 ELSE n * h[n - 1]]
  BY <1>2, <1>3
<1>5. Factorial = [n \in Nat |-> IF n = 0 THEN 1 ELSE n * Factorial[n - 1]]
  BY <1>4, Zenon DEF Factorial
<1>6. Factorial = [n \in Nat |-> Next1(Factorial, g, n)]
  BY <1>2, <1>5
<1>7. Factorial[0] = 1 /\ \A n \in Nat : Factorial[n] \in Pos /\ Factorial[n + 1] = g[n + 1] * Factorial[n]
  BY <1>1, <1>6, GrowsPositive
<1>8. \A n \in Nat : g[n + 1] = n + 1
  BY <1>0
<1> QED
  BY <1>7, <1>8

\* m! divides n! when m is no larger.
LEMMA FactorialDivides ==
    ASSUME NEW m \in Nat, NEW n \in Nat, m <= n
    PROVE  \E k \in Pos : Factorial[n] = Factorial[m] * k
<1> DEFINE T == {d \in Nat : \E k \in Pos : Factorial[m + d] = Factorial[m] * k}
<1>0. Factorial[m] \in Nat /\ m + 0 = m
  BY FactorialGrows DEF Pos
<1>1. 0 \in T
  <2>1. Factorial[m + 0] = Factorial[m] * 1 /\ 1 \in Pos
    BY <1>0 DEF Pos
  <2> QED
    BY <2>1
<1>2. \A d \in Nat : d \in T => d + 1 \in T
  <2> SUFFICES ASSUME NEW d \in Nat, d \in T PROVE d + 1 \in T
    OBVIOUS
  <2>1. PICK k \in Pos : Factorial[m + d] = Factorial[m] * k
    OBVIOUS
  <2>2. m + d \in Nat /\ m + (d + 1) = (m + d) + 1 /\ (m + d) + 1 \in Pos
    BY DEF Pos
  <2>3. Factorial[m + (d + 1)] = ((m + d) + 1) * (Factorial[m] * k)
    BY <2>1, <2>2, FactorialGrows
  <2>4. ((m + d) + 1) * (Factorial[m] * k) = Factorial[m] * (((m + d) + 1) * k)
    <3>1. k \in Nat /\ (m + d) + 1 \in Nat
      BY DEF Pos
    <3> QED
      BY <1>0, <3>1, TimesSwap
  <2>5. ((m + d) + 1) * k \in Pos
    BY <2>2, TimesPos
  <2> QED
    BY <2>3, <2>4, <2>5
<1> HIDE DEF T
<1>3. n - m \in T
  BY <1>1, <1>2, Induction
<1>4. m + (n - m) = n
  OBVIOUS
<1> QED
  BY <1>3, <1>4 DEF T

\* The sums and products of the model are these.
LEMMA SumFunctionIsSum ==
    ASSUME NEW g, NEW S
    PROVE  SumFunctionOnSet(g, S) = SumOf(g, S)
BY DEF SumFunctionOnSet, FoldFunctionOnSet, SumOf, MapThenSumSet

LEMMA ProductOfIsProduct ==
    ASSUME NEW g, NEW S, DOMAIN g = S
    PROVE  ProductOf(g) = ProdOf(g, S)
BY DEF ProductOf, FoldFunction, ProdOf

\* A sum, and a product, in which one term differs.
LEMMA SumChange ==
    ASSUME NEW S, IsFiniteSet(S), NEW f, NEW g, \A x \in S : f[x] \in Nat /\ g[x] \in Nat,
           NEW y \in S, \A x \in S : x # y => f[x] = g[x], NEW k \in Nat, f[y] = g[y] + k
    PROVE  SumOf(f, S) = SumOf(g, S) + k
<1>1. IsFiniteSet(S \ {y})
  BY FS_Subset
<1>2. SumOf(f, S \ {y}) = SumOf(g, S \ {y}) /\ SumOf(g, S \ {y}) \in Nat
  <2>1. \A x \in S \ {y} : f[x] \in Nat /\ g[x] \in Nat /\ f[x] = g[x]
    OBVIOUS
  <2> QED
    BY <1>1, <2>1, SumOfSame, SumIsNat
<1>3. SumOf(f, S) = f[y] + SumOf(f, S \ {y}) /\ SumOf(g, S) = g[y] + SumOf(g, S \ {y})
  BY SumRemove
<1>4. g[y] \in Nat
  OBVIOUS
<1> QED
  BY <1>2, <1>3, <1>4

LEMMA ProductChange ==
    ASSUME NEW S, IsFiniteSet(S), NEW f, NEW g, \A x \in S : f[x] \in Pos /\ g[x] \in Pos,
           NEW y \in S, \A x \in S : x # y => f[x] = g[x], NEW k \in Nat, f[y] = k * g[y]
    PROVE  ProdOf(f, S) = k * ProdOf(g, S)
<1>1. IsFiniteSet(S \ {y})
  BY FS_Subset
<1>2. ProdOf(f, S \ {y}) = ProdOf(g, S \ {y}) /\ ProdOf(g, S \ {y}) \in Pos
  <2>1. \A x \in S \ {y} : f[x] \in Pos /\ g[x] \in Pos /\ f[x] = g[x]
    OBVIOUS
  <2> QED
    BY <1>1, <2>1, ProductOfSame, ProductIsPos
<1>3. ProdOf(f, S) = f[y] * ProdOf(f, S \ {y}) /\ ProdOf(g, S) = g[y] * ProdOf(g, S \ {y})
  BY ProductRemove
<1>4. g[y] \in Nat /\ ProdOf(g, S \ {y}) \in Nat
  BY <1>2 DEF Pos
<1>5. \A a \in Nat, b \in Nat, c \in Nat : (a * b) * c = a * (b * c)
  OBVIOUS
<1>6. ProdOf(f, S) = (k * g[y]) * ProdOf(g, S \ {y})
  BY <1>2, <1>3
<1> QED
  BY <1>3, <1>4, <1>5, <1>6

\* One demand fewer of one class.
Fewer(n, c) == [n EXCEPT ![c] = n[c] - 1]

\* The other classes keep theirs.
LEMMA FewerIs ==
    ASSUME NEW K, NEW n \in [K -> Nat], NEW c \in K, n[c] # 0
    PROVE  /\ Fewer(n, c) \in [K -> Nat] /\ n[c] - 1 \in Nat
           /\ Fewer(n, c)[c] = n[c] - 1 /\ n[c] = Fewer(n, c)[c] + 1
           /\ \A d \in K : d # c => Fewer(n, c)[d] = n[d]
<1>1. n[c] \in Nat
  OBVIOUS
<1>2. n[c] - 1 \in Nat /\ (n[c] - 1) + 1 = n[c]
  BY <1>1
<1> QED
  BY <1>2 DEF Fewer

\* A demand more of a class multiplies the orders by how many the class then has.
LEMMA OrdersStep ==
    ASSUME NEW K, IsFiniteSet(K), NEW n \in [K -> Nat]
    PROVE  Orders(n) \in Pos /\ \A c \in K : n[c] # 0 => Orders(n) = n[c] * Orders(Fewer(n, c))
<1> DEFINE F(m) == [c \in DOMAIN m |-> Factorial[m[c]]]
<1>1. ASSUME NEW m \in [K -> Nat]
      PROVE  Orders(m) = ProdOf(F(m), K) /\ \A c \in K : F(m)[c] = Factorial[m[c]] /\ F(m)[c] \in Pos
  <2>1. DOMAIN F(m) = K /\ \A c \in K : F(m)[c] = Factorial[m[c]] /\ m[c] \in Nat
    OBVIOUS
  <2>2. Orders(m) = ProductOf(F(m))
    BY DEF Orders
  <2> HIDE DEF F
  <2>3. Orders(m) = ProdOf(F(m), K)
    BY <2>1, <2>2, ProductOfIsProduct
  <2> QED
    BY <2>1, <2>3, FactorialGrows
<1> HIDE DEF F
<1>2. Orders(n) \in Pos
  BY <1>1, ProductIsPos
<1>3. ASSUME NEW c \in K, n[c] # 0 PROVE Orders(n) = n[c] * Orders(Fewer(n, c))
  <2> DEFINE l == Fewer(n, c)
  <2>1. l \in [K -> Nat] /\ l[c] \in Nat /\ n[c] = l[c] + 1 /\ \A d \in K : d # c => l[d] = n[d]
    BY <1>3, FewerIs
  <2> HIDE DEF l
  <2>2. F(n)[c] = n[c] * F(l)[c] /\ \A d \in K : d # c => F(n)[d] = F(l)[d]
    <3>1. Factorial[l[c] + 1] = (l[c] + 1) * Factorial[l[c]]
      BY <2>1, FactorialGrows
    <3>2. F(n)[c] = Factorial[l[c] + 1] /\ F(l)[c] = Factorial[l[c]]
      BY <1>1, <2>1
    <3>3. \A d \in K : F(n)[d] = Factorial[n[d]] /\ F(l)[d] = Factorial[l[d]]
      BY <1>1, <2>1
    <3> QED
      BY <2>1, <3>1, <3>2, <3>3
  <2>3. \A d \in K : F(n)[d] \in Pos /\ F(l)[d] \in Pos
    BY <1>1, <2>1
  <2>4. ProdOf(F(n), K) = n[c] * ProdOf(F(l), K)
    BY <2>2, <2>3, ProductChange
  <2>5. Orders(n) = n[c] * Orders(l)
    BY <1>1, <2>1, <2>4
  <2> QED
    BY <2>5 DEF l
<1> QED
  BY <1>2, <1>3

\* No demands come in one order.
LEMMA OrdersOfNone ==
    ASSUME NEW K, IsFiniteSet(K), NEW n \in [K -> Nat], \A c \in K : n[c] = 0
    PROVE  Orders(n) = 1
<1> DEFINE g == [c \in DOMAIN n |-> Factorial[n[c]]]
<1>1. DOMAIN g = K /\ \A c \in K : g[c] = 1
  BY FactorialGrows
<1>2. Orders(n) = ProductOf(g)
  BY DEF Orders
<1> HIDE DEF g
<1> QED
  BY <1>1, <1>2, ProductOfIsProduct, ProductOfOnes

\* What the orders of some demands are divides the orders of all of them told apart.
LEMMA OrdersDivide ==
    ASSUME NEW K, IsFiniteSet(K), NEW m \in Nat
    PROVE  \A n \in [K -> Nat] : SumOf(n, K) = m => \E k \in Nat : Factorial[m] = Orders(n) * k
<1> DEFINE Divided(n, s) == \E k \in Nat : Factorial[s] = Orders(n) * k
           T == {s \in Nat : \A n \in [K -> Nat] : SumOf(n, K) = s => Divided(n, s)}
<1>1. 0 \in T
  <2> SUFFICES ASSUME NEW n \in [K -> Nat], SumOf(n, K) = 0 PROVE Divided(n, 0)
    OBVIOUS
  <2>1. \A c \in K : n[c] \in Nat /\ n[c] <= SumOf(n, K)
    BY SumAtLeast
  <2>2. \A c \in K : n[c] = 0
    BY <2>1
  <2>3. Orders(n) = 1 /\ Factorial[0] = 1
    BY <2>2, OrdersOfNone, FactorialGrows
  <2>4. Factorial[0] = Orders(n) * 1
    BY <2>3
  <2> QED
    BY <2>4
<1>2. \A s \in Nat : s \in T => s + 1 \in T
  <2> SUFFICES ASSUME NEW s \in Nat, s \in T, NEW n \in [K -> Nat], SumOf(n, K) = s + 1
               PROVE  Divided(n, s + 1)
    OBVIOUS
  <2> DEFINE h == [c \in K |-> Factorial[s] * n[c]]
  <2>0. Factorial[s] \in Nat /\ Factorial[s + 1] = (s + 1) * Factorial[s] /\ Orders(n) \in Nat
    BY FactorialGrows, OrdersStep DEF Pos
  <2>1. \A c \in K : n[c] \in Nat /\ h[c] = Factorial[s] * n[c]
    OBVIOUS
  <2> HIDE DEF h
  <2>2. SumOf(h, K) = Factorial[s] * SumOf(n, K)
    BY <2>0, <2>1, SumTimes
  <2>3. ASSUME NEW c \in K PROVE \E k \in Nat : h[c] = Orders(n) * k
    <3>1. CASE n[c] = 0
      <4>1. h[c] = Orders(n) * 0
        BY <2>0, <2>1, <3>1
      <4> QED
        BY <4>1
    <3>2. CASE n[c] # 0
      <4> DEFINE l == Fewer(n, c)
      <4>1. l \in [K -> Nat] /\ n[c] = l[c] + 1 /\ \A d \in K : d # c => l[d] = n[d]
        BY <3>2, FewerIs
      <4>2. Orders(n) = n[c] * Orders(l) /\ Orders(l) \in Nat
        BY <3>2, <4>1, OrdersStep DEF Pos
      <4> HIDE DEF l
      <4>3. SumOf(n, K) = SumOf(l, K) + 1 /\ SumOf(l, K) \in Nat
        <5>1. \A d \in K : n[d] \in Nat /\ l[d] \in Nat
          BY <4>1
        <5> QED
          BY <4>1, <5>1, SumChange, SumIsNat
      <4>4. PICK k \in Nat : Factorial[s] = Orders(l) * k
        BY <4>1, <4>3
      <4>5. h[c] = (Orders(l) * k) * n[c]
        BY <2>1, <4>4
      <4>6. (Orders(l) * k) * n[c] = (n[c] * Orders(l)) * k
        BY <2>1, <4>2
      <4> QED
        BY <4>2, <4>5, <4>6
    <3> QED
      BY <3>1, <3>2
  <2>4. \E k \in Nat : SumOf(h, K) = Orders(n) * k
    <3> DEFINE q == [c \in K |-> CHOOSE k \in Nat : h[c] = Orders(n) * k]
    <3>1. \A c \in K : q[c] \in Nat /\ h[c] = Orders(n) * q[c]
      BY <2>3
    <3> HIDE DEF q
    <3>2. SumOf(h, K) = Orders(n) * SumOf(q, K) /\ SumOf(q, K) \in Nat
      BY <2>0, <3>1, SumTimes, SumIsNat
    <3> QED
      BY <3>2
  <2>5. SumOf(h, K) = Factorial[s + 1]
    <3>1. Factorial[s] * (s + 1) = (s + 1) * Factorial[s]
      BY <2>0
    <3> QED
      BY <2>0, <2>2, <3>1
  <2> QED
    BY <2>4, <2>5
<1> HIDE DEF T
<1>3. m \in T
  BY <1>1, <1>2, Induction
<1> QED
  BY <1>3 DEF T

\* Division of a multiple is exact.
LEMMA DivExact == \A d \in Pos, k \in Nat : (d * k) \div d = k
BY DEF Pos

\* The powers of a number, likewise.
LEMMA PowerGrows ==
    ASSUME NEW a \in Pos
    PROVE  Power(a)[0] = 1 /\ \A n \in Nat : Power(a)[n] \in Pos /\ Power(a)[n + 1] = a * Power(a)[n]
<1> DEFINE g == [n \in Nat |-> a]
<1>1. \A n \in Pos : n \in Nat /\ g[n] \in Pos
  BY DEF Pos
<1>0. \A n \in Nat : g[n] = a
  OBVIOUS
<1> HIDE DEF g
<1>2. ASSUME NEW h
      PROVE  [n \in Nat |-> Next1(h, g, n)] = [n \in Nat |-> IF n = 0 THEN 1 ELSE a * h[n - 1]]
  BY <1>0 DEF Next1
<1>3. PICK h : h = [n \in Nat |-> Next1(h, g, n)]
  BY <1>1, ProductsGrow
<1>4. h = [n \in Nat |-> IF n = 0 THEN 1 ELSE a * h[n - 1]]
  BY <1>2, <1>3
<1>5. Power(a) = [n \in Nat |-> IF n = 0 THEN 1 ELSE a * Power(a)[n - 1]]
  BY <1>4, Zenon DEF Power
<1>6. Power(a) = [n \in Nat |-> Next1(Power(a), g, n)]
  BY <1>2, <1>5
<1>7. Power(a)[0] = 1 /\ \A n \in Nat : Power(a)[n] \in Pos /\ Power(a)[n + 1] = g[n + 1] * Power(a)[n]
  <2>1. PICK p : p = Power(a)
    OBVIOUS
  <2>2. p = [n \in Nat |-> Next1(p, g, n)]
    BY <1>6, <2>1
  <2>3. p[0] = 1 /\ \A n \in Nat : p[n] \in Pos /\ p[n + 1] = g[n + 1] * p[n]
    BY <1>1, <2>2, GrowsPositive
  <2> QED
    BY <2>1, <2>3
<1>8. \A n \in Nat : g[n + 1] = a
  BY <1>0
<1> QED
  BY <1>7, <1>8

\* A demand more of a class multiplies the offered loads by the class's.
LEMMA OfferedStep ==
    ASSUME NEW K, IsFiniteSet(K), \A c \in K : c.erlangs \in Pos, NEW n \in [K -> Nat]
    PROVE  Offered(n) \in Pos /\ \A c \in K : n[c] # 0 => Offered(n) = c.erlangs * Offered(Fewer(n, c))
<1> DEFINE F(m) == [c \in DOMAIN m |-> Power(c.erlangs)[m[c]]]
<1>1. ASSUME NEW m \in [K -> Nat]
      PROVE  Offered(m) = ProdOf(F(m), K) /\ \A c \in K : F(m)[c] = Power(c.erlangs)[m[c]] /\ F(m)[c] \in Pos
  <2>1. DOMAIN F(m) = K /\ \A c \in K : F(m)[c] = Power(c.erlangs)[m[c]] /\ m[c] \in Nat
    OBVIOUS
  <2>2. Offered(m) = ProductOf(F(m))
    BY DEF Offered
  <2> HIDE DEF F
  <2>3. Offered(m) = ProdOf(F(m), K)
    BY <2>1, <2>2, ProductOfIsProduct
  <2> QED
    BY <2>1, <2>3, PowerGrows
<1> HIDE DEF F
<1>2. Offered(n) \in Pos
  BY <1>1, ProductIsPos
<1>3. ASSUME NEW c \in K, n[c] # 0 PROVE Offered(n) = c.erlangs * Offered(Fewer(n, c))
  <2> DEFINE l == Fewer(n, c)
  <2>1. l \in [K -> Nat] /\ l[c] \in Nat /\ n[c] = l[c] + 1 /\ \A d \in K : d # c => l[d] = n[d]
    BY <1>3, FewerIs
  <2> HIDE DEF l
  <2>2. F(n)[c] = c.erlangs * F(l)[c] /\ \A d \in K : d # c => F(n)[d] = F(l)[d]
    <3>1. Power(c.erlangs)[l[c] + 1] = c.erlangs * Power(c.erlangs)[l[c]]
      BY <2>1, PowerGrows
    <3>2. F(n)[c] = Power(c.erlangs)[l[c] + 1] /\ F(l)[c] = Power(c.erlangs)[l[c]]
      BY <1>1, <2>1
    <3>3. \A d \in K : F(n)[d] = Power(d.erlangs)[n[d]] /\ F(l)[d] = Power(d.erlangs)[l[d]]
      BY <1>1, <2>1
    <3> QED
      BY <2>1, <3>1, <3>2, <3>3
  <2>3. \A d \in K : F(n)[d] \in Pos /\ F(l)[d] \in Pos
    BY <1>1, <2>1
  <2>4. PICK a \in Nat : a = c.erlangs
    BY DEF Pos
  <2>5. ProdOf(F(n), K) = a * ProdOf(F(l), K)
    <3>1. F(n)[c] = a * F(l)[c]
      BY <2>2, <2>4
    <3> QED
      BY <2>2, <2>3, <3>1, ProductChange
  <2>6. Offered(n) = c.erlangs * Offered(l)
    BY <1>1, <2>1, <2>4, <2>5
  <2> QED
    BY <2>6 DEF l
<1> QED
  BY <1>2, <1>3

\* With no demands nothing is offered.
LEMMA OfferedOfNone ==
    ASSUME NEW K, IsFiniteSet(K), \A c \in K : c.erlangs \in Pos,
           NEW n \in [K -> Nat], \A c \in K : n[c] = 0
    PROVE  Offered(n) = 1
<1> DEFINE g == [c \in DOMAIN n |-> Power(c.erlangs)[n[c]]]
<1>1. DOMAIN g = K /\ \A c \in K : g[c] = 1
  BY PowerGrows
<1>2. Offered(n) = ProductOf(g)
  BY DEF Offered
<1> HIDE DEF g
<1> QED
  BY <1>1, <1>2, ProductOfIsProduct, ProductOfOnes

-----------------------------------------------------------------------------
(* What a state of the loss system weighs *)

ProperClasses(K) == IsFiniteSet(K) /\ \A c \in K : c.erlangs \in Pos /\ c.units \in Pos

\* The units busy are the sum over the classes, each at least its demands.
LEMMA BusyIs ==
    ASSUME NEW K, ProperClasses(K), NEW n \in [K -> Nat]
    PROVE  /\ Busy(n) \in Nat /\ SumOf(n, K) \in Nat /\ SumOf(n, K) <= Busy(n)
           /\ Busy(n) = SumOf([c \in K |-> n[c] * c.units], K)
           /\ \A c \in K : n[c] * c.units \in Nat /\ n[c] <= n[c] * c.units /\ n[c] * c.units <= Busy(n)
<1> DEFINE g == [c \in K |-> n[c] * c.units]
<1>1. ASSUME NEW c \in K PROVE g[c] = n[c] * c.units /\ g[c] \in Nat /\ n[c] \in Nat /\ n[c] <= g[c]
  <2>1. n[c] \in Nat /\ c.units \in Nat /\ c.units >= 1 /\ g[c] = n[c] * c.units
    BY DEF ProperClasses, Pos
  <2>2. \A x \in Nat, y \in Nat : y >= 1 => x * y \in Nat /\ x <= x * y
    OBVIOUS
  <2> HIDE DEF g
  <2> QED
    BY <2>1, <2>2
<1>2. Busy(n) = SumFunctionOnSet(g, K)
  BY DEF Busy, SumFunction
<1>3. IsFiniteSet(K)
  BY DEF ProperClasses
<1>4. Busy(n) = SumOf(g, K)
  BY <1>2, SumFunctionIsSum
<1>5. g = [c \in K |-> n[c] * c.units]
  OBVIOUS
<1> HIDE DEF g
<1>6. SumOf(g, K) \in Nat /\ SumOf(n, K) \in Nat /\ SumOf(n, K) <= SumOf(g, K)
  BY <1>1, <1>3, SumIsNat, SumMonotone
<1>7. \A c \in K : g[c] <= SumOf(g, K)
  BY <1>1, <1>3, SumAtLeast
<1>8. Busy(n) = SumOf([c \in K |-> n[c] * c.units], K)
  BY <1>4, <1>5
<1> QED
  BY <1>1, <1>4, <1>6, <1>7, <1>8

\* A demand fewer gives back the units of its class.
LEMMA BusyFewer ==
    ASSUME NEW K, ProperClasses(K), NEW n \in [K -> Nat], NEW c \in K, n[c] # 0
    PROVE  Busy(n) = Busy(Fewer(n, c)) + c.units
<1> DEFINE l == Fewer(n, c)
           F(m) == [d \in K |-> m[d] * d.units]
<1>1. l \in [K -> Nat] /\ l[c] \in Nat /\ n[c] = l[c] + 1 /\ \A d \in K : d # c => l[d] = n[d]
  BY FewerIs
<1> HIDE DEF l
<1>2. \A m \in [K -> Nat] : \A d \in K : F(m)[d] = m[d] * d.units
  OBVIOUS
<1>3. c.units \in Nat /\ IsFiniteSet(K)
  BY DEF ProperClasses, Pos
<1>4. Busy(n) = SumOf(F(n), K) /\ Busy(l) = SumOf(F(l), K)
  BY <1>1, BusyIs
<1>5. \A d \in K : n[d] * d.units \in Nat /\ l[d] * d.units \in Nat
  BY <1>1, BusyIs
<1> HIDE DEF F
<1>6. \A d \in K : F(n)[d] \in Nat /\ F(l)[d] \in Nat /\ (d # c => F(n)[d] = F(l)[d])
  BY <1>1, <1>2, <1>5
<1>7. F(n)[c] = F(l)[c] + c.units
  <2>1. F(n)[c] = (l[c] + 1) * c.units /\ F(l)[c] = l[c] * c.units
    BY <1>1, <1>2
  <2>2. \A x \in Nat, y \in Nat : (x + 1) * y = x * y + y
    OBVIOUS
  <2> QED
    BY <1>1, <1>3, <2>1, <2>2
<1>8. PICK u \in Nat : u = c.units
  BY <1>3
<1>9. SumOf(F(n), K) = SumOf(F(l), K) + u
  BY <1>3, <1>6, <1>7, <1>8, SumChange
<1> QED
  BY <1>4, <1>8, <1>9 DEF l

\* A state weighs a whole number.
LEMMA WeightWhole ==
    ASSUME NEW K, ProperClasses(K), NEW C \in Nat, NEW n \in Served(K, C)
    PROVE  /\ n \in [K -> Nat] /\ Busy(n) \in 0 .. C
           /\ \E k \in Nat : Factorial[C] = Orders(n) * k /\ Weight(n, C) = k * Offered(n)
           /\ Weight(n, C) \in Nat
<1>0. IsFiniteSet(K) /\ \A c \in K : c.erlangs \in Pos
  BY DEF ProperClasses
<1>1. n \in [K -> Nat] /\ Busy(n) <= C
  BY DEF Served
<1>2. Busy(n) \in Nat /\ SumOf(n, K) \in Nat /\ SumOf(n, K) <= C
  <2>1. Busy(n) \in Nat /\ SumOf(n, K) \in Nat /\ SumOf(n, K) <= Busy(n)
    BY <1>1, BusyIs
  <2> QED
    BY <1>1, <2>1
<1>3. PICK j \in Nat : Factorial[SumOf(n, K)] = Orders(n) * j
  BY <1>0, <1>1, <1>2, OrdersDivide
<1>4. PICK k \in Nat : Factorial[C] = Factorial[SumOf(n, K)] * k
  BY <1>2, FactorialDivides DEF Pos
<1>5. Orders(n) \in Pos /\ Offered(n) \in Pos
  BY <1>0, <1>1, OrdersStep, OfferedStep
<1>6. Factorial[C] = Orders(n) * (j * k) /\ j * k \in Nat
  <2>1. Orders(n) \in Nat
    BY <1>5 DEF Pos
  <2>2. \A x \in Nat, y \in Nat, z \in Nat : (x * y) * z = x * (y * z) /\ y * z \in Nat
    OBVIOUS
  <2> QED
    BY <1>3, <1>4, <2>1, <2>2
<1>7. Factorial[C] \div Orders(n) = j * k
  BY <1>5, <1>6, DivExact
<1>8. Weight(n, C) = (j * k) * Offered(n)
  BY <1>7 DEF Weight
<1>9. (j * k) * Offered(n) \in Nat
  <2>1. Offered(n) \in Nat
    BY <1>5 DEF Pos
  <2>2. \A x \in Nat, y \in Nat : x * y \in Nat
    OBVIOUS
  <2> QED
    BY <1>6, <2>1, <2>2
<1> QED
  BY <1>1, <1>2, <1>6, <1>8, <1>9

\* The idle state weighs C!.
LEMMA WeightOfNone ==
    ASSUME NEW K, ProperClasses(K), NEW C \in Nat, NEW n \in Served(K, C), \A c \in K : n[c] = 0
    PROVE  Weight(n, C) = Factorial[C]
<1>1. n \in [K -> Nat]
  BY WeightWhole
<1>2. Orders(n) = 1 /\ Offered(n) = 1
  BY <1>1, OrdersOfNone, OfferedOfNone DEF ProperClasses
<1>3. Factorial[C] \in Nat
  BY FactorialGrows DEF Pos
<1>4. PICK k \in Nat : Factorial[C] = Orders(n) * k /\ Weight(n, C) = k * Offered(n)
  BY WeightWhole
<1> QED
  BY <1>2, <1>3, <1>4

\* Detailed balance: what a class's demands end at is what they start at one state below.
LEMMA Balance ==
    ASSUME NEW K, ProperClasses(K), NEW C \in Nat, NEW n \in Served(K, C), NEW c \in K, n[c] # 0
    PROVE  /\ Fewer(n, c) \in Served(K, C)
           /\ n[c] * Weight(n, C) = c.erlangs * Weight(Fewer(n, c), C)
<1> DEFINE l == Fewer(n, c)
<1>0. IsFiniteSet(K) /\ (\A d \in K : d.erlangs \in Pos) /\ c.erlangs \in Nat /\ c.units \in Nat
  BY DEF ProperClasses, Pos
<1>1. n \in [K -> Nat] /\ Busy(n) \in 0 .. C /\ n[c] \in Nat /\ \A d \in K : n[d] \in 0 .. C
  BY WeightWhole DEF Served
<1>2. l \in [K -> Nat] /\ l[c] \in Nat /\ n[c] = l[c] + 1 /\ \A d \in K : d # c => l[d] = n[d]
  BY <1>1, FewerIs
<1>3. Busy(n) = Busy(l) + c.units
  BY <1>1, BusyFewer
<1>4. Orders(n) = n[c] * Orders(l) /\ Offered(n) = c.erlangs * Offered(l)
  BY <1>0, <1>1, OrdersStep, OfferedStep
<1>5. Orders(l) \in Pos /\ Offered(l) \in Nat
  BY <1>0, <1>2, OrdersStep, OfferedStep DEF Pos
<1> HIDE DEF l
<1>6. l \in Served(K, C)
  <2>1. Busy(l) \in Nat
    BY <1>2, BusyIs
  <2>2. Busy(l) <= C
    BY <1>0, <1>1, <1>3, <2>1
  <2>3. \A d \in K : l[d] \in 0 .. C
    <3>1. l[c] \in 0 .. C
      BY <1>1, <1>2
    <3> QED
      BY <1>1, <1>2, <3>1
  <2>4. l \in [K -> 0 .. C]
    BY <1>2, <2>3
  <2> QED
    BY <2>2, <2>4 DEF Served
<1>7. PICK k \in Nat : Factorial[C] = Orders(n) * k /\ Weight(n, C) = k * Offered(n)
  BY WeightWhole
<1>8. Factorial[C] = Orders(l) * (n[c] * k) /\ n[c] * k \in Nat
  <2>1. Factorial[C] = (n[c] * Orders(l)) * k /\ Orders(l) \in Nat
    BY <1>4, <1>5, <1>7 DEF Pos
  <2>2. \A x \in Nat, y \in Nat, z \in Nat : (x * y) * z = y * (x * z) /\ x * z \in Nat
    OBVIOUS
  <2> QED
    BY <1>1, <2>1, <2>2
<1>9. Weight(l, C) = (n[c] * k) * Offered(l)
  BY <1>5, <1>8, DivExact DEF Weight
<1>10. n[c] * Weight(n, C) = c.erlangs * Weight(l, C)
  <2>1. \A w \in Nat, x \in Nat, y \in Nat, z \in Nat : w * (x * (y * z)) = y * ((w * x) * z)
    OBVIOUS
  <2> QED
    BY <1>0, <1>1, <1>4, <1>5, <1>7, <1>9, <2>1
<1> QED
  BY <1>6, <1>10 DEF l

-----------------------------------------------------------------------------
(* The states by the units busy *)

\* There are finitely many states.
LEMMA ServedFinite ==
    ASSUME NEW K, ProperClasses(K), NEW C \in Nat
    PROVE  IsFiniteSet(Served(K, C))
<1> DEFINE graph == [n \in Served(K, C) |-> {p \in K \X (0 .. C) : n[p[1]] = p[2]}]
<1>1. IsFiniteSet(SUBSET (K \X (0 .. C)))
  <2>1. IsFiniteSet(K) /\ IsFiniteSet(0 .. C)
    BY FS_Interval DEF ProperClasses
  <2> QED
    BY <2>1, FS_Product, FS_SUBSET
<1>2. graph \in [Served(K, C) -> SUBSET (K \X (0 .. C))]
  OBVIOUS
<1>3. ASSUME NEW n \in Served(K, C), NEW m \in Served(K, C), graph[n] = graph[m]
      PROVE  n = m
  <2>1. n \in [K -> 0 .. C] /\ m \in [K -> 0 .. C]
    BY DEF Served
  <2>2. ASSUME NEW c \in K PROVE n[c] = m[c]
    <3>1. <<c, n[c]>> \in graph[n]
      BY <2>1
    <3>2. <<c, n[c]>> \in graph[m]
      BY <1>3, <3>1
    <3> QED
      BY <3>2
  <2> QED
    BY <2>1, <2>2
<1>4. graph \in Injection(Served(K, C), SUBSET (K \X (0 .. C)))
  BY <1>2, <1>3 DEF Injection, IsInjective
<1> QED
  BY <1>1, <1>4, FS_Injection

Level(K, C, n) == {f \in Served(K, C) : Busy(f) = n}
WeightOf(K, C) == [f \in Served(K, C) |-> Weight(f, C)]
LevelWeight(K, C, n) == SumOf(WeightOf(K, C), Level(K, C, n))

\* A level is a finite set of states, and its weight a whole number.
LEMMA LevelIs ==
    ASSUME NEW K, ProperClasses(K), NEW C \in Nat, NEW n
    PROVE  /\ Level(K, C, n) \in SUBSET Served(K, C) /\ IsFiniteSet(Level(K, C, n))
           /\ \A f \in Served(K, C) : WeightOf(K, C)[f] = Weight(f, C) /\ WeightOf(K, C)[f] \in Nat
           /\ LevelWeight(K, C, n) \in Nat
<1>1. Level(K, C, n) \in SUBSET Served(K, C)
  BY DEF Level
<1>2. IsFiniteSet(Level(K, C, n))
  BY <1>1, ServedFinite, FS_Subset
<1>3. ASSUME NEW f \in Served(K, C)
      PROVE  WeightOf(K, C)[f] = Weight(f, C) /\ WeightOf(K, C)[f] \in Nat
  BY WeightWhole DEF WeightOf
<1>4. \A f \in Level(K, C, n) : WeightOf(K, C)[f] \in Nat
  BY <1>1, <1>3
<1>5. LevelWeight(K, C, n) \in Nat
  BY <1>2, <1>4, SumIsNat DEF LevelWeight
<1> QED
  BY <1>1, <1>2, <1>3, <1>5

\* Only the idle state has nothing busy.
LEMMA LevelNone ==
    ASSUME NEW K, ProperClasses(K), NEW C \in Nat
    PROVE  LevelWeight(K, C, 0) = Factorial[C]
<1> DEFINE idle == [c \in K |-> 0]
<1>1. idle \in [K -> Nat] /\ idle \in [K -> 0 .. C] /\ \A c \in K : idle[c] = 0
  OBVIOUS
<1>2. Busy(idle) = 0
  <2> DEFINE F == [c \in K |-> idle[c] * c.units]
  <2>1. Busy(idle) = SumOf(F, K)
    BY <1>1, BusyIs
  <2>2. ASSUME NEW c \in K PROVE F[c] = 0
    <3>1. c.units \in Nat
      BY DEF ProperClasses, Pos
    <3> QED
      BY <1>1, <3>1
  <2>3. IsFiniteSet(K) /\ {} \in SUBSET K
    BY DEF ProperClasses
  <2> HIDE DEF F
  <2>4. SumOf(F, K) = SumOf(F, {})
    BY <2>2, <2>3, SumSupport
  <2> QED
    BY <2>1, <2>4, SumEmpty
<1> HIDE DEF idle
<1>3. idle \in Served(K, C)
  BY <1>1, <1>2 DEF Served
<1>4. ASSUME NEW f \in Level(K, C, 0) PROVE f = idle
  <2>1. f \in [K -> Nat] /\ Busy(f) = 0
    BY WeightWhole DEF Level
  <2>2. ASSUME NEW c \in K PROVE f[c] = 0
    <3>1. f[c] * c.units \in Nat /\ f[c] <= f[c] * c.units /\ f[c] * c.units <= 0
      BY <2>1, BusyIs
    <3>2. f[c] \in Nat
      BY <2>1
    <3> QED
      BY <3>1, <3>2
  <2> QED
    BY <1>1, <2>1, <2>2
<1>5. Level(K, C, 0) = {idle}
  BY <1>2, <1>3, <1>4 DEF Level
<1> DEFINE w == WeightOf(K, C)
<1>6. w[idle] = Factorial[C] /\ Factorial[C] \in Nat
  <2>1. w[idle] = Weight(idle, C)
    BY <1>3, LevelIs
  <2>2. Weight(idle, C) = Factorial[C]
    BY <1>1, <1>3, WeightOfNone
  <2> QED
    BY <2>1, <2>2, FactorialGrows DEF Pos
<1>7. LevelWeight(K, C, 0) = SumOf(w, {idle})
  BY <1>5 DEF LevelWeight
<1> HIDE DEF w
<1> QED
  BY <1>6, <1>7, SumOfOne

\* One demand more of one class.
More(g, c) == [g EXCEPT ![c] = g[c] + 1]

\* One demand more fits as long as its units do, and taking it away again leaves the state.
LEMMA MoreIs ==
    ASSUME NEW K, ProperClasses(K), NEW C \in Nat, NEW g \in Served(K, C), NEW c \in K,
           Busy(g) + c.units <= C
    PROVE  /\ More(g, c) \in Served(K, C) /\ Busy(More(g, c)) = Busy(g) + c.units
           /\ More(g, c)[c] # 0 /\ Fewer(More(g, c), c) = g
<1> DEFINE f == More(g, c)
<1>1. g \in [K -> Nat]
  BY WeightWhole
<1>2. f \in [K -> Nat] /\ f[c] = g[c] + 1 /\ \A d \in K : d # c => f[d] = g[d]
  BY <1>1 DEF More
<1>3. f[c] # 0
  BY <1>1, <1>2
<1>4. Fewer(f, c) = g
  <2>1. g[c] \in Nat /\ (g[c] + 1) - 1 = g[c]
    BY <1>1
  <2> HIDE DEF f
  <2>2. \A d \in K : Fewer(f, c)[d] = g[d]
    BY <1>2, <2>1 DEF Fewer
  <2>3. Fewer(f, c) \in [K -> Nat]
    BY <1>2, <1>3, FewerIs
  <2> QED
    BY <1>1, <2>2, <2>3
<1> HIDE DEF f
<1>5. Busy(f) = Busy(g) + c.units
  BY <1>2, <1>3, <1>4, BusyFewer
<1>6. f \in Served(K, C)
  <2>1. ASSUME NEW d \in K PROVE f[d] \in 0 .. C
    <3>1. f[d] * d.units \in Nat /\ f[d] <= f[d] * d.units /\ f[d] * d.units <= Busy(f) /\ f[d] \in Nat
      BY <1>2, BusyIs
    <3>2. Busy(f) <= C /\ Busy(f) \in Nat
      BY <1>2, <1>5, BusyIs
    <3> QED
      BY <3>1, <3>2
  <2>2. f \in [K -> 0 .. C]
    BY <1>2, <2>1
  <2> QED
    BY <1>5, <2>2 DEF Served
<1> QED
  BY <1>3, <1>4, <1>5, <1>6 DEF f

\* States that differ still do with one demand of a class taken from each.
LEMMA FewerDiffer ==
    ASSUME NEW K, NEW f \in [K -> Nat], NEW g \in [K -> Nat], NEW c \in K, f[c] # 0, g[c] # 0,
           Fewer(f, c) = Fewer(g, c)
    PROVE  f = g
<1>1. ASSUME NEW d \in K PROVE f[d] = g[d]
  <2>1. CASE d = c
    BY <2>1, FewerIs
  <2>2. CASE d # c
    BY <2>2, FewerIs
  <2> QED
    BY <2>1, <2>2
<1> QED
  BY <1>1

\* What the demands of one class hold of the states with n units busy, weighed: each such
\* state is one of n - units with one demand of the class more.
LEMMA ClassShare ==
    ASSUME NEW K, ProperClasses(K), NEW C \in Nat, NEW n \in 0 .. C, NEW c \in K, NEW g,
           \A f \in Level(K, C, n) : g[f] = (f[c] * c.units) * Weight(f, C)
    PROVE  SumOf(g, Level(K, C, n))
             = IF c.units <= n THEN (c.erlangs * c.units) * LevelWeight(K, C, n - c.units) ELSE 0
<1> DEFINE L == Level(K, C, n)
           R == {f \in L : f[c] # 0}
           a == c.erlangs
           b == c.units
           w == WeightOf(K, C)
<1>0. a \in Nat /\ b \in Nat /\ b >= 1 /\ IsFiniteSet(K)
  BY DEF ProperClasses, Pos
<1>1. ASSUME NEW f \in L
      PROVE  /\ f \in Served(K, C) /\ f \in [K -> Nat] /\ Busy(f) = n /\ f[c] \in Nat
             /\ Weight(f, C) \in Nat /\ g[f] = (f[c] * b) * Weight(f, C) /\ g[f] \in Nat
  <2>1. f \in Served(K, C) /\ Busy(f) = n
    BY DEF Level
  <2>2. f \in [K -> Nat] /\ f[c] \in Nat /\ Weight(f, C) \in Nat
    BY <2>1, WeightWhole
  <2>3. g[f] = (f[c] * b) * Weight(f, C)
    OBVIOUS
  <2>4. \A x \in Nat, y \in Nat, z \in Nat : (x * y) * z \in Nat
    OBVIOUS
  <2> HIDE DEF b
  <2> QED
    BY <1>0, <2>1, <2>2, <2>3, <2>4
<1>2. IsFiniteSet(L) /\ R \in SUBSET L /\ IsFiniteSet(R)
  <2>1. IsFiniteSet(L)
    BY LevelIs
  <2> QED
    BY <2>1, FS_Subset
<1> HIDE DEF L
<1>3. SumOf(g, L) = SumOf(g, R)
  <2>1. ASSUME NEW f \in L \ R PROVE g[f] = 0
    <3>1. f[c] = 0 /\ g[f] = (f[c] * b) * Weight(f, C) /\ Weight(f, C) \in Nat
      BY <1>1
    <3> HIDE DEF b
    <3>2. \A y \in Nat, z \in Nat : (0 * y) * z = 0
      OBVIOUS
    <3> QED
      BY <1>0, <3>1, <3>2
  <2>2. \A f \in L : g[f] \in Nat
    BY <1>1
  <2> HIDE DEF R
  <2> QED
    BY <1>2, <2>1, <2>2, SumSupport
<1>4. ASSUME NEW f \in R
      PROVE  /\ Fewer(f, c) \in Served(K, C) /\ n = Busy(Fewer(f, c)) + b
             /\ Busy(Fewer(f, c)) \in Nat
             /\ g[f] = (a * b) * Weight(Fewer(f, c), C)
  <2>1. f \in L /\ f[c] # 0
    OBVIOUS
  <2>2. Fewer(f, c) \in Served(K, C) /\ f[c] * Weight(f, C) = a * Weight(Fewer(f, c), C)
    BY <1>1, <2>1, Balance
  <2>3. n = Busy(Fewer(f, c)) + b
    BY <1>1, <2>1, BusyFewer
  <2>4. Busy(Fewer(f, c)) \in Nat /\ Weight(Fewer(f, c), C) \in Nat
    BY <2>2, WeightWhole
  <2>5. g[f] = (f[c] * b) * Weight(f, C) /\ f[c] \in Nat /\ Weight(f, C) \in Nat
    BY <1>1, <2>1
  <2> HIDE DEF a, b
  <2>6. \A x \in Nat, y \in Nat, z \in Nat : (x * y) * z = y * (x * z) /\ (y * x) * z = y * (x * z)
                                              /\ x * y = y * x
    OBVIOUS
  <2>7. (f[c] * b) * Weight(f, C) = b * (f[c] * Weight(f, C))
    BY <1>0, <2>5, <2>6
  <2>8. (a * b) * Weight(Fewer(f, c), C) = b * (a * Weight(Fewer(f, c), C))
    BY <1>0, <2>4, <2>6
  <2> QED
    BY <2>2, <2>3, <2>4, <2>5, <2>7, <2>8
<1>5. CASE b <= n
  <2> DEFINE M == Level(K, C, n - b)
             h == [f \in M |-> (a * b) * w[f]]
             phi == [f \in R |-> Fewer(f, c)]
  <2>0. n - b \in Nat
    BY <1>0, <1>5
  <2>1. \A f \in M : f \in Served(K, C) /\ Busy(f) = n - b /\ w[f] = Weight(f, C) /\ w[f] \in Nat
    BY LevelIs DEF Level
  <2>2. IsFiniteSet(M) /\ LevelWeight(K, C, n - b) = SumOf(w, M)
    BY LevelIs DEF LevelWeight
  <2>3. \A f \in Served(K, C) : Busy(f) = n - b => f \in M
    BY DEF Level
  <2>4. (\A f \in M : h[f] = (a * b) * w[f]) /\ (\A f \in R : phi[f] = Fewer(f, c)) /\ a * b \in Nat
    BY <1>0
  <2> HIDE DEF M, h, phi, w
  <2>5. ASSUME NEW f \in R PROVE g[f] \in Nat /\ phi[f] \in M /\ g[f] = h[phi[f]]
    <3>1. Fewer(f, c) \in M
      BY <1>0, <1>4, <2>3
    <3>2. h[phi[f]] = (a * b) * Weight(Fewer(f, c), C)
      BY <2>1, <2>4, <3>1
    <3> QED
      BY <1>1, <1>4, <2>4, <3>1, <3>2
  <2>6. ASSUME NEW x \in R, NEW y \in R, phi[x] = phi[y] PROVE x = y
    <3>1. x \in [K -> Nat] /\ y \in [K -> Nat] /\ x[c] # 0 /\ y[c] # 0
      BY <1>1
    <3>2. Fewer(x, c) = Fewer(y, c)
      BY <2>4, <2>6
    <3> QED
      BY <3>1, <3>2, FewerDiffer
  <2>7. ASSUME NEW z \in M PROVE \E x \in R : phi[x] = z
    <3>1. z \in Served(K, C) /\ Busy(z) + b = n /\ n <= C
      BY <1>0, <2>0, <2>1
    <3>2. /\ More(z, c) \in Served(K, C) /\ Busy(More(z, c)) = Busy(z) + c.units
          /\ More(z, c)[c] # 0 /\ Fewer(More(z, c), c) = z
      BY <3>1, MoreIs
    <3>3. More(z, c) \in R
      BY <3>1, <3>2 DEF L, Level
    <3>4. phi[More(z, c)] = z
      BY <2>4, <3>2, <3>3
    <3> QED
      BY <3>3, <3>4
  <2> HIDE DEF R
  <2>8. SumOf(g, R) = SumOf(h, M)
    BY <1>2, <2>2, <2>5, <2>6, <2>7, SumPaired
  <2>9. PICK k \in Nat : k = a * b
    BY <2>4
  <2>10. SumOf(h, M) = k * SumOf(w, M)
    <3>1. \A f \in M : w[f] \in Nat /\ h[f] = k * w[f]
      BY <2>1, <2>4, <2>9
    <3> QED
      BY <2>2, <3>1, SumTimes
  <2> QED
    BY <1>3, <1>5, <2>2, <2>8, <2>9, <2>10 DEF L
<1>6. CASE ~(b <= n)
  <2>1. R = {}
    <3> SUFFICES ASSUME NEW f \in R PROVE FALSE
      OBVIOUS
    <3> QED
      BY <1>0, <1>4, <1>6
  <2> QED
    BY <1>3, <1>6, <2>1, SumEmpty DEF L
<1> QED
  BY <1>5, <1>6

\* The recursion of Kaufman and Roberts, for the loss system.
LEMMA LevelRecursion ==
    ASSUME NEW K, ProperClasses(K), NEW C \in Nat, NEW n \in 1 .. C
    PROVE  n * LevelWeight(K, C, n)
             = SumOf([c \in {d \in K : d.units <= n} |->
                         c.erlangs * c.units * LevelWeight(K, C, n - c.units)],
                     {d \in K : d.units <= n})
<1> DEFINE L == Level(K, C, n)
           w == WeightOf(K, C)
           m == [p \in L \X K |-> (p[1][p[2]] * p[2].units) * w[p[1]]]
           Row(f) == [c \in K |-> m[<<f, c>>]]
           Col(c) == [f \in L |-> m[<<f, c>>]]
           A == [f \in L |-> SumOf(Row(f), K)]
           B == [c \in K |-> SumOf(Col(c), L)]
           N == {d \in K : d.units <= n}
           h == [c \in N |-> c.erlangs * c.units * LevelWeight(K, C, n - c.units)]
<1>0. n \in Nat /\ n \in 0 .. C /\ IsFiniteSet(K) /\ IsFiniteSet(L)
  BY LevelIs DEF ProperClasses
<1>1. ASSUME NEW f \in L
      PROVE  f \in Served(K, C) /\ f \in [K -> Nat] /\ Busy(f) = n /\ w[f] = Weight(f, C) /\ w[f] \in Nat
  BY LevelIs, WeightWhole DEF Level
<1>2. \A f \in L, c \in K : m[<<f, c>>] = (f[c] * c.units) * w[f]
  OBVIOUS
<1>3. /\ \A f \in L : A[f] = SumOf(Row(f), K) /\ \A c \in K : Row(f)[c] = m[<<f, c>>]
      /\ \A c \in K : B[c] = SumOf(Col(c), L) /\ \A f \in L : Col(c)[f] = m[<<f, c>>]
      /\ \A c \in N : h[c] = c.erlangs * c.units * LevelWeight(K, C, n - c.units)
      /\ N \in SUBSET K /\ \A c \in K : c \in N <=> c.units <= n
  OBVIOUS
<1>4. LevelWeight(K, C, n) = SumOf(w, L)
  BY DEF LevelWeight
<1> HIDE DEF L, w, m
<1>5. ASSUME NEW f \in L, NEW c \in K PROVE m[<<f, c>>] \in Nat /\ f[c] * c.units \in Nat
  <2>1. f[c] * c.units \in Nat
    BY <1>1, BusyIs
  <2>2. \A x \in Nat, y \in Nat : x * y \in Nat
    OBVIOUS
  <2> QED
    BY <1>1, <1>2, <2>1, <2>2
<1>6. SumOf(A, L) = SumOf(B, K)
  BY <1>0, <1>5, SumSwap
<1> HIDE DEF Row, Col, A, B, N, h
<1>7. ASSUME NEW f \in L PROVE A[f] = n * w[f]
  <2> DEFINE u == [c \in K |-> f[c] * c.units]
  <2>1. SumOf(u, K) = n
    BY <1>1, BusyIs
  <2>2. \A c \in K : u[c] \in Nat /\ u[c] = f[c] * c.units
    BY <1>5
  <2> HIDE DEF u
  <2>3. ASSUME NEW c \in K PROVE Row(f)[c] = w[f] * u[c]
    <3>1. Row(f)[c] = u[c] * w[f]
      BY <1>2, <1>3, <2>2
    <3>2. \A x \in Nat, y \in Nat : x * y = y * x
      OBVIOUS
    <3> QED
      BY <1>1, <2>2, <3>1, <3>2
  <2>4. PICK v \in Nat : v = w[f]
    BY <1>1
  <2>5. SumOf(Row(f), K) = v * SumOf(u, K)
    <3>1. \A c \in K : u[c] \in Nat /\ Row(f)[c] = v * u[c]
      BY <2>2, <2>3, <2>4
    <3> QED
      BY <1>0, <3>1, SumTimes
  <2>6. v * n = n * v
    BY <1>0
  <2> QED
    BY <1>3, <2>1, <2>4, <2>5, <2>6
<1>8. SumOf(A, L) = n * SumOf(w, L)
  BY <1>0, <1>1, <1>7, SumTimes
<1>9. ASSUME NEW c \in K PROVE B[c] = IF c \in N THEN h[c] ELSE 0
  <2>1. ASSUME NEW f \in L PROVE Col(c)[f] = (f[c] * c.units) * Weight(f, C)
    <3>1. Col(c)[f] = m[<<f, c>>]
      BY <1>3
    <3> QED
      BY <1>1, <1>2, <3>1
  <2>2. SumOf(Col(c), L)
          = IF c.units <= n THEN (c.erlangs * c.units) * LevelWeight(K, C, n - c.units) ELSE 0
    BY <1>0, <2>1, ClassShare DEF L
  <2> QED
    BY <1>3, <2>2
<1>10. ASSUME NEW c \in K PROVE B[c] \in Nat
  <2>1. \A f \in L : Col(c)[f] \in Nat
    BY <1>3, <1>5
  <2> QED
    BY <1>0, <1>3, <2>1, SumIsNat
<1>11. SumOf(B, K) = SumOf(B, N)
  <2>1. \A c \in K \ N : B[c] = 0
    BY <1>9
  <2> QED
    BY <1>0, <1>3, <1>10, <2>1, SumSupport
<1>12. SumOf(B, N) = SumOf(h, N)
  <2>1. IsFiniteSet(N)
    BY <1>0, <1>3, FS_Subset
  <2>2. \A c \in N : B[c] \in Nat /\ B[c] = h[c]
    BY <1>3, <1>9, <1>10
  <2> QED
    BY <2>1, <2>2, SumOfSame
<1>13. n * LevelWeight(K, C, n) = SumOf(h, N)
  BY <1>4, <1>6, <1>8, <1>11, <1>12
<1> QED
  BY <1>13 DEF h, N

-----------------------------------------------------------------------------
(* The recursion, and the blocking it gives *)

\* What Weights asks of q(n), given those below.
Step(q, K, C, n) ==
    IF n = 0 THEN Factorial[C]
    ELSE SumFunction([c \in {d \in K : d.units <= n} |-> c.erlangs * c.units * q[n - c.units]]) \div n

\* With the weights below n those of the levels, so is the weight of n: the division is exact.
LEMMA StepIs ==
    ASSUME NEW K, ProperClasses(K), NEW C \in Nat, NEW n \in 0 .. C, NEW q,
           \A i \in 0 .. C : i < n => q[i] = LevelWeight(K, C, i)
    PROVE  Step(q, K, C, n) = LevelWeight(K, C, n)
<1>1. CASE n = 0
  BY <1>1, LevelNone DEF Step
<1>2. CASE n # 0
  <2> DEFINE N == {d \in K : d.units <= n}
             g == [c \in N |-> c.erlangs * c.units * q[n - c.units]]
             h == [c \in N |-> c.erlangs * c.units * LevelWeight(K, C, n - c.units)]
  <2>1. ASSUME NEW c \in N PROVE q[n - c.units] = LevelWeight(K, C, n - c.units)
    <3>1. c.units \in Nat /\ c.units >= 1 /\ c.units <= n
      BY DEF ProperClasses, Pos
    <3>2. n - c.units \in 0 .. C /\ n - c.units < n
      BY <3>1
    <3> QED
      BY <3>2
  <2>2. g = h
    BY <2>1
  <2>3. SumFunction(g) = SumOf(g, N)
    BY SumFunctionIsSum DEF SumFunction
  <2>4. n \in 1 .. C
    BY <1>2
  <2>5. n * LevelWeight(K, C, n) = SumOf(h, N)
    BY <2>4, LevelRecursion
  <2>6. SumFunction(g) = n * LevelWeight(K, C, n)
    BY <2>2, <2>3, <2>5
  <2>7. Step(q, K, C, n) = SumFunction(g) \div n
    BY <1>2 DEF Step
  <2> HIDE DEF g
  <2>8. n \in Pos /\ LevelWeight(K, C, n) \in Nat
    BY <1>2, LevelIs DEF Pos
  <2> QED
    BY <2>6, <2>7, <2>8, DivExact
<1> QED
  BY <1>1, <1>2

\* kaufman_roberts()'s weights are those of the loss system, by the units busy.
LEMMA WeightsAreLevels ==
    ASSUME NEW K, ProperClasses(K), NEW C \in Nat, NEW n \in 0 .. C
    PROVE  Weights(K, C)[n] = LevelWeight(K, C, n)
<1> DEFINE Solved(q) == q = [i \in 0 .. C |-> Step(q, K, C, i)]
           level == [i \in 0 .. C |-> LevelWeight(K, C, i)]
           W == CHOOSE q : Solved(q)
<1>1. Solved(level)
  <2>1. \A i \in 0 .. C : Step(level, K, C, i) = LevelWeight(K, C, i)
    BY StepIs
  <2> QED
    BY <2>1
<1>2. Weights(K, C) = W
  BY DEF Weights, Step
<1>3. Solved(W)
  BY <1>1, Zenon
<1> HIDE DEF W
<1>4. \A i \in 0 .. C : W[i] = Step(W, K, C, i)
  BY <1>3
<1> DEFINE T == {m \in Nat : \A i \in 0 .. C : i < m => W[i] = LevelWeight(K, C, i)}
<1>5. 0 \in T
  OBVIOUS
<1>6. \A m \in Nat : m \in T => m + 1 \in T
  <2> SUFFICES ASSUME NEW m \in Nat, m \in T, NEW i \in 0 .. C, i < m + 1
               PROVE  W[i] = LevelWeight(K, C, i)
    OBVIOUS
  <2>1. \A j \in 0 .. C : j < i => W[j] = LevelWeight(K, C, j)
    OBVIOUS
  <2> QED
    BY <1>4, <2>1, StepIs
<1> HIDE DEF T
<1>7. n + 1 \in T
  BY <1>5, <1>6, Induction
<1>8. W[n] = LevelWeight(K, C, n)
  BY <1>7 DEF T
<1> QED
  BY <1>2, <1>8

\* The weights from some level up are those of the states with that much busy.
LEMMA TotalIs ==
    ASSUME NEW K, ProperClasses(K), NEW C \in Nat, NEW from \in Nat
    PROVE  Total(Weights(K, C), from, C)
             = SumOf(WeightOf(K, C), {f \in Served(K, C) : Busy(f) >= from})
<1> DEFINE N == from .. C
           S == {f \in Served(K, C) : Busy(f) >= from}
           w == WeightOf(K, C)
           W == Weights(K, C)
           phi == [f \in S |-> Busy(f)]
           G == [n \in N |-> SumOf(w, {f \in S : phi[f] = n})]
<1>1. IsFiniteSet(N) /\ IsFiniteSet(S) /\ S \in SUBSET Served(K, C)
  <2>1. S \in SUBSET Served(K, C)
    OBVIOUS
  <2>2. IsFiniteSet(N)
    BY FS_Interval
  <2> QED
    BY <2>1, <2>2, ServedFinite, FS_Subset
<1>2. \A f \in S : w[f] \in Nat /\ phi[f] \in N /\ phi[f] = Busy(f)
  BY LevelIs, WeightWhole
<1>3. Total(W, from, C) = SumOf(W, N)
  BY SumFunctionIsSum DEF Total
<1>4. ASSUME NEW n \in N PROVE W[n] = G[n] /\ W[n] \in Nat
  <2>1. n \in 0 .. C
    OBVIOUS
  <2>2. W[n] = LevelWeight(K, C, n) /\ LevelWeight(K, C, n) \in Nat
    BY <2>1, WeightsAreLevels, LevelIs
  <2>3. {f \in S : phi[f] = n} = Level(K, C, n)
    BY <1>2 DEF Level
  <2>4. G[n] = SumOf(w, {f \in S : phi[f] = n})
    OBVIOUS
  <2> QED
    BY <2>2, <2>3, <2>4 DEF LevelWeight
<1> HIDE DEF N, S, w, W, phi
<1>5. SumOf(w, S) = SumOf(G, N)
  BY <1>1, <1>2, SumFibers
<1> HIDE DEF G
<1>6. SumOf(W, N) = SumOf(G, N)
  BY <1>1, <1>4, SumOfSame
<1> QED
  BY <1>3, <1>5, <1>6 DEF W, w, S

\* kaufman_roberts() against what it stands for: for every set of classes, capacity and target,
\* no class is blocked more than the target by the recursion exactly when none is by the
\* product form of the loss system, summed over the states that block it.
THEOREM KaufmanRoberts ==
    ASSUME NEW K, ProperClasses(K), NEW C \in Nat, NEW bound
    PROVE  Meets(K, C, bound) <=> LossMeets(K, C, bound)
<1> DEFINE w == WeightOf(K, C)
           From(c) == IF c.units > C THEN 0 ELSE C + 1 - c.units
           Blocks(c) == {n \in Served(K, C) : Busy(n) + c.units > C}
<1>1. ASSUME NEW c \in K
      PROVE  Total(Weights(K, C), From(c), C) = SumFunctionOnSet(w, Blocks(c))
  <2>1. c.units \in Nat
    BY DEF ProperClasses, Pos
  <2>2. \A n \in Served(K, C) : Busy(n) \in Nat
    BY WeightWhole
  <2>3. From(c) \in Nat /\ Blocks(c) = {n \in Served(K, C) : Busy(n) >= From(c)}
    BY <2>1, <2>2
  <2>4. PICK from \in Nat : from = From(c)
    BY <2>3
  <2>5. Total(Weights(K, C), from, C) = SumOf(w, {n \in Served(K, C) : Busy(n) >= from})
    BY TotalIs
  <2> QED
    BY <2>3, <2>4, <2>5, SumFunctionIsSum
<1>2. Total(Weights(K, C), 0, C) = SumFunction(w)
  <2>1. {n \in Served(K, C) : Busy(n) >= 0} = Served(K, C)
    BY WeightWhole
  <2>2. Total(Weights(K, C), 0, C) = SumOf(w, Served(K, C))
    BY <2>1, TotalIs
  <2>3. DOMAIN w = Served(K, C)
    BY DEF WeightOf
  <2> QED
    BY <2>2, <2>3, SumFunctionIsSum DEF SumFunction
<1>3. Meets(K, C, bound) <=>
        \A c \in K : bound.den * Total(Weights(K, C), From(c), C)
                       <= bound.num * Total(Weights(K, C), 0, C)
  BY DEF Meets
<1>4. LossMeets(K, C, bound) <=>
        \A c \in K : bound.den * SumFunctionOnSet(w, Blocks(c)) <= bound.num * SumFunction(w)
  BY DEF LossMeets, WeightOf
<1> HIDE DEF w, From, Blocks
<1> QED
  BY <1>1, <1>2, <1>3, <1>4

-----------------------------------------------------------------------------
(* The units *)

\* A finite set of numbers has a largest.
LEMMA MaxIs ==
    ASSUME NEW S \in SUBSET Nat, IsFiniteSet(S), S # {}
    PROVE  Max(S) \in S /\ \A y \in S : Max(S) >= y
<1> DEFINE F == {s \in SUBSET S : s # {} => \E x \in s : \A y \in s : x >= y}
<1>1. {} \in F
  OBVIOUS
<1>2. ASSUME NEW s \in SUBSET S, NEW z \in S \ s, s \in F PROVE s \cup {z} \in F
  <2>1. CASE s = {}
    BY <2>1
  <2>2. CASE s # {}
    <3>1. PICK x \in s : \A y \in s : x >= y
      BY <1>2, <2>2
    <3>2. CASE x >= z
      BY <3>1, <3>2
    <3>3. CASE ~(x >= z)
      <4>1. \A y \in s \cup {z} : z >= y
        BY <3>1, <3>3
      <4> QED
        BY <4>1
    <3> QED
      BY <3>2, <3>3
  <2> QED
    BY <2>1, <2>2
<1> HIDE DEF F
<1>3. S \in F
  BY <1>1, <1>2, SetInduction
<1>4. \E x \in S : \A y \in S : x >= y
  BY <1>3 DEF F
<1> QED
  BY <1>4 DEF Max

\* A positive multiple holds its divisor at least once.
LEMMA DivOfMultiple == \A m \in Pos, d \in Pos : m % d = 0 => m \div d \in Pos
BY DEF Pos

\* A set of loads is finite and not empty.
LEMMA LoadsFinite == \A l \in Loads : IsFiniteSet(l) /\ l # {} /\ l \subseteq [erlangs: Erlangs, size: Sizes]
<1> DEFINE R == [erlangs: Erlangs, size: Sizes]
           f == [x \in R |-> <<x.erlangs, x.size>>]
<1>1. IsFiniteSet(Erlangs \X Sizes)
  BY SizingAssumption, FS_Product
<1>2. f \in Injection(R, Erlangs \X Sizes)
  BY DEF Injection, IsInjective
<1>3. IsFiniteSet(R)
  BY <1>1, <1>2, FS_Injection
<1>4. ASSUME NEW l \in Loads PROVE IsFiniteSet(l) /\ l # {} /\ l \subseteq R
  <2>1. PICK k \in 1 .. MaxClasses : l \in SUBSET R /\ Cardinality(l) = k
    BY DEF Loads, kSubset
  <2>2. l # {}
    BY <2>1, SizingAssumption, FS_EmptySet
  <2> QED
    BY <1>3, <2>1, <2>2, FS_Subset
<1> QED
  BY <1>4

\* So are its classes, and every demand takes a unit at least.
LEMMA ClassesProper ==
    ASSUME NEW l \in Loads
    PROVE  ProperClasses(Classes(l)) /\ Classes(l) # {}
<1> DEFINE sizes == {x.size : x \in l}
           unit == CommonUnit(sizes)
           divisors == {d \in 1 .. Max(sizes) : \A m \in sizes : Divides(d, m)}
           class == [x \in l |-> [erlangs |-> x.erlangs, units |-> x.size \div unit]]
           size == [x \in l |-> x.size]
<1>1. IsFiniteSet(l) /\ l # {} /\ \A x \in l : x.erlangs \in Pos /\ x.size \in Pos
  BY LoadsFinite, SizingAssumption DEF Pos
<1>2. sizes \in SUBSET Nat /\ IsFiniteSet(sizes) /\ sizes # {}
  <2>1. size \in Surjection(l, sizes)
    BY DEF Surjection
  <2> QED
    BY <1>1, <2>1, FS_Surjection DEF Pos
<1>3. Max(sizes) \in Pos
  BY <1>1, <1>2, MaxIs
<1>4. divisors \in SUBSET Nat /\ IsFiniteSet(divisors)
  <2>1. Max(sizes) \in Nat
    BY <1>3 DEF Pos
  <2>2. IsFiniteSet(1 .. Max(sizes)) /\ 1 .. Max(sizes) \subseteq Nat
    BY <2>1, FS_Interval
  <2>3. divisors \in SUBSET (1 .. Max(sizes))
    OBVIOUS
  <2> HIDE DEF divisors
  <2> QED
    BY <2>2, <2>3, FS_Subset
<1>5. 1 \in divisors
  <2>1. 1 \in 1 .. Max(sizes)
    BY <1>3 DEF Pos
  <2>2. \A m \in Nat : m % 1 = 0
    OBVIOUS
  <2>3. \A m \in sizes : Divides(1, m)
    BY <1>2, <2>2 DEF Divides
  <2> QED
    BY <2>1, <2>3
<1>6. unit \in divisors
  BY <1>4, <1>5, MaxIs DEF CommonUnit
<1>7. unit \in Pos /\ \A x \in l : x.size % unit = 0
  BY <1>6 DEF Divides, Pos
<1> HIDE DEF unit
<1>8. \A x \in l : class[x].erlangs \in Pos /\ class[x].units \in Pos
  BY <1>1, <1>7, DivOfMultiple
<1>9. Classes(l) = {class[x] : x \in l}
  BY DEF Classes, unit
<1> HIDE DEF class
<1>10. IsFiniteSet(Classes(l))
  <2>1. PICK f : f = [x \in l |-> class[x]]
    OBVIOUS
  <2>2. f \in Surjection(l, Classes(l))
    BY <1>9, <2>1 DEF Surjection
  <2> QED
    BY <1>1, <2>2, FS_Surjection
<1> QED
  BY <1>1, <1>8, <1>9, <1>10 DEF ProperClasses

-----------------------------------------------------------------------------
(* The search *)

\* What the search keeps: both ends are sizes no smaller than the largest demand, and in order;
\* doubling leaves the lower end alone.
SizingTypeOK ==
    /\ loads \in Loads /\ target \in Targets
    /\ lo \in Nat /\ hi \in Nat /\ Largest \in Nat
    /\ Largest <= lo /\ lo <= hi
    /\ phase = "double" => lo = Largest

SizingInv == SizingTypeOK /\ Bracketed

\* The sizes the search asks for are answered as the loss system would.
LEMMA MeetsIsMet ==
    ASSUME loads \in Loads, NEW C \in Nat
    PROVE  Meets(classes, C, target) <=> BlockingMet(C)
<1>1. PICK K : K = classes
  OBVIOUS
<1>2. ProperClasses(K)
  BY <1>1, ClassesProper DEF classes
<1> QED
  BY <1>1, <1>2, KaufmanRoberts DEF BlockingMet

\* The largest demand is a number of units.
LEMMA LargestIs == ASSUME loads \in Loads PROVE Largest \in Nat
<1>1. PICK K : K = classes
  OBVIOUS
<1>2. ProperClasses(K) /\ K # {}
  BY <1>1, ClassesProper DEF classes
<1> DEFINE U == {c.units : c \in K}
           f == [c \in K |-> c.units]
<1>3. f \in Surjection(K, U)
  BY DEF Surjection
<1>4. U \in SUBSET Nat /\ U # {} /\ IsFiniteSet(U)
  BY <1>2, <1>3, FS_Surjection DEF ProperClasses, Pos
<1>5. Max(U) \in Nat
  BY <1>4, MaxIs
<1> QED
  BY <1>1, <1>5 DEF Largest

\* kr_size(): unless doubling stopped at its limit, the upper end meets the target by the loss
\* system's own definition, what lies just below a lower end that moved does not, and the ends
\* stay in order, for all offered loads and demand sizes.
THEOREM BracketTheorem == SizingSpec => []Bracketed
<1>1. SizingInit => SizingInv
  <2> SUFFICES ASSUME SizingInit PROVE SizingInv
    OBVIOUS
  <2>1. Largest \in Nat
    BY LargestIs DEF SizingInit
  <2> QED
    BY <2>1 DEF SizingInit, SizingInv, SizingTypeOK, Bracketed
<1>2. SizingInv /\ [SizingNext]_sizing_vars => SizingInv'
  <2> SUFFICES ASSUME SizingInv, [SizingNext]_sizing_vars PROVE SizingInv'
    OBVIOUS
  <2>0. /\ loads \in Loads /\ target \in Targets /\ lo \in Nat /\ hi \in Nat /\ Largest \in Nat
        /\ Largest <= lo /\ lo <= hi /\ phase = "double" => lo = Largest
    BY DEF SizingInv, SizingTypeOK
  <2>1. ASSUME loads' = loads, target' = target
        PROVE  Largest' = Largest /\ \A C \in Nat : BlockingMet(C)' <=> BlockingMet(C)
    BY <2>1 DEF Largest, classes, BlockingMet
  <2>2. CASE Double
    <3>1. loads' = loads /\ target' = target /\ lo' = lo /\ phase = "double"
      BY <2>2 DEF Double
    <3>2. CASE ~Meets(classes, hi, target) /\ hi < limit_units
      <4>1. hi' = 2 * hi /\ phase' = phase
        BY <2>2, <3>2 DEF Double
      <4> QED
        BY <2>0, <2>1, <3>1, <4>1 DEF SizingInv, SizingTypeOK, Bracketed
    <3>3. CASE ~(~Meets(classes, hi, target) /\ hi < limit_units)
      <4>1. hi' = hi /\ phase' = "bisect"
        BY <2>2, <3>3 DEF Double
      <4>2. hi >= limit_units \/ BlockingMet(hi)
        BY <2>0, <3>3, MeetsIsMet, SizingAssumption
      <4> QED
        BY <2>0, <2>1, <3>1, <4>1, <4>2 DEF SizingInv, SizingTypeOK, Bracketed
    <3> QED
      BY <3>2, <3>3
  <2>3. CASE Bisect
    <3>1. loads' = loads /\ target' = target /\ phase = "bisect"
      BY <2>3 DEF Bisect
    <3>2. /\ hi >= limit_units \/ BlockingMet(hi)
          /\ lo = Largest \/ ~BlockingMet(lo - 1)
      BY <3>1 DEF SizingInv, Bracketed
    <3> DEFINE mid == (lo + hi) \div 2
    <3>3. CASE lo >= hi
      <4>1. lo' = lo /\ hi' = hi /\ phase' = "done"
        BY <2>0, <2>3, <3>3 DEF Bisect
      <4> QED
        BY <2>0, <2>1, <3>1, <3>2, <4>1 DEF SizingInv, SizingTypeOK, Bracketed
    <3>4. CASE lo < hi
      <4>1. mid \in Nat /\ lo <= mid /\ mid < hi
        BY <2>0, <3>4
      <4>2. CASE Meets(classes, mid, target)
        <5>1. hi' = mid /\ lo' = lo /\ phase' = phase
          BY <2>0, <2>3, <3>4, <4>2 DEF Bisect
        <5>2. BlockingMet(mid)
          BY <2>0, <4>1, <4>2, MeetsIsMet
        <5> HIDE DEF mid
        <5> QED
          BY <2>0, <2>1, <3>1, <3>2, <4>1, <5>1, <5>2 DEF SizingInv, SizingTypeOK, Bracketed
      <4>3. CASE ~Meets(classes, mid, target)
        <5>1. hi' = hi /\ lo' = mid + 1 /\ phase' = phase
          BY <2>0, <2>3, <3>4, <4>3 DEF Bisect
        <5>2. ~BlockingMet(mid)
          BY <2>0, <4>1, <4>3, MeetsIsMet
        <5> HIDE DEF mid
        <5>3. lo' - 1 = mid /\ lo' \in Nat /\ lo' <= hi
          BY <2>0, <4>1, <5>1
        <5> QED
          BY <2>0, <2>1, <3>1, <3>2, <4>1, <5>1, <5>2, <5>3 DEF SizingInv, SizingTypeOK, Bracketed
      <4> QED
        BY <4>2, <4>3
    <3> QED
      BY <2>0, <3>3, <3>4
  <2>4. CASE UNCHANGED sizing_vars
    BY <2>0, <2>1, <2>4 DEF sizing_vars, SizingInv, SizingTypeOK, Bracketed
  <2> QED
    BY <2>2, <2>3, <2>4 DEF SizingNext
<1>3. SizingInv => Bracketed
  BY DEF SizingInv
<1> QED
  BY <1>1, <1>2, <1>3, PTL DEF SizingSpec
=============================================================================

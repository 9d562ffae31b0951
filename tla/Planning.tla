------------------------------- MODULE Planning -------------------------------
(***************************************************************************)
(* The planning functions of the slice orchestrator: where a demand        *)
(* belongs (plan), how much is demanded (observed_demands), and what       *)
(* capacity keeps blocking under a target (kaufman_roberts, kr_unit,       *)
(* kr_size).  Rates are in thousandths of a Mbps, demand sizes for         *)
(* Kaufman-Roberts in hundredths; probabilities are exact fractions.       *)
(***************************************************************************)
EXTENDS Naturals, Sequences, FiniteSetsExt, Functions

-----------------------------------------------------------------------------
(* plan(): the cheapest adequate slice, and whether a slice is needed *)

\* Slices are [latency, capacity] records by name; `latency` is what the class asks for.
Adequate(slices, latency) == {s \in DOMAIN slices : slices[s].latency <= latency}

Cheaper(slices, s, t) ==
    \/ slices[s].latency > slices[t].latency
    \/ slices[s].latency = slices[t].latency /\ slices[s].capacity >= slices[t].capacity

\* max(fits, key=(max_latency_ms, capacity_mbps)); {} when the class is unservable.
CheapestAdequate(slices, latency) ==
    LET fits == Adequate(slices, latency)
    IN {s \in fits : \A t \in fits : Cheaper(slices, s, t)}

\* observed_demands(): Little's law over the demands of the last `window` seconds, refused
\* ones too, rounded to thousandths.  A log is a set of entries [t, class, nth].
Observed(log, class, rate, hold, window, now) ==
    LET recent == {e \in log : e.t + window >= now /\ e.class = class}
    IN (2 * Cardinality(recent) * rate * hold + window) \div (2 * window)

\* needed, as the closed loop reads it: the slice's demand, rounded to hundredths, is above 0.
AboveZero(mbps) == mbps + 5 >= 10

-----------------------------------------------------------------------------
(* kaufman_roberts(), for a set of classes [erlangs, units] *)

Factorial[n \in Nat] == IF n = 0 THEN 1 ELSE n * Factorial[n - 1]

\* (mutant: each demand weighs the same, whatever its size)
WeightsPerDemand(classes, C) ==
    LET q[n \in 0 .. C] ==
            IF n = 0 THEN Factorial[C]
            ELSE SumFunction([c \in {d \in classes : d.units <= n} |->
                                 c.erlangs * q[n - c.units]]) \div n
    IN q

\* q(n) times C!, which is a whole number when the offered loads are.
Weights(classes, C) ==
    LET q[n \in 0 .. C] ==
            IF n = 0 THEN Factorial[C]
            ELSE SumFunction([c \in {d \in classes : d.units <= n} |->
                                 c.erlangs * c.units * q[n - c.units]]) \div n
    IN q

Total(q, from, to) == SumFunctionOnSet(q, from .. to)

\* Blocking of every class is at most num/den: a class is blocked in its top `units` states.
Meets(classes, C, target) ==
    LET q == Weights(classes, C)
    IN \A c \in classes :
          target.den * Total(q, IF c.units > C THEN 0 ELSE C + 1 - c.units, C)
              <= target.num * Total(q, 0, C)

-----------------------------------------------------------------------------
(* kr_unit(): the largest unit every size is a multiple of *)

Divides(d, n) == n % d = 0
CommonUnit(sizes) == Max({d \in 1 .. Max(sizes) : \A m \in sizes : Divides(d, m)})

Classes(loads) ==
    LET unit == CommonUnit({l.size : l \in loads})
    IN {[erlangs |-> l.erlangs, units |-> l.size \div unit] : l \in loads}
=============================================================================

------------------------------- MODULE Scorecard -------------------------------
(***************************************************************************)
(* scorecard.py: the score of one instance.  A KPI is a record of measure, *)
(* better, target and weight (in hundredths); scores are thousandths,      *)
(* rounded down.  `none` is what was not measured.                         *)
(***************************************************************************)
EXTENDS Integers, FiniteSetsExt

CONSTANT none

\* load(): definitions it accepts.
ValidDefs(defs) ==
    \A s \in DOMAIN defs :
        /\ \A k \in defs[s] : k.better \in {"lower", "higher"} /\ k.weight >= 0
        /\ \A k \in defs[s] : k.weight > 0 => k.target # none
        /\ LET weight(k) == k.weight IN MapThenSumSet(weight, defs[s]) = 100

Met(k, m) == IF k.better = "lower" THEN m <= k.target ELSE m >= k.target

\* (mutant: a miss is scored the same way whichever way is better)
ScoreKpiOneWay(k, m) ==
    IF m = none \/ k.target = none THEN none
    ELSE IF Met(k, m) THEN 1000
    ELSE (1000 * m) \div k.target

\* score_kpi()
ScoreKpi(k, m) ==
    IF m = none \/ k.target = none THEN none
    ELSE CASE Met(k, m) -> 1000
           [] ~Met(k, m) /\ k.better = "lower" -> (1000 * k.target) \div m
           [] ~Met(k, m) /\ k.better # "lower" -> (1000 * m) \div k.target

Scored(kpis) == {k \in kpis : k.weight > 0}

\* score(): a slice is scored when all its weighted KPIs are, the instance when all slices are.
SliceScore(kpis, measured) ==
    IF \E k \in Scored(kpis) : ScoreKpi(k, measured[k.measure]) = none THEN none
    ELSE LET part(k) == k.weight * ScoreKpi(k, measured[k.measure])
         IN MapThenSumSet(part, Scored(kpis)) \div 100

Overall(defs, measured) ==
    IF \E s \in DOMAIN defs : SliceScore(defs[s], measured) = none THEN none
    ELSE LET of(s) == SliceScore(defs[s], measured)
         IN MapThenSumSet(of, DOMAIN defs) \div Cardinality(DOMAIN defs)
=============================================================================

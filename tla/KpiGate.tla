------------------------------- MODULE KpiGate -------------------------------
(***************************************************************************)
(* tools/kpi-gate/kpi_gate.py: the verdict over a set of KPI definitions.  *)
(*                                                                         *)
(* A definition measures one Kpi of the stack with an expression.  The     *)
(* tool reads the expression in two ways that have nothing to do with each *)
(* other: Prometheus evaluates it, to one number, to several, to none; and *)
(* the check of the definitions looks at its text.  A definition therefore *)
(* carries both: what the query returns when the Kpi fares well, fares     *)
(* badly, or is not reported, and what the text looks like.                *)
(***************************************************************************)
EXTENDS Naturals, FiniteSets

CONSTANT Kpi

\* One number that meets the threshold or does not, no series, several, NaN or infinite,
\* or no answer at all.
Result == {"holds", "breached", "empty", "several", "nan", "refused"}

\* How the stack fares on the measured Kpi: well, badly, or nothing reports it.
Condition == {"well", "badly", "silent"}

\* aggregates: the text begins with count( or sum(;  fallback: it has `or vector(` somewhere;
\* atmost: the operator is eq, lt or lte.
Definition ==
    [id: Nat, kpi: Kpi, returns: [Condition -> Result \ {"refused"}],
     aggregates: BOOLEAN, fallback: BOOLEAN, atmost: BOOLEAN,
     severity: {"gate", "advisory"}, requires: {"core", "ode"}]

\* What any expression does, whatever its shape: a Kpi that fares badly does not meet the
\* threshold, and without a fallback nothing can be made of no samples (absent() aside).
Measures(g) ==
    /\ g.returns["badly"] # "holds"
    /\ g.returns["silent"] = "holds" => g.fallback

-----------------------------------------------------------------------------
(* promql() and to_scalar() *)

Promql(g, c) == g.returns[c]

\* None unless there is one number.
ToScalar(r) == IF r \in {"holds", "breached"} THEN r ELSE "None"

-----------------------------------------------------------------------------
(* evaluate() *)

\* (mutant: a missing value only warns)
EvaluateLenient(g, value) ==
    IF g.requires = "ode" THEN "SKIP-ODE"
    ELSE CASE value = "holds" -> "PASS"
           [] value = "None" -> "WARN"
           [] OTHER -> IF g.severity = "advisory" THEN "WARN" ELSE "FAIL"

Evaluate(g, value) ==
    IF g.requires = "ode" THEN "SKIP-ODE"
    ELSE IF value = "holds" THEN "PASS"
    ELSE IF g.severity = "advisory" THEN "WARN" ELSE "FAIL"

-----------------------------------------------------------------------------
(* load_defs() *)

\* The text only: count by (..)(..), scalar(count(..)), max(..) or an operator ne are not seen.
NeedsZeroFallback(g) == g.requires # "ode" /\ g.aggregates /\ g.atmost /\ ~g.fallback

\* (mutant: the fallback is not asked for)
AcceptsAny(defs) == Cardinality({g.id : g \in defs}) = Cardinality(defs)

\* Structurally valid, no trap, no id twice: else the tool exits with an error.
Accepted(defs) ==
    /\ \A g \in defs : ~NeedsZeroFallback(g)
    /\ Cardinality({g.id : g \in defs}) = Cardinality(defs)

-----------------------------------------------------------------------------
(* main() *)

\* Exit code 0: definitions load, and no gate failed.  `result` is what each query
\* returned, "refused" also for a network that dropped.
Passes(defs, result) ==
    /\ Accepted(defs)
    /\ \A g \in defs : Evaluate(g, ToScalar(result[g])) # "FAIL"
=============================================================================

------------------------------- MODULE MCDeploy -------------------------------
(* Versions of the files: the first, one that spoils a KPI, two that no longer report one
   (with and without a fallback to make a pass of it), one whose definitions have the trap,
   one whose definitions have a gap the tool does not look for, one that does not validate.
   The definitions ask for enough sessions, for no target that is down, for a latency
   (advisory), and for one thing only another host can run. *)
EXTENDS Deploy

CONSTANTS v1, spoils, hides, blinds, trap, gapped, invalid, sessions, targets, latency

MCVersion == {v1, spoils, hides, blinds, trap, gapped, invalid}
MCKpi == {sessions, targets, latency}

Returns(well, badly, silent) ==
    [c \in Condition |-> CASE c = "well" -> well [] c = "badly" -> badly [] c = "silent" -> silent]
Gate_(id, kpi, returns, aggregates, fallback, atmost, severity, requires) ==
    [id |-> id, kpi |-> kpi, returns |-> returns, aggregates |-> aggregates,
     fallback |-> fallback, atmost |-> atmost, severity |-> severity, requires |-> requires]

Common ==
    {Gate_(1, sessions, Returns("holds", "breached", "empty"), TRUE, FALSE, FALSE, "gate", "core"),
     Gate_(3, latency, Returns("nan", "breached", "empty"), FALSE, FALSE, TRUE, "advisory", "core"),
     Gate_(4, latency, Returns("empty", "breached", "empty"), TRUE, FALSE, TRUE, "gate", "ode")}

\* At most no target is down: count(up == 0), count by (job)(up == 0), count(up == 0) or vector(0).
Targets(returns, aggregates, fallback) ==
    Gate_(2, targets, returns, aggregates, fallback, TRUE, "gate", "core")
Down(v) ==
    CASE v = trap -> Targets(Returns("empty", "breached", "empty"), TRUE, FALSE)
      [] v = gapped -> Targets(Returns("empty", "several", "empty"), FALSE, FALSE)
      [] OTHER -> Targets(Returns("holds", "breached", "holds"), TRUE, TRUE)

MCDefinitions == [v \in MCVersion |-> Common \cup {Down(v)}]

Tree_(dirs, top, extra) == [dirs |-> dirs, top |-> top, extra |-> extra]
MCCandidates ==
    {Tree_(v1, v1, none), Tree_(spoils, v1, none), Tree_(v1, hides, none), Tree_(blinds, v1, none),
     Tree_(v1, trap, none), Tree_(v1, gapped, none), Tree_(invalid, v1, none),
     Tree_(v1, v1, spoils), Tree_(v1, v1, v1), Tree_(spoils, v1, v1)}

MCHurts == [v \in MCVersion |-> IF v = spoils THEN {sessions, latency} ELSE {}]
MCHides ==
    [v \in MCVersion |->
        CASE v = hides -> {targets} [] v = blinds -> {sessions} [] OTHER -> {}]
=============================================================================

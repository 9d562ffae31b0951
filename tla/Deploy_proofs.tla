------------------------------ MODULE Deploy_proofs ------------------------------
(* What holds of deploy.sh for any versions, definitions and candidates, and any number *)
(* of runs, edits and faults: what becomes known-good has passed, harm is rejected, the *)
(* trap the definitions are checked for rejects nobody, and the candidate is not lost.  *)
EXTENDS Deploy, TLAPS

-----------------------------------------------------------------------------
(* The gate *)

\* What enforcing definitions say of a KPI that fares badly, or that nothing reports.
LEMMA GateCatches ==
    ASSUME NEW g \in Definition, Measures(g), g.severity = "gate", g.requires # "ode"
    PROVE  /\ Evaluate(g, ToScalar(Promql(g, "badly"))) = "FAIL"
           /\ Evaluate(g, ToScalar(Promql(g, "silent"))) = "FAIL" \/ g.fallback
  BY DEF Measures, Promql, ToScalar, Evaluate

\* A definition that fails on a KPI that fares well enforces it, and does not hold there.
LEMMA GateSpares ==
    ASSUME NEW g, Evaluate(g, ToScalar(Promql(g, "well"))) = "FAIL"
    PROVE  g.requires # "ode" /\ g.severity # "advisory" /\ Promql(g, "well") # "holds"
  BY DEF Evaluate, ToScalar

\* What the gate says of the running stack when nothing fails.
LEMMA GateTells ==
    ASSUME TypeOK, NEW ok \in BOOLEAN, GateSays(ok), faults' = faults
    PROVE  LET defs == Definitions[files.top]
           IN /\ defs \subseteq {g \in Definition : Measures(g)}
              /\ ok <=> /\ Accepted(defs)
                        /\ \A g \in defs : Evaluate(g, ToScalar(Promql(g, ConditionOf(g.kpi)))) # "FAIL"
<1> DEFINE defs == Definitions[files.top]
           seen == [g \in defs |-> Promql(g, ConditionOf(g.kpi))]
<1>1. defs \subseteq {g \in Definition : Measures(g)}
  BY DeployAssumption DEF TypeOK, Tree
<1>2. faults \in Nat
  BY DeployAssumption DEF TypeOK
<1>3. ok = Passes(defs, seen)
  BY <1>2 DEF GateSays, Fault
<1>4. \A g \in defs : seen[g] = Promql(g, ConditionOf(g.kpi))
  OBVIOUS
<1> HIDE DEF seen
<1>5. Passes(defs, seen) <=> /\ Accepted(defs)
                             /\ \A g \in defs : Evaluate(g, ToScalar(seen[g])) # "FAIL"
  BY DEF Passes
<1> QED
  BY <1>1, <1>3, <1>4, <1>5

\* Passing means that nothing enforced is spoiled, or silent without a fallback.
LEMMA PassingIsHarmless ==
    ASSUME TypeOK, GateSays(TRUE), faults' = faults, NEW g \in Enforcing
    PROVE  /\ g.kpi \in HurtBy(stack) => g.kpi \in HiddenBy(stack)
           /\ g.kpi \in HiddenBy(stack) => g.fallback
<1>1. g \in Definitions[files.top] /\ g.severity = "gate" /\ g.requires # "ode"
  BY DEF Enforcing
<1>2. g \in Definition /\ Measures(g) /\ Evaluate(g, ToScalar(Promql(g, ConditionOf(g.kpi)))) # "FAIL"
  BY <1>1, GateTells
<1>3. ConditionOf(g.kpi) # "badly"
  BY <1>1, <1>2, GateCatches
<1>4. ConditionOf(g.kpi) = "silent" => g.fallback
  BY <1>1, <1>2, GateCatches
<1> QED
  BY <1>3, <1>4 DEF ConditionOf

\* A stack that nothing spoils passes definitions that were accepted, but for one that does
\* not hold on it and is not the trap.
LEMMA HealthPasses ==
    ASSUME TypeOK, GateSays(FALSE), faults' = faults, ~dormant,
           Accepted(Definitions[files.top]), HurtBy(stack) \cup HiddenBy(stack) = {}
    PROVE  \E g \in Enforcing : Promql(g, "well") # "holds" /\ ~EmptyVectorTrap(g)
<1>1. \A k : ConditionOf(k) = "well"
  BY DEF ConditionOf
<1>2. PICK g \in Definitions[files.top] : Evaluate(g, ToScalar(Promql(g, "well"))) = "FAIL"
  BY <1>1, GateTells
<1>3. g \in Definition
  BY GateTells
<1>4. g \in Enforcing /\ Promql(g, "well") # "holds"
  BY <1>2, <1>3, GateSpares DEF Enforcing, Definition
<1>5. ~EmptyVectorTrap(g)
  BY <1>2, <1>4 DEF Accepted, NeedsZeroFallback, EmptyVectorTrap, Enforcing
<1> QED
  BY <1>4, <1>5

-----------------------------------------------------------------------------
(* The invariant *)

\* A run in which nothing has failed and nobody has edited, so far.
CleanRun == at # "idle" /\ faults = since /\ ~disturbed

\* Once validated, and until a rollback removes them, the candidate's directories are there.
CandidatePresent ==
    at \in {"tools", "gate0", "compose", "restart", "gate", "clear", "tar", "reject", "remove"}
        => files.dirs # none

\* There is a snapshot to go back to from compose on, whole or torn.
SnapshotKept ==
    /\ at = "gate0" => init
    /\ at \in {"compose", "restart", "gate", "reject", "remove", "untar"} => good # none

\* What is about to be removed, or has just been, was saved.
CandidateKept ==
    /\ NothingIsLost
    /\ at \in {"remove", "untar"} => owed = none \/ owed \in rejected

\* Grafana sees the directories on disk, or none since they were removed under it.
GrafanaSees ==
    /\ grafana \in {files.dirs, none}
    /\ at = "untar" => grafana = none

\* What a clean run knows at each step on the way up.
CandidateApplied ==
    CleanRun =>
        /\ ~dormant
        /\ at \in {"tools", "gate0", "compose", "restart", "gate", "clear", "tar", "reject", "remove"}
              => Valid(files)
        /\ init /\ at \in {"validate", "tools", "gate0"} => files = stack
        /\ at = "restart" => stack.top = files.top /\ stack.extra = files.extra
        /\ at \in {"gate", "clear", "tar"} => files = stack
        /\ at \in {"clear", "tar"} => stack \in passed

\* And on the way back: the files are those of the snapshot, if it is whole, and a file it
\* may lack.
SnapshotRestored ==
    CleanRun =>
        /\ at \in {"compose2", "restart2", "gate2"} /\ good \in Tree =>
              \E x \in Version \cup {none} : files = [good EXCEPT !.extra = x]
        /\ at = "restart2" => stack.top = files.top /\ stack.extra = files.extra
        /\ at = "gate2" => files = stack

IInv ==
    /\ TypeOK /\ faults \in Nat
    /\ CandidatePresent /\ SnapshotKept /\ CandidateKept /\ GrafanaSees
    /\ CandidateApplied /\ SnapshotRestored

\* Steps that count a fault, or none: either way a run is clean after only if before.
LEMMA FaultCounts ==
    ASSUME IInv, Fault \/ Smooth
    PROVE  /\ faults' \in Nat /\ faults' \in 0 .. MaxFaults /\ since \in 0 .. faults'
           /\ runs' = runs /\ edits' = edits
           /\ faults' = faults \/ faults' = faults + 1
           /\ faults' = since => faults' = faults /\ Smooth
  BY DeployAssumption DEF IInv, TypeOK, Fault, Smooth, bounds

\* While there is a snapshot, whole or torn, what is restored of it is a tree.
LEMMA ArchiveRestores ==
    ASSUME IInv, at = "untar"
    PROVE  /\ Archived \in Tree
           /\ \A t \in RestoredPart(Archived) : t \in Tree
<1>1. good \in Tree \cup Torn
  BY DEF IInv, TypeOK, SnapshotKept
<1>2. Archived \in Tree
  BY <1>1 DEF Archived, Torn
<1>3. files \in Tree
  BY DEF IInv, TypeOK
<1> QED
  BY <1>2, <1>3 DEF RestoredPart, Tree

\* The invariant is preserved by what happens around the script.
LEMMA AroundPreserves ==
    ASSUME IInv, Kill \/ Dormancy \/ (\E t \in Candidates : Edit(t))
    PROVE  IInv'
<1>1. CASE Kill
  <2>1. /\ Fault /\ at' = "idle" /\ decision' = "killed"
        /\ good' = good \/ good' = [torn |-> files]
        /\ UNCHANGED <<rejected, owed, stack, grafana, init, dormant, passed, disturbed, since>>
        /\ files' = files \/ (at = "untar" /\ files' \in RestoredPart(Archived))
    BY <1>1 DEF Kill, End, running, history
  <2>2. files' \in Tree
    BY <2>1, ArchiveRestores DEF IInv, TypeOK
  <2>3. TypeOK' /\ faults' \in Nat
    <3>1. "idle" \in Steps /\ "killed" \in Decisions
      BY DEF Steps, Decisions
    <3>2. good' \in Tree \cup {none} \cup Torn
      BY <2>1 DEF IInv, TypeOK, Torn
    <3> QED
      BY <2>1, <2>2, <3>1, <3>2, FaultCounts DEF IInv, TypeOK
  <2>4. SnapshotKept' /\ CandidatePresent' /\ CandidateApplied' /\ SnapshotRestored'
    BY <2>1 DEF SnapshotKept, CandidatePresent, CandidateApplied, SnapshotRestored, CleanRun
  <2>5. CandidateKept' /\ GrafanaSees'
    BY <2>1 DEF CandidateKept, NothingIsLost, GrafanaSees, IInv
  <2> QED
    BY <2>3, <2>4, <2>5 DEF IInv
<1>2. CASE Dormancy
  <2>1. TypeOK' /\ faults' \in Nat
    BY <1>2, DeployAssumption DEF IInv, TypeOK, Dormancy, disk, running
  <2>2. ~CleanRun'
    BY <1>2 DEF CleanRun, Dormancy
  <2> QED
    BY <1>2, <2>1, <2>2 DEF IInv, SnapshotKept, CandidatePresent, CandidateApplied,
       SnapshotRestored, CandidateKept, NothingIsLost, GrafanaSees, Dormancy, disk, running
<1>3. CASE \E t \in Candidates : Edit(t)
  <2>1. PICK t \in Candidates : Edit(t)
    BY <1>3
  <2>2. t \in Tree /\ t.dirs \in Version
    BY DeployAssumption DEF Tree
  <2>3. TypeOK' /\ faults' \in Nat
    <3>1. edits' \in 0 .. MaxEdits
      BY <2>1, DeployAssumption DEF IInv, TypeOK, Edit
    <3>2. disturbed' \in BOOLEAN
      BY <2>1 DEF IInv, TypeOK, Edit
    <3>3. /\ files' \in Tree /\ owed' \in Tree \cup {none} /\ grafana' \in Version \cup {none}
          /\ UNCHANGED <<good, rejected, stack, at, init, decision, dormant, passed, since, runs,
                         faults>>
      BY <2>1, <2>2 DEF Edit, IInv, TypeOK
    <3> QED
      BY <3>1, <3>2, <3>3 DEF IInv, TypeOK
  <2>4. ~CleanRun'
    BY <2>1 DEF CleanRun, Edit
  <2>5. CandidateKept' /\ GrafanaSees'
    BY <2>1, <2>2 DEF IInv, CandidateKept, NothingIsLost, GrafanaSees, Edit
  <2>6. CandidatePresent' /\ SnapshotKept'
    BY <2>1, <2>2, DeployAssumption DEF IInv, CandidatePresent, SnapshotKept, Edit
  <2> QED
    BY <2>3, <2>4, <2>5, <2>6 DEF IInv, CandidateApplied, SnapshotRestored
<1> QED
  BY <1>1, <1>2, <1>3

\* The invariant is preserved by the checks a run starts with.
LEMMA StartPreserves ==
    ASSUME IInv, (\E i \in BOOLEAN : Begin(i)) \/ Validate \/ Tools
    PROVE  IInv'
<1>1. CASE \E i \in BOOLEAN : Begin(i)
  <2>1. PICK i \in BOOLEAN : Begin(i)
    BY <1>1
  <2>2. TypeOK' /\ faults' \in Nat
    <3>1. at' \in Steps /\ decision' \in Decisions
      BY <2>1 DEF IInv, TypeOK, Begin, GoTo, End, Steps, Decisions
    <3>2. faults' \in Nat /\ faults' \in 0 .. MaxFaults /\ since' \in 0 .. faults' /\ runs' \in 0 .. MaxRuns
      BY <2>1, DeployAssumption DEF IInv, TypeOK, Begin
    <3> QED
      BY <2>1, <3>1, <3>2 DEF IInv, TypeOK, Begin, disk, running
  <2>3. at' \in {"idle", "validate"} /\ (CleanRun' => ~dormant') /\ (i => files' = stack')
    BY <2>1, DeployAssumption DEF IInv, Begin, GoTo, End, disk, running, CleanRun
  <2>4. SnapshotKept' /\ CandidateKept' /\ GrafanaSees'
    BY <2>1, <2>3 DEF IInv, SnapshotKept, CandidateKept, NothingIsLost, GrafanaSees, Begin, disk,
       running
  <2>5. CandidatePresent' /\ CandidateApplied' /\ SnapshotRestored'
    BY <2>1, <2>3 DEF CandidatePresent, CandidateApplied, SnapshotRestored, Begin
  <2> QED
    BY <2>2, <2>4, <2>5 DEF IInv
<1>2. CASE Validate
  <2>1. TypeOK' /\ faults' \in Nat
    BY <1>2 DEF IInv, TypeOK, Validate, GoTo, End, disk, running, history, bounds, Steps, Decisions
  <2>2. /\ at' \in {"idle", "tools"} /\ (at' = "tools" => Valid(files))
        /\ UNCHANGED <<files, stack, grafana, good, rejected, owed, init, dormant, passed,
                       disturbed, since, faults>>
    BY <1>2 DEF Validate, GoTo, End, disk, running, history, bounds
  <2>3. Valid(files)' = Valid(files)
    BY <2>2 DEF Valid, Parts
  <2>4. at' = "tools" => files'.dirs # none
    BY <2>2, <2>3 DEF Valid
  <2> QED
    BY <1>2, <2>1, <2>2, <2>3, <2>4 DEF IInv, SnapshotKept, CandidatePresent, CandidateApplied,
       SnapshotRestored, CandidateKept, NothingIsLost, GrafanaSees, CleanRun, Validate
<1>3. CASE Tools
  <2>1. Fault \/ Smooth
    BY <1>3 DEF Tools
  <2>2. /\ at' \in {"idle", "gate0", "compose"}
        /\ at' = "gate0" => init
        /\ at' = "compose" => good # none
        /\ UNCHANGED <<files, stack, grafana, good, rejected, owed, init, dormant, passed,
                       disturbed, since>>
    BY <1>3 DEF IInv, TypeOK, Tools, GoTo, End, disk, running, history
  <2>3. TypeOK' /\ faults' \in Nat
    BY <1>3, <2>1, <2>2, FaultCounts DEF IInv, TypeOK, Tools, GoTo, End, Steps, Decisions
  <2>4. Valid(files)' = Valid(files)
    BY <2>2 DEF Valid, Parts
  <2>5. at = "tools" /\ (CleanRun' => CleanRun)
    BY <1>3, <2>1, <2>2, FaultCounts DEF CleanRun, Tools
  <2>6. SnapshotKept' /\ CandidateKept' /\ GrafanaSees' /\ CandidatePresent'
    BY <2>1, <2>2, <2>5, FaultCounts DEF IInv, SnapshotKept, CandidatePresent, CandidateKept,
       NothingIsLost, GrafanaSees
  <2>7. CandidateApplied' /\ SnapshotRestored'
    BY <2>2, <2>4, <2>5 DEF IInv, CandidateApplied, SnapshotRestored
  <2> QED
    BY <2>3, <2>6, <2>7 DEF IInv
<1> QED
  BY <1>1, <1>2, <1>3

\* The invariant is preserved by the gate, wherever it is asked.
LEMMA GatePreserves ==
    ASSUME IInv, GateInit \/ Gate \/ GateBack
    PROVE  IInv'
<1>1. PICK ok \in BOOLEAN :
          /\ GateSays(ok)
          /\ passed' = IF ok THEN passed \cup {stack} ELSE passed
          /\ at' = "clear" => ok
  BY DEF GateInit, Gate, GateBack, GoTo, End
<1>2. /\ UNCHANGED <<files, stack, grafana, good, rejected, owed, init, dormant, disturbed, since>>
      /\ at \in {"gate0", "gate", "gate2"}
      /\ at = "gate0" => at' \in {"clear", "idle"}
      /\ at = "gate" => at' \in {"clear", "reject"}
      /\ at = "gate2" => at' = "idle"
  BY DEF GateInit, Gate, GateBack, GoTo, End, disk, running
<1>3. Fault \/ Smooth
  BY <1>1 DEF GateSays
<1>4. decision' \in Decisions
  BY DEF GateInit, Gate, GateBack, GoTo, End, IInv, TypeOK, Decisions
<1>5. TypeOK' /\ faults' \in Nat
  <2>1. passed' \subseteq Tree
    BY <1>1 DEF IInv, TypeOK
  <2>2. at' \in Steps
    BY <1>2 DEF Steps
  <2> QED
    BY <1>2, <1>3, <1>4, <2>1, <2>2, FaultCounts DEF IInv, TypeOK
<1>6. CleanRun' => CleanRun
  BY <1>2, <1>3, FaultCounts DEF CleanRun
<1>7. Valid(files)' = Valid(files)
  BY <1>2 DEF Valid, Parts
<1>8. CandidatePresent' /\ SnapshotKept' /\ CandidateKept' /\ GrafanaSees'
  BY <1>2, <1>3, FaultCounts DEF IInv, CandidatePresent, SnapshotKept, CandidateKept,
     NothingIsLost, GrafanaSees
<1>9. CandidateApplied' /\ SnapshotRestored'
  <2>1. CleanRun' /\ at \in {"gate0", "gate"} => files = stack /\ Valid(files) /\ ~dormant
    BY <1>6 DEF IInv, CandidateApplied, SnapshotKept
  <2>2. at' = "clear" => stack \in passed'
    BY <1>1, <1>2
  <2>3. CandidateApplied'
    BY <1>2, <1>7, <2>1, <2>2 DEF CandidateApplied, CleanRun
  <2> QED
    BY <1>2, <2>3 DEF SnapshotRestored
<1> QED
  BY <1>5, <1>8, <1>9 DEF IInv

\* The invariant is preserved on the way up.
LEMMA ApplyPreserves ==
    ASSUME IInv, Compose \/ Restart("restart", "gate") \/ Clear \/ Tar
    PROVE  IInv'
<1>1. CASE Compose
  <2>1. (Fault \/ Smooth) /\ (ComposeUp \/ UNCHANGED running)
    BY <1>1 DEF Compose
  <2>2. /\ at = "compose" /\ at' \in {"idle", "restart"} /\ decision' \in Decisions
        /\ UNCHANGED <<files, good, rejected, owed, init, dormant, passed, disturbed, since>>
        /\ at' = "restart" => ComposeUp
    BY <1>1 DEF IInv, TypeOK, Compose, GoTo, End, disk, running, history, Decisions
  <2>3. stack' \in Tree /\ grafana' \in {grafana, files.dirs} /\ grafana' \in Version \cup {none}
    BY <2>1 DEF ComposeUp, running, IInv, TypeOK, Tree
  <2>4. TypeOK' /\ faults' \in Nat
    BY <2>1, <2>2, <2>3, FaultCounts DEF IInv, TypeOK, Steps
  <2>5. at' = "restart" => stack'.top = files.top /\ stack'.extra = files.extra
    BY <2>2 DEF ComposeUp, IInv, TypeOK, Tree
  <2>6. CleanRun' => CleanRun
    BY <2>1, <2>2, FaultCounts DEF CleanRun
  <2>7. Valid(files)' = Valid(files)
    BY <2>2 DEF Valid, Parts
  <2>8. CandidatePresent' /\ SnapshotKept' /\ CandidateKept' /\ GrafanaSees'
    BY <2>2, <2>3 DEF IInv, CandidatePresent, SnapshotKept, CandidateKept, NothingIsLost, GrafanaSees
  <2>9. CandidateApplied' /\ SnapshotRestored'
    BY <2>2, <2>5, <2>6, <2>7 DEF IInv, CandidateApplied, SnapshotRestored, CleanRun
  <2> QED
    BY <2>4, <2>8, <2>9 DEF IInv
<1>2. CASE Restart("restart", "gate")
  <2>1. /\ Fault \/ Smooth
        /\ at = "restart" /\ at' = "gate" /\ decision' = decision
        /\ UNCHANGED <<files, good, rejected, owed, init, dormant, passed, disturbed, since>>
        /\ grafana' = grafana
        /\ stack' = [stack EXCEPT !.dirs = files.dirs] \/ (Fault /\ stack' = stack)
    BY <1>2 DEF Restart, GoTo, disk, running, history
  <2>2. TypeOK' /\ faults' \in Nat
    <3>1. stack' \in Tree
      BY <2>1 DEF IInv, TypeOK, Tree
    <3> QED
      BY <2>1, <3>1, FaultCounts DEF IInv, TypeOK, Steps
  <2>3. CleanRun' => CleanRun /\ stack' = [stack EXCEPT !.dirs = files.dirs]
    BY <2>1, FaultCounts DEF CleanRun, Fault, IInv
  <2>4. CleanRun' => files = stack'
    <3>1. CleanRun => stack.top = files.top /\ stack.extra = files.extra
      BY <2>1 DEF IInv, CandidateApplied
    <3> QED
      BY <2>3, <3>1 DEF IInv, TypeOK, Tree
  <2>5. Valid(files)' = Valid(files)
    BY <2>1 DEF Valid, Parts
  <2>6. CandidatePresent' /\ SnapshotKept' /\ CandidateKept' /\ GrafanaSees'
    BY <2>1, FaultCounts DEF IInv, CandidatePresent, SnapshotKept, CandidateKept, NothingIsLost,
       GrafanaSees
  <2>7. CandidateApplied' /\ SnapshotRestored'
    BY <2>1, <2>3, <2>4, <2>5 DEF IInv, CandidateApplied, SnapshotRestored
  <2> QED
    BY <2>2, <2>6, <2>7 DEF IInv
<1>3. CASE Clear
  <2>1. /\ at = "clear" /\ at' = "tar" /\ good' = none
        /\ UNCHANGED <<files, stack, grafana, rejected, owed, init, decision, dormant, passed,
                       disturbed, since,
                       runs, edits, faults>>
    BY <1>3 DEF Clear, GoTo, running, history, bounds
  <2>2. Valid(files)' = Valid(files)
    BY <2>1 DEF Valid, Parts
  <2>3. TypeOK' /\ faults' \in Nat
    BY <2>1 DEF IInv, TypeOK, Steps
  <2>4. CandidatePresent' /\ SnapshotKept' /\ CandidateKept' /\ GrafanaSees'
    BY <2>1 DEF IInv, CandidatePresent, SnapshotKept, CandidateKept, NothingIsLost, GrafanaSees
  <2>5. CandidateApplied' /\ SnapshotRestored'
    BY <2>1, <2>2 DEF IInv, CandidateApplied, SnapshotRestored, CleanRun
  <2> QED
    BY <2>3, <2>4, <2>5 DEF IInv
<1>4. CASE Tar
  <2>1. /\ at = "tar" /\ at' = "idle"
        /\ UNCHANGED <<files, stack, grafana, rejected, owed, init, dormant, passed, disturbed,
                       since>>
        /\ (good' = files /\ Smooth) \/ (good' = [torn |-> files] /\ Fault)
        /\ decision' \in {"initialised", "deployed"}
    BY <1>4 DEF Tar, End, running, history
  <2>2. TypeOK' /\ faults' \in Nat
    <3>1. at' \in Steps /\ decision' \in Decisions
      BY <2>1 DEF Steps, Decisions
    <3>2. good' \in Tree \cup Torn
      BY <2>1 DEF IInv, TypeOK, Torn
    <3> QED
      BY <2>1, <3>1, <3>2, FaultCounts DEF IInv, TypeOK
  <2>3. CandidatePresent' /\ SnapshotKept' /\ CandidateKept' /\ GrafanaSees'
    BY <2>1 DEF IInv, CandidatePresent, SnapshotKept, CandidateKept, NothingIsLost, GrafanaSees
  <2>4. CandidateApplied' /\ SnapshotRestored'
    BY <2>1 DEF CandidateApplied, SnapshotRestored, CleanRun
  <2> QED
    BY <2>2, <2>3, <2>4 DEF IInv
<1> QED
  BY <1>1, <1>2, <1>3, <1>4

\* The invariant is preserved while the candidate is put away and the snapshot brought back.
LEMMA RestorePreserves ==
    ASSUME IInv, Reject \/ Remove \/ Untar
    PROVE  IInv'
<1>1. CASE Reject
  <2>1. /\ at = "reject" /\ at' = "remove" /\ decision' = decision
        /\ UNCHANGED <<files, good, stack, grafana, init, dormant, passed, disturbed, since>>
        /\ \/ rejected' = rejected \cup {files} /\ owed' = owed /\ Smooth
           \/ rejected' = rejected /\ owed' = (IF owed \in rejected THEN owed ELSE none) /\ Fault
    BY <1>1 DEF Reject, GoTo, running, history
  <2>2. TypeOK' /\ faults' \in Nat
    <3>1. rejected' \subseteq Tree /\ owed' \in Tree \cup {none}
      BY <2>1 DEF IInv, TypeOK
    <3> QED
      BY <2>1, <3>1, FaultCounts DEF IInv, TypeOK, Steps
  <2>3. CleanRun' => CleanRun
    BY <2>1, FaultCounts DEF CleanRun
  <2>4. Valid(files)' = Valid(files)
    BY <2>1 DEF Valid, Parts
  <2>5. CandidateKept'
    BY <2>1 DEF IInv, CandidateKept, NothingIsLost
  <2>6. CandidatePresent' /\ SnapshotKept' /\ GrafanaSees'
    BY <2>1 DEF IInv, CandidatePresent, SnapshotKept, GrafanaSees
  <2>7. CandidateApplied' /\ SnapshotRestored'
    BY <2>1, <2>3, <2>4 DEF IInv, CandidateApplied, SnapshotRestored
  <2> QED
    BY <2>2, <2>5, <2>6, <2>7 DEF IInv
<1>2. CASE Remove
  <2>1. /\ at = "remove" /\ at' = "untar"
        /\ files' = [files EXCEPT !.dirs = none] /\ grafana' = none
        /\ UNCHANGED <<stack, good, rejected, owed, init, decision, dormant, passed, disturbed, since,
                       runs, edits, faults>>
    BY <1>2 DEF Remove, GoTo, history, bounds
  <2>2. files' \in Tree
    BY <2>1 DEF IInv, TypeOK, Tree
  <2>3. TypeOK' /\ faults' \in Nat
    BY <2>1, <2>2 DEF IInv, TypeOK, Steps
  <2>4. CandidatePresent' /\ SnapshotKept' /\ CandidateKept' /\ GrafanaSees'
    BY <2>1 DEF IInv, CandidatePresent, SnapshotKept, CandidateKept, NothingIsLost, GrafanaSees
  <2>5. CandidateApplied' /\ SnapshotRestored'
    BY <2>1 DEF IInv, CandidateApplied, SnapshotRestored, CleanRun
  <2> QED
    BY <2>3, <2>4, <2>5 DEF IInv
<1>3. CASE Untar
  <2>1. /\ at = "untar" /\ at' = "compose2" /\ decision' = decision
        /\ UNCHANGED <<stack, grafana, good, rejected, owed, init, dormant, passed, disturbed, since>>
        /\ \/ good \in Tree /\ files' = RestoredWhole(good) /\ Smooth
           \/ files' \in RestoredPart(Archived) /\ (good \in Tree => Fault) /\ (Fault \/ Smooth)
    BY <1>3 DEF Untar, GoTo, running, history
  <2>2. RestoredWhole(good) = [good EXCEPT !.extra = IF @ = none THEN files.extra ELSE @]
    BY DEF RestoredWhole
  <2>3. good \in Tree => \E x \in Version \cup {none} : RestoredWhole(good) = [good EXCEPT !.extra = x]
    BY <2>2 DEF IInv, TypeOK, Tree
  <2>4. files' \in Tree
    BY <2>1, <2>3, ArchiveRestores DEF Tree
  <2>5. TypeOK' /\ faults' \in Nat
    BY <2>1, <2>4, FaultCounts DEF IInv, TypeOK, Steps
  <2>6. CandidatePresent' /\ SnapshotKept' /\ CandidateKept' /\ GrafanaSees'
    BY <2>1 DEF IInv, CandidatePresent, SnapshotKept, CandidateKept, NothingIsLost, GrafanaSees
  <2>7. CleanRun' => CleanRun /\ (good \in Tree => files' = RestoredWhole(good))
    BY <2>1, FaultCounts DEF CleanRun, Fault, IInv
  <2>8. CandidateApplied' /\ SnapshotRestored'
    BY <2>1, <2>3, <2>7 DEF IInv, CandidateApplied, SnapshotRestored
  <2> QED
    BY <2>5, <2>6, <2>8 DEF IInv
<1> QED
  BY <1>1, <1>2, <1>3

\* The invariant is preserved while the snapshot is applied.
LEMMA ApplyBackPreserves ==
    ASSUME IInv, ComposeBack \/ Restart("restart2", "gate2")
    PROVE  IInv'
<1>1. CASE ComposeBack
  <2>1. (Fault \/ Smooth) /\ (ComposeUp \/ UNCHANGED running)
    BY <1>1 DEF ComposeBack
  <2>2. /\ at = "compose2" /\ at' \in {"restart2", "gate2"} /\ decision' = decision
        /\ UNCHANGED <<files, good, rejected, owed, init, dormant, passed, disturbed, since>>
        /\ at' = "restart2" => ComposeUp
        /\ at' = "gate2" => Fault
    BY <1>1 DEF ComposeBack, GoTo, disk, running, history
  <2>3. stack' \in Tree /\ grafana' \in {grafana, files.dirs} /\ grafana' \in Version \cup {none}
    BY <2>1 DEF ComposeUp, running, IInv, TypeOK, Tree
  <2>4. TypeOK' /\ faults' \in Nat
    BY <2>1, <2>2, <2>3, FaultCounts DEF IInv, TypeOK, Steps
  <2>5. at' = "restart2" => stack'.top = files.top /\ stack'.extra = files.extra
    BY <2>2 DEF ComposeUp, IInv, TypeOK, Tree
  <2>6. CleanRun' => CleanRun /\ at' = "restart2"
    BY <2>1, <2>2, FaultCounts DEF CleanRun, Fault, IInv
  <2>7. CandidatePresent' /\ SnapshotKept' /\ CandidateKept' /\ GrafanaSees'
    BY <2>2, <2>3 DEF IInv, CandidatePresent, SnapshotKept, CandidateKept, NothingIsLost, GrafanaSees
  <2>8. CandidateApplied' /\ SnapshotRestored'
    BY <2>2, <2>5, <2>6 DEF IInv, CandidateApplied, SnapshotRestored
  <2> QED
    BY <2>4, <2>7, <2>8 DEF IInv
<1>2. CASE Restart("restart2", "gate2")
  <2>1. /\ Fault \/ Smooth
        /\ at = "restart2" /\ at' = "gate2" /\ decision' = decision
        /\ UNCHANGED <<files, good, rejected, owed, init, dormant, passed, disturbed, since>>
        /\ grafana' = grafana
        /\ stack' = [stack EXCEPT !.dirs = files.dirs] \/ (Fault /\ stack' = stack)
    BY <1>2 DEF Restart, GoTo, disk, running, history
  <2>2. TypeOK' /\ faults' \in Nat
    <3>1. stack' \in Tree
      BY <2>1 DEF IInv, TypeOK, Tree
    <3> QED
      BY <2>1, <3>1, FaultCounts DEF IInv, TypeOK, Steps
  <2>3. CleanRun' => CleanRun /\ stack' = [stack EXCEPT !.dirs = files.dirs]
    BY <2>1, FaultCounts DEF CleanRun, Fault, IInv
  <2>4. CleanRun' => files = stack'
    <3>1. CleanRun => stack.top = files.top /\ stack.extra = files.extra
      BY <2>1 DEF IInv, SnapshotRestored
    <3> QED
      BY <2>3, <3>1 DEF IInv, TypeOK, Tree
  <2>5. CandidatePresent' /\ SnapshotKept' /\ CandidateKept' /\ GrafanaSees'
    BY <2>1, FaultCounts DEF IInv, CandidatePresent, SnapshotKept, CandidateKept, NothingIsLost,
       GrafanaSees
  <2>6. CandidateApplied' /\ SnapshotRestored'
    BY <2>1, <2>3, <2>4 DEF IInv, CandidateApplied, SnapshotRestored
  <2> QED
    BY <2>2, <2>5, <2>6 DEF IInv
<1> QED
  BY <1>1, <1>2

\* Everything that can be reached satisfies the invariant.
THEOREM Invariance == Spec => []IInv
<1>1. Init => IInv
  <2> SUFFICES ASSUME Init PROVE IInv
    OBVIOUS
  <2>1. files \in Tree /\ files.dirs = First /\ First # none /\ grafana = First
      /\ First \in Version /\ owed = files /\ stack = files
    BY DeployAssumption DEF Init, Tree
  <2>2. TypeOK /\ faults \in Nat
    <3>1. 0 \in 0 .. 0 /\ 0 \in 0 .. MaxRuns /\ 0 \in 0 .. MaxEdits /\ 0 \in 0 .. MaxFaults
      BY DeployAssumption
    <3> QED
      BY <2>1, <3>1 DEF Init, TypeOK, Steps, Decisions
  <2>3. /\ CandidatePresent /\ SnapshotKept /\ CandidateKept /\ GrafanaSees
        /\ CandidateApplied /\ SnapshotRestored
    BY <2>1 DEF Init, CandidatePresent, SnapshotKept, CandidateKept, NothingIsLost, GrafanaSees,
       CandidateApplied, SnapshotRestored, CleanRun
  <2> QED
    BY <2>2, <2>3 DEF IInv
<1>2. IInv /\ [Next]_vars => IInv'
  <2> SUFFICES ASSUME IInv, [Next]_vars PROVE IInv'
    OBVIOUS
  <2>1. CASE UNCHANGED vars
    BY <2>1 DEF vars, IInv, TypeOK, CandidatePresent, SnapshotKept, CandidateKept, NothingIsLost,
       GrafanaSees, CandidateApplied, SnapshotRestored, CleanRun, Valid, Parts
  <2>2. CASE Next
    BY <2>2, AroundPreserves, StartPreserves, GatePreserves, ApplyPreserves, RestorePreserves,
       ApplyBackPreserves DEF Next
  <2> QED
    BY <2>1, <2>2
<1> QED
  BY <1>1, <1>2, PTL DEF Spec

\* The state of the deployment is well-typed.
THEOREM TypeCorrect == Spec => []TypeOK
<1>1. IInv => TypeOK
  BY DEF IInv
<1> QED
  BY <1>1, Invariance, PTL

\* However often the script runs, whatever fails and wherever it is killed: the tree the
\* operator last left is on disk or among the rejected, unless saving it failed.
THEOREM NothingLostTheorem == Spec => []NothingIsLost
<1>1. IInv => NothingIsLost
  BY DEF IInv, CandidateKept
<1> QED
  BY <1>1, Invariance, PTL


-----------------------------------------------------------------------------
(* What a run may never do *)

\* A step during a run after which nothing has failed and nobody edited is a step of the
\* script, taken in such a run.
LEMMA StillClean ==
    ASSUME IInv, Next, at # "idle", Undisturbed
    PROVE  /\ CleanRun /\ faults' = faults
           /\ ~Kill /\ ~Dormancy /\ ~(\E t \in Candidates : Edit(t)) /\ ~(\E i \in BOOLEAN : Begin(i))
<1>1. ~(\E i \in BOOLEAN : Begin(i))
  BY DEF Begin
<1>2. ~Dormancy /\ ~(\E t \in Candidates : Edit(t))
  BY DEF Undisturbed, Dormancy, Edit
<1>3. since' = since /\ disturbed' = disturbed
  BY <1>1, <1>2 DEF Next, Validate, Tools, GateInit, Compose, Restart, Gate, Clear, Tar, Reject,
     Remove, Untar, ComposeBack, GateBack, Kill, history
<1>4. Fault \/ Smooth
  BY <1>1, <1>2 DEF Next, Validate, Tools, GateInit, GateSays, Compose, Restart, Gate, Clear, Tar,
     Reject, Remove, Untar, ComposeBack, GateBack, Kill, Smooth
<1>5. faults' = faults
  BY <1>3, <1>4, FaultCounts DEF Undisturbed
<1>6. ~Kill
  BY <1>5 DEF Kill, Fault, IInv
<1> QED
  BY <1>1, <1>2, <1>3, <1>5, <1>6 DEF CleanRun, Undisturbed

\* What the gate says of a candidate in such a run, and what it then becomes.
LEMMA CleanGate ==
    ASSUME IInv, Next, at = "gate", Undisturbed
    PROVE  /\ CleanRun /\ faults' = faults /\ ~dormant /\ Accepted(Definitions[files.top])
           /\ \E ok \in BOOLEAN : GateSays(ok) /\ at' = (IF ok THEN "clear" ELSE "reject")
<1>1. CleanRun /\ faults' = faults
  BY StillClean
<1>2. Gate
  BY StillClean DEF Next, Validate, Tools, GateInit, Compose, Restart, Clear, Tar, Reject,
     Remove, Untar, ComposeBack, GateBack
<1>3. ~dormant /\ Valid(files)
  BY <1>1 DEF IInv, CandidateApplied
<1> QED
  BY <1>1, <1>2, <1>3 DEF Gate, GoTo, Valid

\* What becomes known-good is what the restarted containers run and what has passed the
\* gate, and Grafana sees its directories or none.
THEOREM KnownGoodTheorem == Spec => KnownGoodHasPassed
<1>1. IInv /\ [Next]_vars =>
          [(at = "tar" /\ Undisturbed) =>
              good' = stack' /\ good' \in passed' /\ grafana' \in {good'.dirs, none}]_vars
  <2> SUFFICES ASSUME IInv, Next, at = "tar", Undisturbed
               PROVE  good' = stack' /\ good' \in passed' /\ grafana' \in {good'.dirs, none}
    OBVIOUS
  <2>1. CleanRun /\ faults' = faults
    BY StillClean
  <2>2. Tar
    BY StillClean DEF Next, Validate, Tools, GateInit, Compose, Restart, Gate, Clear, Reject,
       Remove, Untar, ComposeBack, GateBack
  <2>3. good' = files /\ stack' = stack /\ passed' = passed /\ grafana' = grafana
    BY <2>1, <2>2 DEF Tar, Fault, IInv, running, history
  <2> QED
    BY <2>1, <2>2, <2>3 DEF IInv, CandidateApplied, GrafanaSees, Tar
<1> QED
  BY <1>1, Invariance, PTL DEF Spec, KnownGoodHasPassed

\* No candidate that spoils what an enforcing definition measures is deployed, whatever the
\* definitions and whatever the versions spoil.
THEOREM HarmTheorem == Spec => HarmIsRejected
<1>1. IInv /\ [Next]_vars =>
          [(at = "gate" /\ at' = "clear" /\ Undisturbed) =>
              \A g \in Enforcing :
                  /\ g.kpi \in HurtBy(stack) => g.kpi \in HiddenBy(stack)
                  /\ g.kpi \in HiddenBy(stack) => g.fallback]_vars
  <2> SUFFICES ASSUME IInv, Next, at = "gate", at' = "clear", Undisturbed, NEW g \in Enforcing
               PROVE  /\ g.kpi \in HurtBy(stack) => g.kpi \in HiddenBy(stack)
                      /\ g.kpi \in HiddenBy(stack) => g.fallback
    OBVIOUS
  <2>1. GateSays(TRUE) /\ faults' = faults
    BY CleanGate
  <2> QED
    BY <2>1, PassingIsHarmless DEF IInv
<1> QED
  BY <1>1, Invariance, PTL DEF Spec, HarmIsRejected

\* A candidate that spoils and hides nothing is rolled back only for a definition that does
\* not hold on a healthy stack and is not the trap the definitions are checked for.
THEOREM NoFalseAlarmTheorem == Spec => NoFalseAlarm
<1>1. IInv /\ [Next]_vars =>
          [(at = "gate" /\ at' = "reject" /\ Undisturbed) =>
              \/ HurtBy(stack) \cup HiddenBy(stack) # {}
              \/ \E g \in Enforcing : Promql(g, "well") # "holds" /\ ~EmptyVectorTrap(g)]_vars
  <2> SUFFICES ASSUME IInv, Next, at = "gate", at' = "reject", Undisturbed,
                      HurtBy(stack) \cup HiddenBy(stack) = {}
               PROVE  \E g \in Enforcing : Promql(g, "well") # "holds" /\ ~EmptyVectorTrap(g)
    OBVIOUS
  <2>1. GateSays(FALSE) /\ faults' = faults /\ ~dormant /\ Accepted(Definitions[files.top])
    BY CleanGate
  <2> QED
    BY <2>1, HealthPasses DEF IInv
<1> QED
  BY <1>1, Invariance, PTL DEF Spec, NoFalseAlarm

\* After a rollback in which nothing fails, and which reports success, files and restarted
\* containers are those of the snapshot, if it is whole; Grafana sees them or none.
THEOREM RolledBackTheorem == Spec => RolledBackIsGood
<1>1. IInv /\ [Next]_vars =>
          [(at = "gate2" /\ decision' = "rolled_back" /\ at' = "idle" /\ Undisturbed) =>
              (good \in Tree /\ files.extra = good.extra =>
                  files' = good /\ stack' = good /\ grafana' \in {good.dirs, none})]_vars
  <2> SUFFICES ASSUME IInv, Next, at = "gate2", decision' = "rolled_back", Undisturbed,
                      good \in Tree, files.extra = good.extra
               PROVE  files' = good /\ stack' = good /\ grafana' \in {good.dirs, none}
    OBVIOUS
  <2>1. CleanRun /\ faults' = faults
    BY StillClean
  <2>2. GateBack
    BY StillClean DEF Next, Validate, Tools, GateInit, Compose, Restart, Gate, Clear, Tar, Reject,
       Remove, Untar, ComposeBack
  <2>3. UNCHANGED <<files, stack, grafana>>
    BY <2>2 DEF GateBack, disk, running
  <2>4. files = stack /\ grafana \in {files.dirs, none}
    BY <2>1 DEF IInv, SnapshotRestored, GrafanaSees
  <2>5. \E x \in Version \cup {none} : files = [good EXCEPT !.extra = x]
    BY <2>1 DEF IInv, SnapshotRestored
  <2>6. files = good
    BY <2>5 DEF Tree
  <2> QED
    BY <2>3, <2>4, <2>6
<1> QED
  BY <1>1, Invariance, PTL DEF Spec, RolledBackIsGood
=============================================================================

-------------------------------- MODULE Deploy --------------------------------
(***************************************************************************)
(* scripts/open5gs/deploy.sh: a candidate, which is whatever the files     *)
(* say, is validated, applied to the running stack and judged by the KPI   *)
(* gate; it becomes the known-good snapshot, or the files of that snapshot *)
(* are restored and applied again.                                         *)
(*                                                                         *)
(* `files` is the tree on disk, `stack` what the containers run that the   *)
(* script restarts, `grafana` what the one it does not restart sees of the *)
(* directories.  Of a tree three parts are told apart: the directories a   *)
(* rollback removes first (config, ran, observability), the files it       *)
(* overwrites (compose, slices.env, the KPI definitions), and a file the   *)
(* candidate added beside them.  The operator may edit, the network        *)
(* orchestrator may make a slice dormant, and the script may be killed,    *)
(* between any two steps.                                                  *)
(***************************************************************************)
EXTENDS KpiGate

CONSTANTS
    Version,
    Definitions,   \* [Version -> SUBSET Definition]: kpi-gates.json
    Invalid,       \* versions that fail the YAML or the slice check
    Hurts, Hides,  \* [Version -> SUBSET Kpi]: what a version spoils, or no longer reports
    Starved,       \* SUBSET Kpi: what suffers when a slice is dormant
    First,         \* the version everything starts with
    Candidates,    \* trees the operator may leave on disk
    MaxRuns, MaxEdits, MaxFaults,
    none

ASSUME DeployAssumption ==
    /\ First \in Version \ Invalid /\ none \notin Version
    /\ Candidates \subseteq [dirs: Version, top: Version, extra: Version \cup {none}]
    /\ Hurts \in [Version -> SUBSET Kpi] /\ Hides \in [Version -> SUBSET Kpi]
    /\ \A v \in Version : Definitions[v] \subseteq {g \in Definition : Measures(g)}
    /\ {MaxRuns, MaxEdits, MaxFaults} \subseteq Nat

VARIABLES
    files, stack,
    grafana,       \* the directories o5gs-grafana sees: none when they were removed under it
    good,          \* $KG: a tree, or none, or a torn archive of one
    rejected,      \* trees under $STATE/rejected
    at, init,      \* the step the script is at; --init
    decision,      \* how the last run ended
    dormant,       \* a slice is parked
    passed,        \* history: trees the stack ran when it passed the gate
    disturbed,     \* history: edited, or a slice made dormant or active, during the run
    since,         \* history: how many faults there had been when the run began
    owed,          \* history: the tree the operator last left, or none once saving it failed
    runs, edits, faults

disk == <<files, good, rejected, owed>>
running == <<stack, grafana>>
history == <<passed, disturbed, since>>
bounds == <<runs, edits, faults>>
vars == <<files, stack, grafana, good, rejected, at, init, decision, dormant, passed, disturbed,
          since, owed, runs, edits, faults>>

Tree == [dirs: Version \cup {none}, top: Version, extra: Version \cup {none}]
Torn == [torn: Tree]
Steps == {"idle", "validate", "tools", "gate0", "compose", "restart", "gate", "clear", "tar",
          "reject", "remove", "untar", "compose2", "restart2", "gate2"}
Decisions == {none, "rejected", "aborted", "initialised", "deployed", "rolled_back",
              "rollback_failed", "killed"}

Parts(t) == {t.dirs, t.top, t.extra} \ {none}

Fault == faults < MaxFaults /\ faults' = faults + 1 /\ UNCHANGED <<runs, edits>>
Smooth == UNCHANGED bounds

-----------------------------------------------------------------------------
(* Validation and the gate *)

\* validate(): YAML, slices and DNNs, the KPI definitions' self-test.
Valid(t) ==
    /\ t.dirs # none
    /\ Parts(t) \cap Invalid = {}
    /\ Accepted(Definitions[t.top])

HurtBy(t) == IF t.dirs = none THEN Kpi ELSE UNION {Hurts[v] : v \in Parts(t)}
HiddenBy(t) == UNION {Hides[v] : v \in Parts(t)}

ConditionOf(k) ==
    CASE k \in HiddenBy(stack) -> "silent"
      [] k \in HurtBy(stack) \cup (IF dormant THEN Starved ELSE {}) -> "badly"
      [] OTHER -> "well"

\* gate(): the definitions are those on disk.  With a fault (a scrape or a query that
\* fails, stale samples, noise, Prometheus out of reach) the answer may be any.
GateSays(ok) ==
    LET defs == Definitions[files.top]
        seen == [g \in defs |-> Promql(g, ConditionOf(g.kpi))]
    IN (ok = Passes(defs, seen) /\ Smooth) \/ Fault

-----------------------------------------------------------------------------
(* The script *)

GoTo(step) == at' = step /\ UNCHANGED decision
End(d) == at' = "idle" /\ decision' = d

\* With a dormant slice the script stops at once, unless the container that knows did not
\* answer; it is not looked at again.  "Only the operator knows the files on disk are what
\* is running": --init is used when they are.
Begin(i) ==
    /\ at = "idle" /\ runs < MaxRuns
    /\ i => files = stack
    /\ runs' = runs + 1
    /\ init' = i
    /\ disturbed' = FALSE /\ since' = faults
    /\ \/ dormant /\ End("aborted") /\ UNCHANGED faults
       \/ ~dormant /\ GoTo("validate") /\ UNCHANGED faults
       \/ dormant /\ GoTo("validate") /\ faults < MaxFaults /\ faults' = faults + 1
    /\ UNCHANGED <<disk, running, dormant, passed, edits>>

Validate ==
    /\ at = "validate"
    /\ IF Valid(files) THEN GoTo("tools") ELSE End("rejected")
    /\ UNCHANGED <<disk, running, init, dormant, history, bounds>>

\* `docker compose version`, then --init, or the known-good snapshot must be there.
Tools ==
    /\ at = "tools"
    /\ \/ Smooth /\ CASE init -> GoTo("gate0")
                      [] ~init /\ good = none -> End("aborted")
                      [] OTHER -> GoTo("compose")
       \/ Fault /\ End("aborted")
    /\ UNCHANGED <<disk, running, init, dormant, history>>

GateInit ==
    /\ at = "gate0"
    /\ \E ok \in BOOLEAN :
          /\ GateSays(ok)
          /\ IF ok THEN GoTo("clear") ELSE End("aborted")
          /\ passed' = IF ok THEN passed \cup {stack} ELSE passed
    /\ UNCHANGED <<disk, running, init, dormant, disturbed, since>>

\* apply(): docker compose up takes the definitions, the restarts the directories.  When
\* compose fails it may have recreated containers already.
\* When compose finds its files changed it may recreate Grafana's container too.
ComposeUp ==
    /\ stack' = [stack EXCEPT !.top = files.top, !.extra = files.extra]
    /\ \/ UNCHANGED grafana
       \/ <<files.top, files.extra>> # <<stack.top, stack.extra>> /\ grafana' = files.dirs

Compose ==
    /\ at = "compose"
    /\ \/ ComposeUp /\ GoTo("restart") /\ Smooth
       \/ (ComposeUp \/ UNCHANGED running) /\ End("aborted") /\ Fault
    /\ UNCHANGED <<disk, init, dormant, history>>

\* (mutant: what reads the directories is not restarted)
RestartNothing(step, next) ==
    /\ at = step /\ GoTo(next)
    /\ UNCHANGED <<disk, running, init, dormant, history, bounds>>

\* CORE, UPFS, RAN and OBS are restarted: all that reads the directories but Grafana, whose
\* bind mounts keep what they have.  A restart that fails goes unseen.
Restart(step, next) ==
    /\ at = step
    /\ \/ stack' = [stack EXCEPT !.dirs = files.dirs] /\ Smooth
       \/ UNCHANGED stack /\ Fault
    /\ GoTo(next)
    /\ UNCHANGED <<disk, grafana, init, dormant, history>>

Gate ==
    /\ at = "gate"
    /\ \E ok \in BOOLEAN :
          /\ GateSays(ok)
          /\ GoTo(IF ok THEN "clear" ELSE "reject")
          /\ passed' = IF ok THEN passed \cup {stack} ELSE passed
    /\ UNCHANGED <<disk, running, init, dormant, disturbed, since>>

\* snapshot "$KG": rm -rf, then tar of the files as they are now.
Clear ==
    /\ at = "clear"
    /\ good' = none
    /\ GoTo("tar")
    /\ UNCHANGED <<files, running, rejected, owed, init, dormant, history, bounds>>

\* tar may fail (no space left): nobody looks, the archive is torn.
Tar ==
    /\ at = "tar"
    /\ \/ good' = files /\ Smooth
       \/ good' = [torn |-> files] /\ Fault
    /\ End(IF init THEN "initialised" ELSE "deployed")
    /\ UNCHANGED <<files, running, rejected, owed, init, dormant, history>>

\* (mutant: the rejected candidate is not saved)
RejectNothing ==
    /\ at = "reject" /\ GoTo("remove")
    /\ UNCHANGED <<disk, running, init, dormant, history, bounds>>

\* snapshot "$rej": when tar fails nobody looks, and nothing is owed any more.
Reject ==
    /\ at = "reject"
    /\ \/ rejected' = rejected \cup {files} /\ UNCHANGED owed /\ Smooth
       \/ UNCHANGED rejected /\ owed' = (IF owed \in rejected THEN owed ELSE none) /\ Fault
    /\ GoTo("remove")
    /\ UNCHANGED <<files, good, running, init, dormant, history>>

\* Grafana is running: the directories it has mounted are gone.
Remove ==
    /\ at = "remove"
    /\ files' = [files EXCEPT !.dirs = none] /\ grafana' = none
    /\ GoTo("untar")
    /\ UNCHANGED <<good, rejected, owed, stack, init, dormant, history, bounds>>

\* tar -xf puts back what the archive of tree t holds and leaves alone what it does not;
\* it may get no further than a part of it.
Archived == IF good \in Tree THEN good ELSE good.torn
RestoredWhole(t) == [t EXCEPT !.extra = IF @ = none THEN files.extra ELSE @]
RestoredPart(t) ==
    {[dirs |-> d, top |-> v, extra |-> x] :
        d \in {none, t.dirs}, v \in {files.top, t.top},
        x \in {files.extra} \cup ({t.extra} \ {none})}

\* (mutant: only the directories are restored)
UntarDirs ==
    /\ at = "untar"
    /\ files' = IF good \in Tree THEN [files EXCEPT !.dirs = good.dirs] ELSE files
    /\ GoTo("compose2")
    /\ UNCHANGED <<good, rejected, owed, running, init, dormant, history, bounds>>

\* Whether tar succeeds is not looked at either.
Untar ==
    /\ at = "untar"
    /\ \/ good \in Tree /\ files' = RestoredWhole(good) /\ Smooth
       \/ files' \in RestoredPart(Archived) /\ IF good \in Tree THEN Fault ELSE Smooth
    /\ GoTo("compose2")
    /\ UNCHANGED <<good, rejected, owed, running, init, dormant, history>>

\* apply() of the rollback: its return code is not looked at.
ComposeBack ==
    /\ at = "compose2"
    /\ \/ ComposeUp /\ GoTo("restart2") /\ Smooth
       \/ (ComposeUp \/ UNCHANGED running) /\ GoTo("gate2") /\ Fault
    /\ UNCHANGED <<disk, init, dormant, history>>

GateBack ==
    /\ at = "gate2"
    /\ \E ok \in BOOLEAN :
          /\ GateSays(ok)
          /\ End(IF ok THEN "rolled_back" ELSE "rollback_failed")
          /\ passed' = IF ok THEN passed \cup {stack} ELSE passed
    /\ UNCHANGED <<disk, running, init, dormant, disturbed, since>>

-----------------------------------------------------------------------------
(* What happens around it *)

\* The script is killed; what tar was writing is torn, what it was extracting incomplete.
Kill ==
    /\ at # "idle" /\ Fault
    /\ End("killed")
    /\ good' = IF at = "tar" THEN [torn |-> files] ELSE good
    /\ \/ UNCHANGED files
       \/ at = "untar" /\ files' \in RestoredPart(Archived)
    /\ UNCHANGED <<rejected, owed, running, init, dormant, history>>

\* An edit shows through Grafana's mounts.  One made after the candidate was put away is
\* overwritten: it is not what the script owes the operator.
Edit(t) ==
    /\ edits < MaxEdits /\ edits' = edits + 1
    /\ files' = t
    /\ grafana' = IF grafana = none THEN none ELSE t.dirs
    /\ owed' = IF at \in {"remove", "untar"} THEN owed ELSE t
    /\ disturbed' = (disturbed \/ at # "idle")
    /\ UNCHANGED <<good, rejected, stack, at, init, decision, dormant, passed, since, runs, faults>>

\* The network orchestrator deactivates or activates a slice.
Dormancy ==
    /\ edits < MaxEdits /\ edits' = edits + 1
    /\ dormant' = ~dormant
    /\ disturbed' = (disturbed \/ at # "idle")
    /\ UNCHANGED <<disk, running, at, init, decision, passed, since, runs, faults>>

Init ==
    /\ files = [dirs |-> First, top |-> First, extra |-> none]
    /\ stack = files /\ grafana = First /\ owed = files
    /\ good = none /\ rejected = {}
    /\ at = "idle" /\ init = FALSE /\ decision = none
    /\ dormant = FALSE
    /\ passed = {} /\ disturbed = FALSE /\ since = 0
    /\ runs = 0 /\ edits = 0 /\ faults = 0

Next ==
    \/ \E i \in BOOLEAN : Begin(i)
    \/ Validate \/ Tools \/ GateInit
    \/ Compose \/ Restart("restart", "gate") \/ Gate
    \/ Clear \/ Tar
    \/ Reject \/ Remove \/ Untar \/ ComposeBack \/ Restart("restart2", "gate2") \/ GateBack
    \/ Kill \/ Dormancy
    \/ \E t \in Candidates : Edit(t)

Spec == Init /\ [][Next]_vars

-----------------------------------------------------------------------------
(* Properties *)

\* The state is well-typed.
TypeOK ==
    /\ files \in Tree /\ stack \in Tree /\ grafana \in Version \cup {none}
    /\ good \in Tree \cup {none} \cup Torn /\ owed \in Tree \cup {none}
    /\ rejected \subseteq Tree /\ passed \subseteq Tree
    /\ at \in Steps /\ decision \in Decisions
    /\ init \in BOOLEAN /\ dormant \in BOOLEAN /\ disturbed \in BOOLEAN
    /\ since \in 0 .. faults /\ runs \in 0 .. MaxRuns /\ edits \in 0 .. MaxEdits /\ faults \in 0 .. MaxFaults

\* Nothing failed and nobody edited in this run; what happened in earlier ones is open.
Undisturbed == faults' = since /\ ~disturbed'
Enforcing == {g \in Definitions[files.top] : g.severity = "gate" /\ g.requires # "ode"}

\* What becomes the known-good snapshot is what the restarted containers run and what has
\* passed the gate, if nobody edits while the script is at work and nothing fails in that
\* run.  Grafana, which is not restarted, sees the same directories or, since a rollback
\* removed them under it, none.
KnownGoodHasPassed ==
    [][(at = "tar" /\ Undisturbed) =>
          good' = stack' /\ good' \in passed' /\ grafana' \in {good'.dirs, none}]_vars

\* A candidate that spoils a KPI an enforcing definition measures is never deployed,
\* nor one that stops reporting it, unless the definition has a fallback: that may make
\* a pass of silence.
HarmIsRejected ==
    [][(at = "gate" /\ at' = "clear" /\ Undisturbed) =>
          \A g \in Enforcing :
              /\ g.kpi \in HurtBy(stack) => g.kpi \in HiddenBy(stack)
              /\ g.kpi \in HiddenBy(stack) => g.fallback]_vars

\* What needs_zero_fallback() looks for: it counts or sums towards at most a threshold,
\* and makes no zero of nothing.
EmptyVectorTrap(g) == g.aggregates /\ g.atmost /\ ~g.fallback

\* A candidate that hurts and hides nothing is not rolled back because nothing was there
\* to count: the definition to blame is one that fails on a healthy stack in a way the
\* check of the definitions does not look for.
NoFalseAlarm ==
    [][(at = "gate" /\ at' = "reject" /\ Undisturbed) =>
          \/ HurtBy(stack) \cup HiddenBy(stack) # {}
          \/ \E g \in Enforcing : Promql(g, "well") # "holds" /\ ~EmptyVectorTrap(g)]_vars

\* After a rollback in which nothing fails, and which reports success, files and restarted
\* containers are the known-good ones, unless the candidate had added a file that the
\* snapshot does not have or the snapshot itself is torn; Grafana sees them or nothing.
RolledBackIsGood ==
    [][(at = "gate2" /\ decision' = "rolled_back" /\ at' = "idle" /\ Undisturbed) =>
          (good \in Tree /\ files.extra = good.extra =>
              files' = good /\ stack' = good /\ grafana' \in {good.dirs, none})]_vars

\* However often the script runs, whatever fails and wherever it is killed, the tree the
\* operator last left for it is still on disk, or among the rejected; unless it was the
\* saving itself that failed, and then not if the tree had been saved before.
NothingIsLost == owed # none => owed = files \/ owed \in rejected
=============================================================================

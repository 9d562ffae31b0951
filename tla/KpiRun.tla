-------------------------------- MODULE KpiRun --------------------------------
(***************************************************************************)
(* run_kpis.py: instances measured on the running stack while a sweep      *)
(* changes one parameter of it, and the stack put back afterwards.  What a *)
(* sweep changes is shared and outlives the program: the subscriber        *)
(* database, the plan override and the traffic profile in /tmp of the UE   *)
(* container, the UEs it runs.  start_ues.sh is modelled as one step.      *)
(*                                                                         *)
(* Two slices stand for three: `broad` (eMBB), which is loaded and whose   *)
(* number of UEs no sweep changes, and `iot` (mMTC), the one that sweeps   *)
(* vary.  The first number of `broad` and the standard total are written   *)
(* into run_kpis.py; the rest comes from the files.                        *)
(***************************************************************************)
EXTENDS Subscribers, Scorecard

CONSTANTS
    broad, iot,             \* slices
    FileSets,               \* [plan, want, tiers]: compose file and slices.env
    DefaultArp, BroadUes, StandardUes, MaxImsi,
    Jobs,                   \* what can be asked for: sequences of [kind, values]
    Default, Slack,         \* the base profile's interval; the 5 s of time.sleep(prev + 5)
    Rates, Latencies, Defs, \* what can be measured; the scorecard's definitions
    MaxRuns, MaxFaults

Kinds == {"standard", "embb_ues", "mmtc_interval", "mmtc_devices"}
Imsi == 1 .. MaxImsi

ASSUME KpiRunAssumption ==
    /\ {DefaultArp, BroadUes, StandardUes, MaxImsi, Default, Slack, MaxRuns, MaxFaults}
          \subseteq Nat
    /\ Rates \subseteq Nat \ {0} /\ Latencies \subseteq Nat \ {0} /\ none \notin Nat
    /\ ValidDefs(Defs)

\* The files name these slices and number their devices within Imsi; so do the sweeps.
Entry == [slice: {broad, iot}, count: Nat]
ASSUME FilesAssumption ==
    /\ broad # iot
    /\ \A f \in FileSets :
          /\ f.plan \in Seq(Entry) /\ f.want \in Seq(Entry) /\ Size(f.want) <= MaxImsi
          /\ f.tiers \in [{broad, iot} -> Seq([count: Nat, arp: Nat])]
    /\ none \notin [home: {broad, iot}, arp: Nat]

ASSUME JobsAssumption ==
    /\ Jobs \subseteq Seq([kind: Kinds, values: Seq(Nat) \ {<<>>}])
    /\ \A jobs \in Jobs : \A i \in DOMAIN jobs : jobs[i].kind = "mmtc_devices" =>
          \A v \in DOMAIN jobs[i].values : BroadUes + jobs[i].values[v] <= MaxImsi

\* The scorecard defines KPIs of some slices over what instance() measures.
ASSUME ScorecardAssumption ==
    /\ IsFiniteSet(DOMAIN Defs) /\ DOMAIN Defs # {}
    /\ \A s \in DOMAIN Defs :
          /\ IsFiniteSet(Defs[s])
          /\ Defs[s] \subseteq [measure: {"latency", "p5", "reg"}, better: {"lower", "higher"},
                                target: Nat \cup {none}, weight: Nat]

VARIABLES
    files,          \* checked into the repository, and what the container was created with
    db,             \* subscribers: [Imsi -> record or none]
    override,       \* IoT devices of /tmp/ue-plan.override, or none
    profile,        \* interval of /tmp/traffic-profile.json, or none
    slowest,        \* the longest interval some device's next report is still due under
    up,             \* the UE container runs
    launched,       \* its UEs: the slice each opens
    attached,       \* those with a session
    todo, values,   \* jobs left; values left of the first
    calm,           \* history: no device was at more than the base interval when it began
    pc, prev, raised,
    records,        \* instances.jsonl; of the measurements,
    card,           \* those of the record written last, and their overall score
    unrestored,     \* history: a command failed unseen, or no clean-up was run
    runs, faults

stack == <<db, override, profile, slowest, up, launched, attached>>
program == <<todo, values, calm, prev, raised>>
vars == <<files, db, override, profile, slowest, up, launched, attached, todo, values, calm,
          pc, prev, raised, records, card, unrestored, runs, faults>>

-----------------------------------------------------------------------------
(* The stack *)

\* The plan attach_mmtc() writes; `broad` has its standard number in it whatever the files say.
DevicePlan(n) == <<[slice |-> broad, count |-> BroadUes], [slice |-> iot, count |-> n]>>

\* (mutant: the override is not read)
PlanOfEnvironment == files.plan
\* The plan that the container starts with, and that ue_plan() reads.
PlanNow == IF override = none THEN files.plan ELSE DevicePlan(override)

\* A UE gets its session when its record names the slice it opens.
Registrable(ues, subs) == {n \in DOMAIN ues : n \in Imsi /\ subs[n] # none /\ subs[n].home = ues[n]}

\* docker restart: every UE is launched anew; all that can attach, or all but one, do.
Relaunch(subs) ==
    /\ up' = TRUE
    /\ launched' = Launches(PlanNow)
    /\ LET able == Registrable(Launches(PlanNow), subs)
       IN \E late \in {{}} \cup {{n} : n \in able} : attached' = able \ late
    \* the agent begins anew too, at the interval of the profile
    /\ slowest' = IF profile = none THEN Default ELSE profile

\* provision_subscribers.py replaces records by IMSI and removes none; when it fails, it may
\* have replaced some.
ProvisionFirst(k, want) ==
    LET made == Records(want, files.tiers, DefaultArp)
    IN db' = [n \in Imsi |-> IF n \in DOMAIN made /\ n <= k THEN made[n] ELSE db[n]]
Provision(want) == ProvisionFirst(Size(want), want)
ProvisionFails(want) == \E k \in 0 .. Size(want) : ProvisionFirst(k, want)

\* docker restart may fail with the container stopped.
RestartFails ==
    /\ \/ UNCHANGED <<up, launched, attached>>
       \/ up' = FALSE /\ launched' = <<>> /\ attached' = {}
    /\ UNCHANGED slowest

Interval == IF profile = none THEN Default ELSE profile

-----------------------------------------------------------------------------
(* Control *)

Job == Head(todo)

Start(kind) == CASE kind = "standard" -> "fresh"
                 [] kind = "embb_ues" -> "measure"
                 [] kind = "mmtc_interval" -> "profile"
                 [] kind = "mmtc_devices" -> "provision"

\* (mutant: restarting the UEs is thought to be enough)
CleanUpRestarts(kind) == CASE kind = "mmtc_interval" -> "reset"
                           [] kind = "mmtc_devices" -> "restore"
                           [] OTHER -> "end"
\* The `finally` of a sweep, or its end.
CleanUp(kind) == CASE kind = "mmtc_interval" -> "reset"
                   [] kind = "mmtc_devices" -> "delete"
                   [] OTHER -> "end"

Fault == faults < MaxFaults /\ faults' = faults + 1

\* A command whose exit code nobody looks at, of start_ues.sh or of a clean-up.
Unseen == Fault /\ unrestored' = TRUE

\* A command with check=True, or an answer that does not come.
Raise == Fault /\ raised' = TRUE /\ pc' = CleanUp(Job.kind)

\* main(): refused with fewer UEs than the standard.  A new directory, or RUN_DIR.
Begin ==
    /\ pc = "idle" /\ runs < MaxRuns
    /\ up /\ Cardinality(attached) >= StandardUes
    /\ runs' = runs + 1
    /\ todo' \in Jobs
    /\ records' \in {<<>>, records}
    /\ pc' = "next"
    /\ UNCHANGED <<files, calm, card, stack, values, prev, raised, unrestored, faults>>

\* prev = 10.0, the base interval.
Next_job ==
    /\ pc = "next"
    /\ IF todo = <<>>
       THEN pc' = "idle" /\ UNCHANGED <<values, calm, prev>>
       ELSE pc' = Start(Job.kind) /\ values' = Job.values /\ prev' = Default
            /\ calm' = (slowest <= Default)
    /\ UNCHANGED <<files, card, stack, todo, raised, records, unrestored, runs, faults>>

End ==
    /\ pc = "end"
    /\ pc' = "next"
    /\ todo' = IF raised THEN <<>> ELSE Tail(todo)
    /\ values' = <<>> /\ raised' = FALSE
    /\ card' = none
    /\ UNCHANGED <<files, calm, stack, prev, records, unrestored, runs, faults>>

-----------------------------------------------------------------------------
(* start_ues.sh, whose exit code nobody looks at *)

StartsUes == Provision(files.want) /\ Relaunch(db') /\ UNCHANGED <<override, profile>>

\* It ends at the first command that fails: before, in or after the provisioning.
StartFails ==
    /\ \/ ProvisionFails(files.want) /\ UNCHANGED <<up, launched, attached, slowest>>
       \/ Provision(files.want) /\ RestartFails
    /\ UNCHANGED <<override, profile>>

Fresh ==
    /\ pc = "fresh"
    /\ \/ up /\ StartsUes /\ pc' = "measure" /\ UNCHANGED <<raised, unrestored, faults>>
       \/ up /\ StartFails /\ Unseen /\ pc' = "measure" /\ UNCHANGED raised
       \/ ~up /\ pc' = "measure" /\ UNCHANGED <<stack, raised, unrestored, faults>>
       \/ up /\ StartsUes /\ Raise /\ UNCHANGED unrestored       \* TimeoutExpired
    /\ UNCHANGED <<files, calm, card, todo, values, prev, records, runs>>

-----------------------------------------------------------------------------
(* instance() *)

\* Of the attempts in the IoT devices' logs, those that succeeded, in thousandths: one of each
\* attached device, and one of each of `failed`; a device that is late may not have tried yet.
RegistrationSuccess(failed) ==
    LET succeeded == attached \cap RangeOf(PlanNow, iot)
        attempts == Cardinality(succeeded) + Cardinality(failed)
    IN IF attempts = 0 THEN none ELSE (1000 * Cardinality(succeeded)) \div attempts

\* embb_load(): the first n devices of the slice with an address; of the flows that came to an
\* end, the slowest is what nearest_rank() finds for few devices.
Loaded(n) == LET ues == {i \in attached : launched[i] = broad}
             IN IF n <= Cardinality(ues) THEN n ELSE Cardinality(ues)
P5(flows) == IF flows = {} THEN none ELSE Min(flows)

Load == IF Job.kind = "embb_ues" THEN Head(values) ELSE BroadUes

Measured(latency, flows, failed) ==
    [latency |-> latency, p5 |-> P5(flows), reg |-> RegistrationSuccess(failed)]

\* What is written, and (ran, provided, slowest, fastest) what was so.
Instance ==
    [kind |-> Job.kind, value |-> Head(values),
     provisioned |-> Cardinality(RangeOf(PlanNow, iot)),
     ran |-> Cardinality({n \in DOMAIN launched : launched[n] = iot}),
     provided |-> DOMAIN launched \subseteq Registrable(launched, db),
     calm |-> calm, slowest |-> slowest, fastest |-> Interval]

Measure ==
    /\ pc = "measure"
    /\ \E latency \in Latencies \cup {none}, flows \in SUBSET Rates,
          failed \in SUBSET (RangeOf(PlanNow, iot) \ attached) :
          /\ flows # {} => Loaded(Load) > 0
          /\ ~up => latency = none
          /\ LET m == Measured(latency, flows, failed)
             IN card' = [measured |-> m, overall |-> Overall(Defs, m)]
    /\ records' = Append(records, Instance)
    /\ values' = Tail(values)
    /\ IF Len(values) > 1
       THEN pc' = Start(Job.kind)
       ELSE pc' = CleanUp(Job.kind)
    /\ prev' = IF Job.kind = "mmtc_interval" THEN Head(values) ELSE prev
    /\ UNCHANGED <<files, calm, stack, todo, raised, unrestored, runs, faults>>

\* A collector does not answer.
MeasureFails ==
    /\ pc = "measure" /\ Raise
    /\ UNCHANGED <<files, calm, card, stack, todo, values, prev, records, unrestored, runs>>

-----------------------------------------------------------------------------
(* sweep mmtc_interval *)

SetProfile ==
    /\ pc = "profile"
    /\ \/ up /\ profile' = Head(values) /\ pc' = "switch" /\ UNCHANGED <<raised, faults>>
       \/ Raise /\ UNCHANGED profile
    /\ slowest' = Max({slowest, IF profile' = none THEN Default ELSE profile'})
    /\ UNCHANGED <<files, calm, card, db, override, up, launched, attached, todo, values, prev,
                   records, unrestored, runs>>

\* (mutant: the sleep does not go by the interval before)
WaitsFixed(interval) == Default + Slack >= interval
\* time.sleep(prev + 5): each device has sent once more, and goes by the new interval.
Waits(interval) == prev + Slack >= interval

Switch ==
    /\ pc \in {"switch", "unswitch"}
    /\ slowest' = IF Waits(slowest) THEN Interval ELSE slowest
    /\ pc' = IF pc = "switch" THEN "measure" ELSE "end"
    /\ UNCHANGED <<files, card, db, override, profile, up, launched, attached, program, records,
                   unrestored, runs, faults>>

\* set_profile(None), its exit code unseen.
Reset ==
    /\ pc = "reset"
    /\ \/ up /\ profile' = none /\ UNCHANGED <<unrestored, faults>>
       \/ Fault /\ unrestored' = TRUE /\ UNCHANGED profile
    /\ slowest' = Max({slowest, IF profile' = none THEN Default ELSE profile'})
    /\ pc' = "unswitch"
    /\ UNCHANGED <<files, card, db, override, up, launched, attached, program, records, runs>>

-----------------------------------------------------------------------------
(* sweep mmtc_devices: attach_mmtc() and restore_standard() *)

ProvisionDevices ==
    /\ pc = "provision"
    /\ LET want == DevicePlan(Head(values))
       IN \/ TiersCover(want, files.tiers) /\ Provision(want) /\ pc' = "override"
                /\ UNCHANGED <<raised, faults>>
          \/ TiersCover(want, files.tiers) /\ ProvisionFails(want) /\ Raise
          \/ /\ ~TiersCover(want, files.tiers)
             /\ raised' = TRUE /\ pc' = CleanUp(Job.kind) /\ UNCHANGED <<db, faults>>
    /\ UNCHANGED <<files, calm, card, override, profile, slowest, up, launched, attached, todo,
                   values, prev, records, unrestored, runs>>

WriteOverride ==
    /\ pc = "override"
    /\ \/ up /\ override' = Head(values) /\ pc' = "restart" /\ UNCHANGED <<raised, faults>>
       \/ Raise /\ UNCHANGED override
    /\ UNCHANGED <<files, calm, card, db, profile, slowest, up, launched, attached, todo, values,
                   prev, records, unrestored, runs>>

Restart ==
    /\ pc = "restart"
    /\ \/ Relaunch(db) /\ pc' = "measure" /\ UNCHANGED <<raised, faults>>
       \/ RestartFails /\ Raise
    /\ UNCHANGED <<files, calm, card, db, override, profile, todo, values, prev, records,
                   unrestored, runs>>

Delete ==
    /\ pc = "delete"
    /\ \/ /\ db' = [n \in Imsi |-> IF n > StandardUes THEN none ELSE db[n]]
          /\ UNCHANGED <<unrestored, faults>>
       \/ Unseen /\ UNCHANGED db
    /\ pc' = "remove"
    /\ UNCHANGED <<files, card, override, profile, slowest, up, launched, attached, program,
                   records, runs>>

\* docker exec fails in a container that is not running.
Remove ==
    /\ pc = "remove"
    /\ \/ up /\ override' = none /\ UNCHANGED <<unrestored, faults>>
       \/ up /\ Unseen /\ UNCHANGED override
       \/ ~up /\ unrestored' = TRUE /\ UNCHANGED <<override, faults>>
    /\ pc' = "restore"
    /\ UNCHANGED <<files, card, db, profile, slowest, up, launched, attached, program, records,
                   runs>>

Restore ==
    /\ pc = "restore"
    /\ \/ up /\ StartsUes /\ UNCHANGED <<unrestored, faults>>
       \/ up /\ StartFails /\ Unseen
       \/ ~up /\ unrestored' = TRUE /\ UNCHANGED <<stack, faults>>
    /\ pc' = "end"
    /\ raised' \in {raised, raised \/ up}               \* TimeoutExpired
    /\ UNCHANGED <<files, card, calm, todo, values, prev, records, runs>>

-----------------------------------------------------------------------------
(* What happens to it *)

\* The program is killed: no finally runs.
Kill ==
    /\ pc # "idle" /\ Fault
    /\ pc' = "idle"
    /\ todo' = <<>> /\ values' = <<>> /\ raised' = FALSE
    /\ unrestored' = TRUE
    /\ card' = none
    /\ UNCHANGED <<files, calm, stack, prev, records, runs>>

\* Someone starts the UEs between two runs (make o5gs-ues), the container too if need be.
StartByHand ==
    /\ pc = "idle" /\ runs \in 1 .. MaxRuns - 1
    /\ StartsUes
    /\ UNCHANGED <<files, card, pc, program, records, unrestored, runs, faults>>

\* Between two runs time passes, and each device sends.
Settle ==
    /\ pc = "idle" /\ slowest # Interval
    /\ slowest' = Interval
    /\ UNCHANGED <<files, card, db, override, profile, up, launched, attached, pc, program,
                   records, unrestored, runs, faults>>

Standard(f) == LET made == Records(f.want, f.tiers, DefaultArp)
               IN [n \in Imsi |-> IF n \in DOMAIN made THEN made[n] ELSE none]

Init ==
    /\ files \in {f \in FileSets : Consistent(f.plan, f.want, f.tiers)}
    /\ db = Standard(files)
    /\ override = none /\ profile = none /\ slowest = Default
    /\ up = TRUE
    /\ launched = Launches(files.plan)
    /\ attached = DOMAIN Launches(files.plan)
    /\ todo = <<>> /\ values = <<>> /\ calm = TRUE
    /\ pc = "idle" /\ prev = Default /\ raised = FALSE
    /\ records = <<>> /\ card = none /\ unrestored = FALSE /\ runs = 0 /\ faults = 0

Next ==
    \/ Begin \/ Next_job \/ End
    \/ Fresh \/ Measure \/ MeasureFails
    \/ SetProfile \/ Switch \/ Reset
    \/ ProvisionDevices \/ WriteOverride \/ Restart
    \/ Delete \/ Remove \/ Restore
    \/ Kill \/ StartByHand \/ Settle

Spec == Init /\ [][Next]_vars

-----------------------------------------------------------------------------
(* Properties *)

\* load_instances(): the last of each label.
Reported ==
    {i \in DOMAIN records :
        \A j \in i + 1 .. Len(records) :
            <<records[j].kind, records[j].value>> # <<records[i].kind, records[i].value>>}

\* A row of the device sweep is about as many devices as it says, running, each with the
\* subscriber record of the slice it opens, whatever failed or was killed before.
DevicesAsLabelled ==
    \A i \in Reported : records[i].kind = "mmtc_devices" =>
        /\ records[i].ran = records[i].value
        /\ records[i].provisioned = records[i].value
        /\ records[i].provided

\* "every device has switched to the new interval" (run_kpis.py, sweep): a row of the interval
\* sweep has no device at another interval, if none was at more than 10 s when it began.
IntervalAsLabelled ==
    \A i \in Reported : (records[i].kind = "mmtc_interval" /\ records[i].calm) =>
        records[i].slowest = records[i].value /\ records[i].fastest = records[i].value

\* After a run, also one that an exception ended, the stack is the standard one again, with
\* each UE in the slice its subscriber's record names, except where a command of start_ues.sh
\* or of the clean-up itself failed.
Restored ==
    (pc = "idle" /\ ~unrestored) =>
        /\ db = Standard(files) /\ override = none /\ profile = none
        /\ up /\ launched = Launches(files.plan)
        /\ \A n \in DOMAIN launched : db[n].home = launched[n]

\* No worse in any scored KPI is no lower in overall score, of measurements that have one.
NoWorse(k, a, b) == a # none /\ (IF k.better = "lower" THEN a <= b ELSE a >= b)
Vectors == [latency: Latencies \cup {none}, p5: Rates \cup {none}, reg: {none, 0, 333, 500, 666, 1000}]
ScoresCompare ==
    (card # none /\ card.overall # none) =>
        \A other \in Vectors :
            (\A s \in DOMAIN Defs : \A k \in Scored(Defs[s]) :
                NoWorse(k, other[k.measure], card.measured[k.measure]))
            => Overall(Defs, other) >= card.overall
=============================================================================

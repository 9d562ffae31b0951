# Verification of the 5G slice orchestration

TLA+ models of the programs in this repository that decide about 5G slices at run time, the
TLC configurations that check them on small instances, and TLAPS proofs of their most important
properties for every instance. `PROJECT.json` lists the runs, the source lines behind every
definition, the hazards, the findings and the theorems.

    tlc -workers 2 -config MCAdmission.cfg MCAdmission      # one run
    tlapm Orchestrator_proofs.tla                           # one proof module

## 1. The system

An Open5GS (or free5GC) core with UERANSIM radio runs three slices (eMBB, URLLC, mMTC), each with
its own gNB, UPF and data-network container, and 100 simulated devices (UEs) in one container.

| Component | State it keeps | Operations | What makes it correct |
|---|---|---|---|
| **Slice orchestrator**, `tools/slice-orchestrator/orchestrator.py`: admission | `flows`, `limits`, `active` of every slice, cached measurement, subscriber records | `POST /request` (`decide`), `POST /slices`, reads that expire demands | no slice overcommitted; the reserve kept; only lower priorities pre-empted, no more of them than needed; a dormant slice admits nothing |
| — flow execution (`EXECUTE=1`) | `_ports`, `busy_devices`, per-flow record | threads `run_flow`, `stop_flow`; `start_flow` in `decide` | ports exclusive; everything given back; only pre-empted flows stopped; outcomes recorded truthfully |
| — feedback controller | `limits`, `control` (last cut, PI/MPC/UCB state) | `control_step` every `CONTROL_INTERVAL` | limit within floor and ceiling; raises only on evidence; cuts keep their distance |
| — planning | `demand_log` | `GET/POST /plan` | names every slice the demand needs, sizes it for the blocking target |
| **Network orchestrator**, `tools/network-orchestrator/netorch.py` | `_op_lock`, `_busy`, `ops`, `last_change`, loop memory. The state of a slice is discovered | `activate`, `deactivate`, `scale`, `auto_tick` | success means success; a failed activation is undone; the switch follows the slice; demand wakes it |
| **UE container**, `deployments/open5gs/ran/*.sh` | `$STATE/parked`, one pid and strike file per UE | supervisor, `park`, `unpark`, `status` | a parked UE stays down, any other comes back, once |
| **gNB / UPF entrypoints** | child process | set up interfaces, run one program; the gNB's exits without N2 and Docker starts it again | — |
| **Traffic agent, KPI collector**, `deployments/open5gs/observability/` | schedule heap, sequence numbers; streams (device, epoch) | send, receive, `/run/start` | the loss reported is the loss that was; no device drops out of the schedule |
| **Exporters** | none | render counters | — |
| **KPI gate, deployment**, `tools/kpi-gate`, `scripts/open5gs/deploy.sh` | known-good snapshot, KPI definitions | validate, apply, gate, roll back | what becomes known-good has run and passed; harm is rolled back, health only for a definition at fault; the operator's tree is saved before it is removed |
| **Provisioning**, `scripts/open5gs/provision_subscribers.py` | subscriber documents | per-slice IMSIs and ARP tiers | the n-th IMSI is the same subscriber to every program |
| **KPI runs**, `tools/kpi/run_kpis.py`, `scorecard.py` | `instances.jsonl`; shared: subscribers, plan override, traffic profile, UEs | `standard`, three sweeps with clean-up, scores | a row is about the stack its label names; the stack is put back; a better KPI is no lower a score |
| Simulations, reports, dashboards, manifests, acceptance tests | — | — | not part of the running system |

How they interact: the network orchestrator sets the slice orchestrator's `active` switches
(`POST /slices`), polls its `/state` to drain, and reads `/plan` in its closed loop; it starts and
stops containers with `docker` and the UEs with `docker exec ... ue-slice.sh`. The slice
orchestrator starts senders and receivers in the data network and UE containers, and reads
measured load and latency from Prometheus, which scrapes the collectors. A POST that fails is
swallowed on both sides: consistency comes from the next tick of the closed loop. A deployment
restarts all of it and lets the KPI gate judge; a KPI run changes subscribers, UE plan and traffic
profile under it for as long as it lasts, and shares nothing with the others but those files.

What is hard: one lock in the slice orchestrator, but flow threads that work outside it; an
operation of the network orchestrator of a dozen steps that can each fail or time out, next to a
closed loop that acts on what it saw some seconds ago, a supervisor in another container that
restarts UEs meanwhile, and two services that may restart and have forgotten everything. Around
it, shell and Python scripts of many steps whose commands fail unseen, that are killed or edited
under, and files in `/tmp` that outlive the processes they name.

## 2. Modules

| Module | Models | Proofs |
|---|---|---|
| `Admission` (+ `MCAdmission`) | admission state of the slice orchestrator | `Orchestrator_proofs` |
| `FlowExecution` | admitted demands as real traffic | `Orchestrator_proofs` |
| `Controller` | the four control laws | `Loops_proofs` |
| `SliceService` | what the network orchestrator promises of its slices (abstract) | — |
| `SliceLifecycle` | network orchestrator, its closed loop and the switch it sets; implements `SliceService` | `SliceLifecycle_proofs` |
| `Planning` | which slice a demand needs, observed demand, Kaufman-Roberts (functions) | `Loops_proofs` |
| `ClosedLoop` (+ `MCClosedLoop`) | the closed loop against the clock, over `Planning` | `Loops_proofs` |
| `Sizing` (+ `MCSizing`) | the search for a capacity, over `Planning` | `Loops_proofs` |
| `UeSupervisor` | supervisor, park and unpark in the UE container | `UeSupervisor_proofs` |
| `Measurement` (+ `MCMeasurement`) | traffic agent, network, KPI collector | `Measurement_proofs` |
| `KpiGate` | definitions, query results, verdicts (functions) | — |
| `Deploy` (+ `MCDeploy`) | deployment with rollback, over `KpiGate` | `Deploy_proofs` |
| `Subscribers` | which subscriber the n-th IMSI is, to every program (functions) | `KpiRun_proofs` |
| `Scorecard` | scores of an instance (functions) | `KpiRun_proofs` |
| `KpiRun` (+ `MCKpiRun`) | KPI runs on the shared stack, over `Subscribers` and `Scorecard` | `KpiRun_proofs` |
| `Sums` | no code: induction, sums and products over finite sets, for the proofs | itself |

`Orchestrator_proofs` and `Loops_proofs` extend several models each, so `FlowExecution`,
`Controller` and `Sizing` call theirs `FlowInit`, `FlowNext`, `FlowSpec`, `FlowTypeOK`,
`ControllerInit`, `SizingInit` and so on; in every other model they are `Init`, `Next`, `Spec` and
`TypeOK`.

They meet at named places. `Admission` leaves the controller's step open (any limit between
`Floor` and `Capacity`); the theorem `BandTheorem` about `Controller` is that every law lands
there. `FlowExecution` leaves open which demands are admitted at whose cost; `Admission` says
which. `SliceLifecycle.admits` is one component of `Admission.active`, its `OrchestratorRestart`
is `Admission!Restart`, its `AdmitDemand` the part of `decide()` that looks at the switch.
`ClosedLoop` is `SliceLifecycle`'s loop with the time it leaves to chance, and an operation as one
span; `UeSupervisor` is what `SliceLifecycle` calls `Park`, `Unpark` and `UesReturn`; the override
of `Measurement` is what `KpiRun` writes.

### Admission

Every handler of the slice orchestrator that reads or writes this state holds `_lock`, so a
handler is one action: `DecideAdmit`, `DecidePreempt` and `DecideRefuse` are the three outcomes of
`decide()` (their guards are exclusive), `SetActive` is `POST /slices`, `ControlStep` the body of
`control_loop`, `Sweep` a `GET /state` or `/metrics`, `Restart` a new process. `HoldEnds` is the
clock passing `expires`: the flow stays in the list, no longer `held`, until a handler sweeps it
(`expire_flows`), which `POST /slices` does not do.

* A flow's place in time (`admitted_at`) is a position `at` in `Slots`; a new flow gets the first
  position after those in the list. Two flows never share one: time stamps are taken under the lock.
* Rates are naturals in a unit small enough for every class; floating point rounding is left out.
  The code does not enforce it: `float(mbps)` (`orchestrator.py:461`) takes a negative rate too, and
  one that expires before what it made room for would leave the slice overcommitted.
  `CapacityRespected` and `ReserveKept` are about requests that ask for something.
  `Load(F)` is the sum of the rates of `F`, written as the number of (flow, unit) pairs.
* One `decide()` reads the measurement once (`Measure`): the code's several reads share the 3 s
  cache. A read is cached, fresh, or failed; a failed one keeps the cached value.
* `Price` is the pricing threshold as an operator of load and limit, the exponential of the code
  in `MCAdmission` only as three steps. `Victims` is the result of the code's loop: the shortest
  run in victim order that makes enough room. The theorems hold for any `Price`.
* Left out: counters, reasons, logs, unknown classes (no state changes but counters and a sweep,
  which `DecideRefuse` has already), and the reload of the subscriber cache (constants here).
  `Slots` bounds how many demands are held together; nothing else does.

### FlowExecution

`AdmitAndStart`, `AdmitWithoutSession` and `AdmitWithoutPort` are what `decide()` does under the
lock (pre-empt the victims, then `start_flow`). `run_flow` is five steps, split where it waits for
docker and where it takes the lock: `SenderStarts`, `ReceiverFails`, `ReceiverReports`,
`Conclude` (reads `preempted`, sets `done`, *before* the lock) and `Close` (with it). `stop_flow`
is `Kill`, `StopFails` (docker does not answer in 10 s) and `CheckDone`. `SafetyNet` is the expiry
of `FLOW_SECONDS + 30`, which may come early or late relative to everything else. What the packets
of `flowgen.py` did is one choice: the report says the rate was met or not. A killed sender may
still have delivered enough (2 % loss is tolerated and the last packets are cut).

### SliceLifecycle

`op` is the operation under way and the step it is at; `tick` the closed loop's step. An operation
runs alone (`_op_lock`), but every docker, UE or HTTP call in it is a step, and so is every call of
the loop, hence `CheckBusy` and `AlignSwitch` are two steps. `State(s)` is what `observe()`
computes from containers, parked list and UEs.

* `nfs` are the containers of which Docker says that they run. A process may exit by itself
  (`Exits`; the gNB's does when it has lost N2, `gnb-entrypoint.sh:41-47`): its container is then in
  `exited` until Docker starts it again (`DockerRestarts`; every slice container has a restart
  policy), and carries no sessions meanwhile. Anyone may `docker stop` one (`StopByHand`), and
  Docker leaves it so. Only operations *start* containers: `deploy.sh` does too, but refuses to
  run while a slice is dormant, and `docker start` by hand is left out.
* `faults` bounds what the code cannot see or undo (docker failures, lost POSTs, crashes,
  restarts), `setbacks` what an activation is meant to cope with (its checks that fail, containers
  that exit or are stopped by hand). Every property names the class of events it tolerates.
* `before` is read once, and the data network is never looked at: a container stopped by hand under
  an activation may be down when it reports done. `op.byhand` remembers which; it is the one
  exception `DoneMeansDone` makes (section 3, disagreements).
* `observe()` is one step. It reads the UEs first and the containers after; an operation takes the
  UEs down first and up last, so what it sees is what it would have seen at once, or DEGRADED.
* A status that cannot be read counts as no UE up, so the verification of a deactivation passes on
  it: `DoneMeansDone` promises that no UE is left running only for a deactivation that met one
  fault at most. With two (a UE that survived the park, then an unread status) the code reports
  done over a running UE.
* Removing `_busy` and releasing the lock are one step (`Release`); `_finish()` comes before it.
* `Implements` maps `State(s)` and the running operation onto `SliceService`: a sleeping slice
  wakes in an operation on it only, one operation at a time, and each ends. `Drift` there is what
  the environment does to a slice nobody operates on (sessions lost and found, a slice left
  half-way by a crash).
* Time is abstracted: an onset that is due or an idle time that is over may or may not be so
  (`Decisions`), except that demand for a dormant slice activates it. `MIN_UP` is a delay only.
* A slice orchestrator that is down is one whose POST was lost, and a drain that ended.
* `Crash` of the service leaves no `docker exec` behind that would go on.
* The supervisor is `UesReturn`; a UE it was restarting during a park is the second case of `Park`.
* Not modelled here: `scale` and `POST /auto` (see `ClosedLoop`), several slices at once (operations exclude each other and
  touch one slice each; the loop's decisions per slice are independent), other slices' lost UEs
  (a warning only).

### Controller

One throttled slice; `control_step` treats them independently. `ControlStep` takes any latency
reading or none, any load, and whether flows were short, and applies the law chosen at start.
Rates are hundredths of a Mbps (what `round(new, 2)` keeps), latencies tenths of a ms, fractions
percentages; divisions round down. The recursive least squares of `mpc` and the scores of `ucb`
are left open (any best limit; any arm once all are scored): what is stated holds whatever they
say. Arms are taken in ascending order, as the default `UCB_ARMS` lists them. `fell`, the time since
the limit last fell, is a history variable that no law reads: `CutsKeepDistance` is about it, and
not about `since_cut`, the time the code keeps.

### ClosedLoop, Planning, Sizing

The unit of time of `ClosedLoop` is `AUTO_INTERVAL`. Each unit has one tick, after everything that
is due in it. `Tick` is the whole of `auto_tick`: the plan over the demands the window reaches, the
onset, the learned period (`next_onset`), the decision, and `submit`; `TickBlind` is a plan that
does not come, `TickOff` a loop switched off by `POST /auto`. With `period = 0` demands come at any
time and the service restarts, operations come by hand, activations roll back; with a period,
bursts come in its rhythm as in `simulate_autoscale.py` and nothing interferes. An operation
takes any time up to `Takes`; steps, faults and the admission switch are `SliceLifecycle`'s.
`changed`, `demanded`, `steady`, `wanted` and `touched` are history variables. `demand_log` is a
set: nothing depends on the order of its entries, and demands of one class at one time are numbered.

`Planning` computes in exact arithmetic what the code computes in floating point: rates in
thousandths or hundredths, Kaufman-Roberts times C! so that every weight is a whole number.
The rescaling at 1e250 is therefore left out. `kr_size` is a pure function, but its two loops are
what could run for ever or miss, so `Sizing` makes them steps. It is checked against the loss
system itself (`LossMeets`, `BlockingMet`: product-form weights over all states), not against the
recursion.

### UeSupervisor

Processes have ids handed out in order; a restart of the container ends them all and starts again
at 1, while `parked`, pid and strike files stay. `Alive` is `kill -0`: *somebody* runs under that
id. Every read of a file and every kill or launch is a step of its own where another script can
come between. `Round` and `RestartWait` stand for the waits (`wait_up`, the sleep between rounds):
they outlast an attach, or it costs a fault. `InTime` states the same of the 2 s before park's
second sweep: a restart under way (a ping, a stop, a launch) is over by then. Without it the sweep
misses a UE and `ParkedStaysDown` fails. A script that outlives its 180 s timeout and overlaps the
next one, the routing tables and `/tmp/UERANSIM.proc-table` are not modelled.

### Measurement

One slice, any devices. The agent's heap is a count of entries per device and when they are due is
left out: any device with an entry may be the next. A packet carries the device object it came
from (`gen`) for the properties only; the collector sees device, epoch and number. Packets of one
object keep their order (one path on one host), any may be lost. `RunStart`, `AgentRestart`,
`CollectorRestart`, `SetAddress` and `SetProfile` happen at any time. Delay and jitter are sums
over received packets and left out, and so are malformed packets.

### KpiGate and Deploy

A KPI is well, badly, or silent. A definition carries what its query `returns` in each of these
cases (one number that meets the threshold or not, none, several, NaN) and, apart from that, what its
text looks like to the check of the definitions: whether it begins with `count(` or `sum(`, has
`or vector(` anywhere, and compares with at most. Only `Measures` relates the two: what is bad does
not meet the threshold, and only a fallback makes a number of silence.

`Deploy` is `deploy.sh` step by step: `files` what is on disk, three parts of it (see the module),
`stack` what the containers run that the script restarts, and `grafana` what `o5gs-grafana`, in none
of its lists, sees of the directories mounted into it. `owed` is the tree the operator last left for
the script, `none` once saving it has failed. Points of the script that matter and are easily missed:

* the gate's definitions come with the candidate, and `gate` exit code 2 (Prometheus out of reach)
  rolls back like a failure;
* dormancy is looked at once, before the log starts; a failed `docker exec` counts as none dormant;
* `docker compose up` may fail half-way; restarts fail unseen; the rollback's `apply` is not
  looked at;
* the known-good archive is removed before it is written again;
* tar's exit code is not read, when it writes either archive or when it extracts: an archive may
  be torn (`Torn`), an extraction partial (`RestoredPart`);
* the rollback removes directories under the mounts of containers. Those it restarts get the new
  ones, Grafana keeps the removed ones until compose has a reason to recreate it.

Two runs of the script at the same time are not modelled, nor is the image list of a snapshot,
which nothing reads, nor the UE container's own `ue-slice.sh`, whose mount is gone between the
`rm -rf` and its restart.

### Subscribers, Scorecard, KpiRun

`Subscribers` is the arithmetic by which four programs agree about the n-th IMSI; `Consistent` is
`check_plan()` without the gateways and the probe's pools. `KpiRun` has two slices for three
(eMBB, loaded; mMTC, varied) and a run as a list of jobs. `Raise` is a command with `check=True`
that fails or an answer that does not come, `Unseen` a command whose exit code nobody reads
(`start_ues.sh`, all of the clean-up), `Kill` the end of the program without its `finally`.
A failed provisioning may have replaced some records. `start_ues.sh` is one step, with the points at
which it can end. `slowest` is the longest interval some device's next report is still due under.
`calm` says no device was at more than the base interval when a job began: a killed interval sweep
leaves its profile, and the next run's first wait goes by 10 s whatever the devices do.
A killed device sweep leaves its override, and the next `standard` is measured on it.

## 3. Runs

| Run | Checks | Instance |
|---|---|---|
| `admission` | `TypeOK`, `CapacityRespected`, `ReserveKept`, `AdmittedWithinLimit`, `PreemptedOnlyByHigherPriority`, `PreemptionTakesTheLeast` | 2 slices, 3 subscribers, 6 demands, 3 held together, reservation and pricing; ~72 000 states |
| `flow_execution` | `FlowTypeOK`, `PortsExclusive`, `BooksBalance`, `FlowsEnd` | 3 flows, 2 ports, 1 device, room for 2; ~710 000 states |
| `slice_lifecycle` | `TypeOK`, `DoneMeansDone`, `RollbackRestores`, `SwitchFollows`, `DemandWakes`, `Implements` | 1 slice, 1 operation by hand, 1 setback, 2 faults, closed loop on; ~583 000 states |
| `controller` | `ControllerTypeOK`, `Band`, `ExploresUpwards`, `RaisesOnEvidence`, `CutsKeepDistance` | all four laws, 4 readings and none, 5 loads; ~178 000 states |
| `measurement` | `LossIsReal`, `SchedulesKept` | 1 device, 2 addresses, 2 epochs, 3 packets an object, 2 events; ~263 000 states |
| `deploy` | `NothingIsLost`, `KnownGoodHasPassed`, `HarmIsRejected`, `NoFalseAlarm`, `RolledBackIsGood` | 7 versions, 10 candidate trees, 4 definitions each, 3 runs, 2 edits, 2 faults; ~1 121 000 states |
| `ue_supervisor` | `ParkedStaysDown`, `UesComeBack` | 2 UEs, one of them parkable, 2 strikes, 2 scripts, 2 faults, 8 ids; ~282 000 states |
| `closed_loop` | `Follows`, `MinUpKept`, `SwitchedOffIdle`, `UpInTime` | 4 demands and 1 event at any time, or bursts every 8, 9 or 12 units for 40; ~451 000 states |
| `sizing` | `Bracketed`, `Ends` | every mix of up to 2 classes of 6 sizes and 2 loads, 3 targets; ~1 100 states |
| `kpi_run` | `DevicesAsLabelled`, `IntervalAsLabelled`, `Restored`, `ScoresCompare` | 3 standard UEs, sweeps of 2 values, 2 runs, 1 fault; ~148 000 states |

Why these bounds are enough to be worth running. *Admission*: eMBB carries one video or two
cheaper demands, URLLC carries three; one demand too many, two priorities among the victims, a
victim set smaller than all candidates, a limit below what is admitted, a measurement above it and
an expired flow still in the list all occur. *Flow execution*: three flows on two ports means
ports are reused while an old thread lives, and run out; room for two means pre-emption.
*Lifecycle*: two faults and one setback hit every pair of steps of both operations, in particular
between the loop's look and its act; the setback may be a container that exits or is stopped
between any two steps; the loop itself runs without bound. *Controller*: readings lie
below half, between, above 80 % of the budget and above it; loads below, at and above 80 % of the
limit and above the ceiling; three steps of hold and two of dwell. *Measurement*: three packets
are the fewest with a loss between two received; two events are an address that goes and comes
back, or a restart in a run. *Deploy*: three runs are an `--init`, a deployment and one after it;
candidates change the directories, the overwritten files and an added file, alone and together;
versions spoil a KPI, hide one with and without a fallback, have definitions with the trap, with a
gap the check does not see, or do not validate.
*UeSupervisor*: two scripts are a park after an unpark or the reverse; two faults are a container
restart and a link or process that fails; the second UE is there to be hit by mistake.
*ClosedLoop*: operations take one or two units, the window and `MIN_UP` two, `IDLE_SECONDS` and the
lead three; a rhythm is long enough to be switched off in, the shortest barely; three onsets are
remembered (eight in the code), the fewest a period is learned from. The rhythm is exact:
`simulate_autoscale.py` adds a jitter, which the median of the gaps is there for and no run has.
*Sizing*: offered loads are whole erlangs, in the theorem too; sizes with and without a common unit,
targets on both sides of one half; doubling stops at
`limit_units` in some mixes. *KpiRun*: fewer and more IoT devices than the standard; intervals
above and below the base interval in both orders; two of the four sets of files are consistent.

Every property has a mutant: a plausible bug in one mapped definition (`(mutant: ...)` in the
modules) that the same run finds.

`CHECK_DEADLOCK FALSE` stands where a bounded history ends (runs, rhythm, search, events used up).
In `UeSupervisor` the last process id may be used up with nothing left to do.

### Fairness

* `FlowExecution`: weak fairness of each flow's `run_flow` thread. Everything it waits for ends by
  itself: both ends run under `timeout -s KILL`, the receiver stops when idle, the docker calls
  have timeouts. No fairness of `stop_flow` or of the safety net is assumed: `FlowsEnd` does not
  need them.
* `SliceLifecycle`: weak fairness of the running operation (every wait in it has a deadline), of
  the closed loop (it is on, `NETORCH_AUTO=1`), and of the supervisor. Demand, its end, faults and
  requests are free. `SwitchFollows` and `DemandWakes` are conditional on their cause lasting.
  `SliceService` asks that an operation ends; `FairSpec` implements it.
* `UeSupervisor`: weak fairness of the two shell loops, whose every command ends (`ping -W`,
  `START_WAIT`), and of the attach of a process that was launched. Parking, unparking, and
  everything that fails are free.
* `Sizing`: weak fairness of the next step of a computation.
* `Admission`, `Controller`, `Measurement`, `Deploy`, `ClosedLoop` and `KpiRun` state safety only.
  What a closed loop or a clean-up must do *in time* is stated with the clock (`Follows`,
  `UpInTime`) or of the end of a run (`Restored`).

### Disagreements

Two are kept as runs that violate a property quoting the repository; details are in `PROJECT.json`.

| Run | The text says | The code does |
|---|---|---|
| `lifecycle_drain` | stop admitting, then drain, then stop the UEs | the loop may re-open the switch after the drain began |
| `ue_others` | every other UE is untouched by a restart | after a container restart a parked UE's old pid file names another UE's process, which is stopped instead |

Others were confirmed while modelling, and are not kept as runs:

| Where | The text says | The code does |
|---|---|---|
| `orchestrator.py:330` | Prometheus unreachable: fall back to admitted demand alone | keeps counting the last measurement |
| `orchestrator.py:157` | others only if the reserve stays free afterwards | not on the pre-emption path |
| `network-orchestrator/README.md:39` | demands for a dormant slice are refused | admitted onto a tighter slice the subscriber may use |
| `orchestrator.py:617` | kill *the flow's* sender | a late `stop_flow` kills the next flow on that device and port |
| `orchestrator.py:618` | a stopped flow is recorded `preempted` | not when pre-empted between traffic end and closing |
| `netorch.py:353` | back to where the slice was | activating an active slice parks its UEs if a check fails |
| `orchestrator.py:692` | never raises while the latency is unknown | `ucb` does |
| `orchestrator.py:958` | smallest capacity that meets the target | not always: blocking may rise with a unit more (1 Erlang of 5 units and 2 of 3, target 2/3: 10, where 8 does) |
| `network-orchestrator/README.md:39` | logged demand wakes the slice | not one whose mean rounds to 0.00 Mbps |
| `ue-slice.sh:9` | every UE of the slice deregisters, its process is stopped | a second process, launched by unpark and supervisor both, may outlive a park |
| `kpi_collector.py:26` | never inflates loss | a device whose address changed starts at 0 under the same epoch: a tally that heard only its later old numbers counts all the ones between as lost |
| `traffic_agent.py:15` | one report an interval | two, from a device that went and came back before its old entry was due |
| `deploy.sh:175` | the stack is on the known-good configuration | a file the candidate had added stays |
| `netorch.py:18`, `:29` | every step is checked; a manual `docker stop` cannot leave it believing something false | what ran at the beginning is not looked at again: a data network stopped by hand during an activation is reported running |
| `orchestrator.py:450` | of those, which still has room? | a demand below 0 Mbps is taken (`:461`); when it expires first, what it made room for is too much |
| `deploy.sh:168` | rejected candidate saved (nothing is discarded) | tar's exit code is not read (`:104`): after a failed one the `rm -rf` of `:169` removes the only copy of the directories |
| `deploy.sh:175` | the stack is on the known-good configuration | Grafana is not restarted (`:41-47`): what it has mounted is what `:169` removed |
| `kpi_gate.py:152` | true of a gate that breaks on a healthy system | not of `count by (..)(..)`, `scalar(count(..))`, `max(x > n)`, operator `ne`, or an answer of several series or NaN: a healthy candidate is rolled back |
| `deploy.sh:175` | on the known-good configuration, and passes | with a torn archive it may be part of each tree; a failed compose in the rollback is gated on the candidate's containers, against `deploy.sh:80-83` |
| `kpi_gate.py:21` | NODATA is a FAILURE for gate-severity KPIs | with `or vector(0)` it passes |

## 4. Proofs

`tlapm` checks `Orchestrator_proofs`, `Loops_proofs`, `SliceLifecycle_proofs`, `Deploy_proofs`,
`UeSupervisor_proofs`, `Measurement_proofs`, `KpiRun_proofs` and `Sums` to the last leaf. The only
assumptions are the named `ASSUME`s on the constants (well-typed, floors not above capacities,
budget and durations positive, finitely many devices, classes and KPIs, plans that name the slices
there are; offered loads and demand sizes positive and finitely many) and, of three theorems, a hypothesis on the constants that is named and argued below.
Every inductive invariant was checked by TLC on the instance of the run before it was proved. The
theorems and the properties they state are listed in `PROJECT.json`: every invariant and action
property that a run checks has one.

**Admission.** `CapacityRespected` holds although limits fall below what is admitted and
measurements come and go, because every admission is compared with `min(capacity, limit)` and
everything else only takes away. It is inductive only together with the types and finiteness:

    IInv == TypeOK /\ IsFiniteSet(Units(flows)) /\ CapacityRespected

`Load` is a cardinality, so finiteness of the units is what makes "one flow more", "these flows
less" and "this flow replaced" (lemmas `LoadOfOneMore`, `LoadOfRest`, `LoadOfReplaced`) usable at
all. Each action has a lemma that it keeps `IInv`; the action properties
(`LimitTheorem`, `PriorityTheorem`, `LeastTheorem`) come from lemmas that say exactly which flow
an admission adds and which it removes (`AdmitAddsOne`, `DecideAdmitDoes`, `DecidePreemptDoes`)
and that no other action does either. `ReserveTheorem` is proved by an induction of its own above
`IInv`: the reserve is compared when an ordinary demand is admitted where there is room; the
property leaves out subscribers that may pre-empt, because the code does not compare the reserve
where pre-emption makes the room.

**Controller.** `ControllerIInv == ControllerTypeOK /\ Band /\ ExploresUpwards /\ CutRemembered`. The
aimd law relies on `Band` of the old limit, the guard `Guarded` clamps for the others whatever the
law asked (lemma `GuardedInBand`). For ucb, that the arm held is the lowest untried one must be
carried along. `CutRemembered` ties what aimd remembers to what happened: `since_cut <= fell`, the
limit has not fallen since the last cut the law remembers. `DistanceTheorem` follows: a cut waits
for the one, and so for the other.

**FlowExecution.** `FlowIInv == FlowTypeOK /\ OneStopper /\ Resources`. `BooksBalance` and
`PortsExclusive` need each other: a new flow's port is one no flow has because the ports taken are
exactly those of the flows under way. `busy` counts flows per device, so the set under way must be
finite (`IsFiniteSet(Running)`), and a step adds one, removes one (`CountWith`, `CountWithout`) or
leaves the set alone (`SameFlows`). `OneStopper` is what keeps types: `preempt()` removes a flow
from the list when it sets `preempted`, so its stopper starts once, with all its attempts.

**SliceLifecycle.** `OnTheWayUp` and `OnTheWayDown` say, step by step, what an operation has
established and what others may do to it: Docker starts again what exits, so that an activation loses
only what is in `op.byhand`; nobody but an operation starts a container, so that a deactivation loses
nothing; sessions come back only to UEs that are not parked. `DoneTheorem` is what these say of the
last step. `CanGoBack` is the rollback's half: for a slice that was dormant, the containers that
run are among `op.started`, which is why undoing `started` restores it. `Refinement` proves
`Spec => Service!Safety`, `Service` being `SliceService` under the mapping of `Implements`: each
action is mapped to one of the service's actions or a stutter in a lemma. That each operation
ends, the fair part of `Implements`, is TLC's.

**Deploy.** The invariant follows a run. `CandidatePresent`, `SnapshotKept`, `CandidateKept` and
`GrafanaSees` hold whatever fails; `CandidateApplied` (what a clean run knows at each step up to the
archive: containers and disk are the candidate and, once past it, the gate has passed it) and
`SnapshotRestored` hold of a clean run, `CleanRun` being the antecedent the properties have: without
faults and edits since the run began. `NothingLostTheorem` needs none: for any number of runs,
failures and kills, the tree last left is on disk or saved, because at `remove` and `untar`, where it
may not be on disk, it is saved or its saving has failed, which is when nothing is owed.
`HarmTheorem` and `NoFalseAlarmTheorem` rest on what one definition says of one KPI (`GateCatches`,
`GateSpares`), for any set of definitions and whatever their queries return. `RolledBackTheorem` is
about a snapshot that is whole. `GrafanaSees` says that its container has what is on disk or what
was removed under it, the most that holds, and `KnownGoodTheorem` and `RolledBackTheorem` repeat it.

**UeSupervisor.** `SweptIsDown` carries `ParkedStaysDown`: from the second sweep on the supervisor
is not between its look at the parked list and its launch with a UE of the slice, and the UEs
swept are down. It relies on ids that were never handed out not running (`Unused`) and on the list
being written before the first kill (`OnTheList`). The hypothesis `InTime` is the constant of
section 2; the run has it too. With `InTime` false the theorem would be false, as the module's
description above says.

**ClosedLoop.** `MinUpTheorem` needs `Remembers`: what the service remembers of the last change is
the truth, or, after a restart, the time without demand began after the change, so that waiting
`IDLE_SECONDS >= MIN_UP` covers it. `FollowsTheorem` carries `BeingAnswered`: demand that has
lasted since `wanted` finds the slice up, dormant and before its next tick, or in an operation
whose end leaves time for what must follow. The hypothesis `ScaleIsShort` says that a scale takes
no longer than a deactivation and an activation together: `scale()` is two `docker update` calls
(`netorch.py:453`), and the operations it is compared with contain a dozen docker calls and waits.

`IdleTheorem` (`SwitchedOffIdle`) compares what the plan says of a log with what it says of a
longer one: a demand that comes only adds to the sum over the classes at home on the slice, each
rounded by itself (`PlansMore`, `DemandGrows`), so a slice that was needed still is. Hence `Heard`:
the last demand the plan showed has been seen by a tick, or is in the plan still.

`UpTheorem` (`UpInTime`) follows the rhythm. `Rhythm` says of every moment at which burst `b` it is:
the demands logged are those of the bursts so far, the window reaches the last one exactly until
`b + PLAN_WINDOW` (`Heeded`), the onsets remembered are a period apart and end with `b`
(`Onsets`), and once three are known the slice is up, or will be, or went down too late to be
brought up (`Prepared`). That the median of the gaps is the period (`PeriodLearned`) and that
forgetting the oldest onset keeps the rest in step (`LatestInStep`) are lemmas of their own. When
the demand of one burst is still in the window at the next there is one onset only, and nothing is
predicted. The hypothesis `Learnable` is what a rhythm must be like for the code to learn it: one
class is all that the slice serves and a burst of it rounds to more than nothing, as in
`simulate_autoscale.py`; `ACTIVATE_LEAD` is longer than an activation, as the comment at
`netorch.py:77` asks ("> activation time (12-25 s measured) + a tick"), and no shorter than a
deactivation; an operation is over within a period. A deactivation longer than the lead could be
under way when the burst comes.

**Measurement.** The loss a tally reports is a difference of two counts; that it is the number of
packets dropped is a bijection between the packets (arrived in the tally, or dropped in between)
and the numbers from first to last (lemma `LossCounted`). What makes it one: packets of an object
share their key (`OneKey`), two of them with one number are the same packet (`SamePacket`), no
number in between is unaccounted for (`NoGap`), and what is accounted for between two that arrived
is not still under way (`Ordered`, which holds because packets of one object are not reordered).
`Ordered` also carries `RunStart`: what the run's tally forgets was sent before all that is under
way. `SchedulesKept` is inductive with the types. `Device` is assumed finite: a scan makes an
object for each new one and numbers them.

**KpiRun.** Four properties of a program that changes shared files as it goes:

    IInv == Control /\ Stack /\ Switching /\ Attaching /\ Standing /\ Written /\ ScoredAs

`Control` types the jobs and says which steps belong to which job; `Stack` types records, launched
devices and override. `Switching` follows an interval sweep (whose profile is in force, and the
longest interval a next report can still be due under), `Attaching` a device sweep (records and
override those of the value, until the clean-up), `Standing` the standard job and what the clean-up
has put back so far. `Written` is what the row under way and the rows written say of all this.
`DevicesRight`, `IntervalRight` and `StandardAgain` are read off these. What they rest on is the
arithmetic of `Subscribers`: the n-th device falls into exactly one entry of a plan, and the
records of a plan are as many as it counts (`EntryCovers`, `PlanCounts`, `RecordsOf`), for plans of any
length, by induction over their entries. `ScoresAreOrdered` (`ScoresCompare`) holds of any
scorecard: a KPI that is better scores no lower (`KpiCompares`), a sum of terms none of which is
lower is no lower (`SumMonotone`), and neither division by the weights' sum nor the final mean
turns that round.

**Sizing.** `BracketTheorem` (`Bracketed`) is about the loss system; the code computes with the
recursion. The search itself is short (`SizingTypeOK /\ Bracketed` is inductive); what it rests on
is `KaufmanRoberts`: for any set of classes, capacity and target, the blocking that
`kaufman_roberts()` returns is that of the product form. The argument is Kaufman's. A state with
one demand of class *c* fewer is a state (`Fewer`, `More`), and the weights of the two balance:
`n[c] * Weight(n) = c.erlangs * Weight(n less one c)` (`Balance`). Summed over the states with *n*
units busy, once by state and once by class (`SumSwap`), this is the recursion (`ClassShare`,
`LevelRecursion`), so that the level weights solve it and, solutions being unique, are `Weights`
(`WeightsAreLevels`). A class is blocked in the states of the top levels (`TotalIs`, by
`SumFibers`). Both sides divide whole numbers, and the proof owes that no division rounds: C! is a
multiple of the factorials of any state that fits (`OrdersDivide`, by induction over the
demands), hence every weight is whole (`WeightWhole`), hence what the recursion divides by *n* is *n*
times a whole number (`StepIs`).

**Sums.** The models take sums from the community modules, as folds defined by a recursive
`CHOOSE`. The provers instantiate no operator, so `Sums` has a sum as a function over the subsets of a
finite set: that the recursion has one solution (`SumSolves`, `SolutionsAgree`), that it may take
the elements in any order (`SumRemove`), that it is monotone, and that a sum of sums may be taken by
rows, by columns or by the values of a map (`SumSwap`, `SumFibers`, `SumPaired`). Products of
positive numbers have the same, as far as needed. Induction is stated of a *set* of numbers
(`Induction`, from the library's `WFMin`) or of subsets of a finite set (`SetInduction`).

**Only model-checked:** liveness (`FlowsEnd`, `SwitchFollows`, `DemandWakes`, `UesComeBack`,
`Ends`, and the fair part of `Implements`), which is out of this prover's reach.

## 5. Not modelled

* The 60 s subscriber cache and the 15 s observe cache of `/metrics`: the first is read where
  `Admission` has constants, the second feeds no decision.
* `scale` in steps: its containers and UEs are not told apart from an activation's;
  `ClosedLoop` has it as time in which nothing else can be submitted.
* gNB and UPF entrypoints: they set up interfaces and run one external program. That the gNB's ends
  itself and is started again is in `SliceLifecycle` (`Exits`, `DockerRestarts`).
* Exporters and `check_metric_names.py`: read-only.
* `report()`, `slides.py`, `xlsx.py`, dashboards, `render.py`, manifests: layout of what others
  decided.
* Simulations and traffic generators: the models let any demand come.
* Acceptance tests and CI, and the external programs (Open5GS, free5GC, UERANSIM, Prometheus,
  docker), which appear as the external definitions of `PROJECT.json`'s map.

## 6. Plan

1. Proofs: that the steps of `Controller` are steps `Admission` allows its controller (beyond
   `BandTheorem`).
2. `scale` as steps, two slices in `SliceLifecycle`, the subscriber cache.

---------------------------- MODULE SliceLifecycle ----------------------------
(***************************************************************************)
(* The network orchestrator (tools/network-orchestrator/netorch.py): the   *)
(* operations that bring a slice up and down, and the closed loop that     *)
(* switches slices on demand, next to the admission switch they set in the *)
(* slice orchestrator (module Admission's `active`).                       *)
(*                                                                         *)
(* An operation runs in its own thread, one at a time (_op_lock), and      *)
(* every docker, UE or HTTP call is a step of it.  The closed loop is      *)
(* another thread: it observes, sets switches and submits operations, each *)
(* a step too, so that it may act on a state that is gone.                 *)
(*                                                                         *)
(* Meanwhile a container may exit by itself, and Docker starts it again,   *)
(* or be stopped by hand.  Started is a container by operations only.      *)
(* `faults` counts what the code cannot undo or see (a docker call that    *)
(* fails, a lost POST, a crash, a restart), `setbacks` what it is meant to *)
(* cope with (a timeout, UEs that do not attach, a container that exits).  *)
(***************************************************************************)
EXTENDS Naturals, FiniteSets

CONSTANTS
    Slice,
    OnDemand,      \* SUBSET Slice: ON_DEMAND, what the closed loop may switch
    MaxLoad,       \* bound on the demands a slice holds
    MaxManual,     \* bound on operations requested by hand
    MaxSetbacks, MaxFaults,
    none

ASSUME LifecycleAssumption ==
    /\ OnDemand \subseteq Slice
    /\ none \notin Slice
    /\ {MaxLoad, MaxManual, MaxSetbacks, MaxFaults} \subseteq Nat

VARIABLES
    nfs,           \* [Slice -> SUBSET NF]: containers of which Docker says that they run
    exited,        \* those whose process has ended, until Docker has started it again
    parked,        \* the slice is in $STATE/parked of the UE container
    up,            \* UEs holding a session: none, some, or UE_UP_SHARE of them
    admits,        \* the slice orchestrator's `active`
    load,          \* demands that hold capacity on the slice
    needed,        \* what /plan says: demand, and more than 0 Mbps of it
    op,            \* the operation under way
    tick,          \* the closed loop's step under way
    manual, setbacks, faults

containers == <<nfs, exited>>
world == <<containers, parked, up>>
traffic == <<load, needed>>
vars == <<nfs, exited, parked, up, admits, load, needed, op, tick, manual, setbacks, faults>>

NF == {"upf", "dn", "gnb"}
Kind == {"activate", "deactivate"}
Result == {"done", "failed", "rolled_back"}

\* `at` is the step it is at, or its result: _finish() has run, the lock is still held.
\* `was`, the state the operation found, `drained`, what drain() returned, and `byhand`,
\* what was stopped by hand under it, are kept here to be referred to.
Operation == [kind: Kind, slice: Slice, was: {"ACTIVE", "DORMANT", "DEGRADED"},
              at: NF \cup {"ues", "path", "admit", "rollback", "repark", "undo",
                           "stop", "drain", "park", "verify"} \cup Result,
              before: SUBSET NF, started: SUBSET NF, unparked: BOOLEAN, drained: BOOLEAN,
              byhand: SUBSET NF]
NoOp == [kind |-> "none"]

Tick == [at: {"switches"}, seen: [Slice -> {"ACTIVE", "DORMANT", "DEGRADED"}],
         left: SUBSET Slice, post: Slice \cup {none}, todo: SUBSET (Kind \X Slice)]
NoTick == [at |-> "sleep"]

-----------------------------------------------------------------------------
(* observe() *)

\* Discovered from the containers and the UEs, never remembered.  `State.Running` is true
\* of a container that Docker is about to start again.
State(s) ==
    CASE nfs[s] = NF /\ ~parked[s] /\ up[s] = "enough" -> "ACTIVE"
      [] nfs[s] = {} /\ parked[s] /\ up[s] = "none" -> "DORMANT"
      [] OTHER -> "DEGRADED"

Busy(s) == op # NoOp /\ op.slice = s

\* What sessions need.
Carries(s) == {"upf", "gnb"} \subseteq nfs[s] \ exited[s]

\* Accounting for what goes wrong.
Setback == setbacks < MaxSetbacks /\ setbacks' = setbacks + 1 /\ UNCHANGED faults
Fault == faults < MaxFaults /\ faults' = faults + 1 /\ UNCHANGED setbacks
Smooth == UNCHANGED <<setbacks, faults>>

-----------------------------------------------------------------------------
(* submit() *)

\* (mutant: the lock is not asked for)
BeginAnyway(kind, s) ==
    op' = [kind |-> kind, slice |-> s, was |-> State(s),
           at |-> IF kind = "activate" THEN "upf" ELSE "stop",
           before |-> nfs[s], started |-> {}, unparked |-> FALSE, drained |-> FALSE,
           byhand |-> {}]

Begin(kind, s) ==
    /\ op = NoOp
    /\ op' = [kind |-> kind, slice |-> s, was |-> State(s),
              at |-> IF kind = "activate" THEN "upf" ELSE "stop",
              before |-> nfs[s], started |-> {}, unparked |-> FALSE, drained |-> FALSE,
              byhand |-> {}]

\* POST /slices/<name>/activate or /deactivate; 409 while another one runs.
Request(kind, s) ==
    /\ manual < MaxManual /\ manual' = manual + 1
    /\ Begin(kind, s)
    /\ UNCHANGED <<world, traffic, admits, tick, setbacks, faults>>

GoTo(at) == op' = [op EXCEPT !.at = at]

Finish(r) == GoTo(r)

\* The `finally` of run(): _busy is popped, the lock released.
Release ==
    /\ op # NoOp /\ op.at \in Result
    /\ op' = NoOp
    /\ UNCHANGED <<world, traffic, admits, tick, manual, setbacks, faults>>

\* Any other exception: "failed", and nothing is rolled back.
Unexpected ==
    /\ op # NoOp /\ op.at \notin Result
    /\ Fault
    /\ Finish("failed")
    /\ UNCHANGED <<world, traffic, admits, tick, manual>>

\* POST /slices of the slice orchestrator; orch() swallows a call that fails.
Post(s, b) ==
    \/ admits' = [admits EXCEPT ![s] = b] /\ Smooth
    \/ UNCHANGED admits /\ Fault

-----------------------------------------------------------------------------
(* activate() *)

At(kind, at) == op # NoOp /\ op.kind = kind /\ op.at = at
After == [upf |-> "dn", dn |-> "gnb", gnb |-> "ues"]

\* docker start of what did not run when the operation began, then the wait for the log line
\* of the association (UPF) or the NG Setup (gNB) since the container's last start; the data
\* network is not looked at.
StartNf(k) ==
    LET s == op.slice
        running == nfs' = [nfs EXCEPT ![s] = @ \cup ({k} \ op.before)]
        recorded(next) == op' = [op EXCEPT !.at = next, !.started = @ \cup ({k} \ op.before)]
    IN /\ At("activate", k)
       /\ \/ running /\ recorded(After[k]) /\ Smooth
          \/ k # "dn" /\ running /\ recorded("rollback") /\ Setback
          \* docker start failed or timed out: not in `started`, perhaps running.
          \/ k \notin op.before /\ (running \/ UNCHANGED nfs) /\ GoTo("rollback") /\ Fault
       /\ UNCHANGED <<exited, parked, up, traffic, admits, tick, manual>>

\* ue-slice.sh unpark: off the parked list, UEs launched, wait until they are up.
Unpark ==
    LET s == op.slice
        to(at) == op' = [op EXCEPT !.at = at, !.unparked = TRUE]
    IN /\ At("activate", "ues")
       /\ \/ Carries(s) /\ parked' = [parked EXCEPT ![s] = FALSE] /\ up' = [up EXCEPT ![s] = "enough"]
             /\ to("path") /\ Smooth
          \* too few are up, or the deadline has passed
          \/ parked' = [parked EXCEPT ![s] = FALSE]
             /\ \E u \in {"none", "some", "enough"} : up' = [up EXCEPT ![s] = u]
             /\ to("rollback") /\ IF Carries(s) THEN Setback ELSE Smooth
          \* docker exec failed or timed out, the script perhaps not.
          \/ parked' = [parked EXCEPT ![s] = FALSE] /\ UNCHANGED up /\ to("rollback") /\ Fault
          \/ UNCHANGED <<parked, up>> /\ to("rollback") /\ Fault
       /\ UNCHANGED <<containers, traffic, admits, tick, manual>>

\* Pings from up to three UEs to the gateway, through the UPF.
DataPath ==
    /\ At("activate", "path")
    /\ \/ up[op.slice] # "none" /\ Carries(op.slice) /\ GoTo("admit") /\ Smooth
       \/ (up[op.slice] = "none" \/ ~Carries(op.slice)) /\ GoTo("rollback") /\ Smooth
       \/ GoTo("rollback") /\ Setback
    /\ UNCHANGED <<world, traffic, admits, tick, manual>>

\* Admit, then look at the deadline once more.
SwitchOn ==
    /\ At("activate", "admit")
    /\ \/ Post(op.slice, TRUE) /\ Finish("done")
       \/ admits' = [admits EXCEPT ![op.slice] = TRUE] /\ Setback
          /\ GoTo("rollback")
    /\ UNCHANGED <<world, traffic, tick, manual>>

\* (mutant: the UEs are left as they are)
RollbackWithoutPark ==
    /\ At("activate", "rollback")
    /\ Post(op.slice, FALSE)
    /\ GoTo("undo")
    /\ UNCHANGED <<world, traffic, tick, manual>>

Rollback ==
    /\ At("activate", "rollback")
    /\ Post(op.slice, FALSE)
    /\ GoTo(IF op.unparked THEN "repark" ELSE "undo")
    /\ UNCHANGED <<world, traffic, tick, manual>>

\* ue-slice.sh park; its failure is noted and the rollback goes on.
Park(next) ==
    LET s == op.slice
    IN \/ parked' = [parked EXCEPT ![s] = TRUE] /\ up' = [up EXCEPT ![s] = "none"]
          /\ GoTo(next) /\ Smooth
       \* a UE the supervisor was restarting outlives both sweeps
       \/ parked' = [parked EXCEPT ![s] = TRUE] /\ up[s] # "none"
          /\ up' = [up EXCEPT ![s] = "some"] /\ GoTo(next) /\ Fault

ParkFails ==
    /\ Fault
    /\ parked' = [parked EXCEPT ![op.slice] = TRUE] \/ UNCHANGED parked
    /\ UNCHANGED up

Repark ==
    /\ At("activate", "repark")
    /\ Park("undo") \/ (ParkFails /\ GoTo("undo"))
    /\ UNCHANGED <<containers, traffic, admits, tick, manual>>

\* docker stop: Docker does not start it again.
Stop(s, k) ==
    /\ nfs' = [nfs EXCEPT ![s] = @ \ {k}]
    /\ exited' = [exited EXCEPT ![s] = @ \ {k}]

Rank == [upf |-> 1, dn |-> 2, gnb |-> 3]

\* docker stop of what was started, in reverse; the return code is not looked at.
Undo(k) ==
    LET s == op.slice
    IN /\ At("activate", "undo")
       /\ k \in op.started /\ \A j \in op.started : Rank[j] <= Rank[k]
       /\ op' = [op EXCEPT !.started = @ \ {k}]
       /\ \/ Stop(s, k) /\ Smooth
          \/ UNCHANGED containers /\ Fault
       /\ UNCHANGED <<parked, up, traffic, admits, tick, manual>>

RolledBack ==
    /\ At("activate", "undo")
    /\ op.started = {}
    /\ Finish("rolled_back")
    /\ UNCHANGED <<world, traffic, admits, tick, manual, setbacks, faults>>

-----------------------------------------------------------------------------
(* deactivate() *)

StopAdmitting ==
    /\ At("deactivate", "stop")
    /\ Post(op.slice, FALSE)
    /\ GoTo("drain")
    /\ UNCHANGED <<world, traffic, tick, manual>>

\* No admitted flows are left, or DRAIN_TIMEOUT has passed and the rest is cut
\* (or the slice orchestrator does not answer).
Drain ==
    /\ At("deactivate", "drain")
    /\ \E empty \in BOOLEAN :
          /\ empty => load[op.slice] = 0
          /\ op' = [op EXCEPT !.at = "park", !.drained = empty]
    /\ UNCHANGED <<world, traffic, admits, tick, manual, setbacks, faults>>

ParkUes ==
    /\ At("deactivate", "park")
    /\ \/ Park("gnb")
       \/ ParkFails /\ Finish("failed")
    /\ UNCHANGED <<containers, traffic, admits, tick, manual>>

Below == [gnb |-> "dn", dn |-> "upf", upf |-> "verify"]

\* (mutant: the return code of docker stop is not looked at)
StopNfUnchecked(k) ==
    LET s == op.slice
    IN /\ At("deactivate", k)
       /\ \/ Stop(s, k) /\ Smooth
          \/ UNCHANGED containers /\ Fault
       /\ GoTo(Below[k])
       /\ UNCHANGED <<parked, up, traffic, admits, tick, manual>>

StopNf(k) ==
    LET s == op.slice
    IN /\ At("deactivate", k)
       /\ \/ Stop(s, k) /\ GoTo(Below[k]) /\ Smooth
          \/ (Stop(s, k) \/ UNCHANGED containers) /\ Finish("failed") /\ Fault
       /\ UNCHANGED <<parked, up, traffic, admits, tick, manual>>

\* No UE may be up.  A status that cannot be read says of every UE that it is not.
Verify ==
    /\ At("deactivate", "verify")
    /\ \/ Finish(IF up[op.slice] = "none" THEN "done" ELSE "failed") /\ Smooth
       \/ Finish("done") /\ Fault
    /\ UNCHANGED <<world, traffic, admits, tick, manual>>

-----------------------------------------------------------------------------
(* auto_tick() *)

\* (mutant: prediction alone wakes a slice)
DecisionsPredicted(s) ==
    IF Busy(s) \/ s \notin OnDemand THEN {{}}
    ELSE CASE State(s) = "DORMANT" -> {{}, {<<"activate", s>>}}
           [] State(s) = "ACTIVE" /\ ~needed[s] -> {{}, {<<"deactivate", s>>}}
           [] OTHER -> {{}}

\* What the loop decides about s from the plan and the state it observes.  An
\* onset that is due, an idle time that is over: left to chance.
Decisions(s) ==
    IF Busy(s) \/ s \notin OnDemand THEN {{}}
    ELSE CASE State(s) = "DORMANT" /\ needed[s] -> {{<<"activate", s>>}}
           [] State(s) = "DORMANT" /\ ~needed[s] -> {{}, {<<"activate", s>>}}
           [] State(s) = "ACTIVE" /\ ~needed[s] -> {{}, {<<"deactivate", s>>}}
           [] OTHER -> {{}}

\* GET /plan and observe(force=True).  A plan or a UE status that cannot be read
\* makes a tick without consequence: no step.
Observe ==
    /\ tick = NoTick
    /\ \E decided \in [Slice -> SUBSET (Kind \X Slice)] :
          /\ \A s \in Slice : decided[s] \in Decisions(s)
          /\ tick' = [at |-> "switches", seen |-> [s \in Slice |-> State(s)],
                      left |-> {s \in Slice : State(s) # "DEGRADED"}, post |-> none,
                      todo |-> UNION {decided[s] : s \in Slice}]
    /\ UNCHANGED <<world, traffic, admits, op, manual, setbacks, faults>>

\* `name not in _busy` is looked at, then the switch is set.
CheckBusy(s) ==
    /\ tick # NoTick /\ tick.post = none /\ s \in tick.left
    /\ tick' = [tick EXCEPT !.left = @ \ {s}, !.post = IF Busy(s) THEN none ELSE s]
    /\ UNCHANGED <<world, traffic, admits, op, manual, setbacks, faults>>

\* (mutant: the switch is only ever set on)
AlignSwitchOn ==
    /\ tick # NoTick /\ tick.post # none
    /\ IF tick.seen[tick.post] = "ACTIVE" THEN Post(tick.post, TRUE) ELSE UNCHANGED admits /\ Smooth
    /\ tick' = [tick EXCEPT !.post = none]
    /\ UNCHANGED <<world, traffic, op, manual>>

AlignSwitch ==
    /\ tick # NoTick /\ tick.post # none
    /\ Post(tick.post, tick.seen[tick.post] = "ACTIVE")
    /\ tick' = [tick EXCEPT !.post = none]
    /\ UNCHANGED <<world, traffic, op, manual>>

\* A decision is submitted; while another operation runs it is dropped.
Submit(d) ==
    /\ tick # NoTick /\ tick.post = none /\ tick.left = {} /\ d \in tick.todo
    /\ IF op = NoOp THEN Begin(d[1], d[2]) ELSE UNCHANGED op
    /\ tick' = [tick EXCEPT !.todo = @ \ {d}]
    /\ UNCHANGED <<world, traffic, admits, manual, setbacks, faults>>

EndTick ==
    /\ tick # NoTick /\ tick.post = none /\ tick.left = {} /\ tick.todo = {}
    /\ tick' = NoTick
    /\ UNCHANGED <<world, traffic, admits, op, manual, setbacks, faults>>

-----------------------------------------------------------------------------
(* What happens around it *)

\* The service is killed and started again: the operation is forgotten.
Crash ==
    /\ Fault
    /\ op' = NoOp /\ tick' = NoTick
    /\ UNCHANGED <<world, traffic, admits, manual>>

\* Module Admission's Restart.
OrchestratorRestart ==
    /\ Fault
    /\ admits' = [s \in Slice |-> TRUE]
    /\ load' = [s \in Slice |-> 0]
    /\ UNCHANGED <<world, needed, op, tick, manual>>

AdmitDemand(s) ==
    /\ admits[s] /\ load[s] < MaxLoad
    /\ load' = [load EXCEPT ![s] = @ + 1]
    /\ UNCHANGED <<world, needed, admits, op, tick, manual, setbacks, faults>>

\* (mutant: the end of a demand counts though it was forgotten)
DemandEndsAnyway(s) ==
    /\ load' = [load EXCEPT ![s] = @ - 1]
    /\ UNCHANGED <<world, needed, admits, op, tick, manual, setbacks, faults>>

DemandEnds(s) ==
    /\ load[s] > 0
    /\ load' = [load EXCEPT ![s] = @ - 1]
    /\ UNCHANGED <<world, needed, admits, op, tick, manual, setbacks, faults>>

PlanChanges(s) ==
    /\ needed' = [needed EXCEPT ![s] = ~@]
    /\ UNCHANGED <<world, load, admits, op, tick, manual, setbacks, faults>>

\* Sessions end with the gNB or the UPF under them, or because a UE fails.
SessionsLost(s) ==
    /\ up[s] # "none"
    /\ up' = [up EXCEPT ![s] = "none"]
    /\ IF Carries(s) THEN Setback ELSE Smooth
    /\ UNCHANGED <<containers, parked, traffic, admits, op, tick, manual>>

\* The supervisor of ue-entrypoint.sh restarts what is not parked.
UesReturn(s) ==
    /\ ~parked[s] /\ Carries(s) /\ up[s] # "enough"
    /\ up' = [up EXCEPT ![s] = "enough"]
    /\ UNCHANGED <<containers, parked, traffic, admits, op, tick, manual, setbacks, faults>>

\* A gNB that loses the AMF, or finds none, exits; so may any process, and all of them when
\* the engine restarts.
Exits(s, k) ==
    /\ k \in nfs[s] \ exited[s]
    /\ exited' = [exited EXCEPT ![s] = @ \cup {k}]
    /\ Setback
    /\ UNCHANGED <<nfs, parked, up, traffic, admits, op, tick, manual>>

\* restart: unless-stopped.
DockerRestarts(s, k) ==
    /\ k \in exited[s]
    /\ exited' = [exited EXCEPT ![s] = @ \ {k}]
    /\ UNCHANGED <<nfs, parked, up, traffic, admits, op, tick, manual, setbacks, faults>>

\* A manual docker stop.
StopByHand(s, k) ==
    /\ k \in nfs[s]
    /\ Stop(s, k)
    /\ op' = IF Busy(s) THEN [op EXCEPT !.byhand = @ \cup {k}] ELSE op
    /\ Setback
    /\ UNCHANGED <<parked, up, traffic, admits, tick, manual>>

-----------------------------------------------------------------------------
\* The core is deployed with every slice active.
Init ==
    /\ nfs = [s \in Slice |-> NF]
    /\ exited = [s \in Slice |-> {}]
    /\ parked = [s \in Slice |-> FALSE]
    /\ up = [s \in Slice |-> "enough"]
    /\ admits = [s \in Slice |-> TRUE]
    /\ load = [s \in Slice |-> 0]
    /\ needed = [s \in Slice |-> FALSE]
    /\ op = NoOp
    /\ tick = NoTick
    /\ manual = 0 /\ setbacks = 0 /\ faults = 0

Operate ==
    \/ \E k \in NF : StartNf(k) \/ Undo(k) \/ StopNf(k)
    \/ Unpark \/ DataPath \/ SwitchOn \/ Rollback \/ Repark \/ RolledBack
    \/ StopAdmitting \/ Drain \/ ParkUes \/ Verify
    \/ Release

AutoTick ==
    \/ Observe
    \/ \E s \in Slice : CheckBusy(s)
    \/ AlignSwitch
    \/ \E d \in Kind \X Slice : Submit(d)
    \/ EndTick

Next ==
    \/ Operate
    \/ AutoTick
    \/ \E kind \in Kind, s \in Slice : Request(kind, s)
    \/ Unexpected \/ Crash \/ OrchestratorRestart
    \/ \E s \in Slice :
          AdmitDemand(s) \/ DemandEnds(s) \/ PlanChanges(s) \/ SessionsLost(s) \/ UesReturn(s)
    \/ \E s \in Slice, k \in NF : Exits(s, k) \/ DockerRestarts(s, k) \/ StopByHand(s, k)

Spec == Init /\ [][Next]_vars

\* Every call an operation waits for has a timeout; the loop ticks (NETORCH_AUTO=1);
\* the supervisor keeps trying.
Fairness ==
    /\ WF_vars(Operate)
    /\ WF_vars(AutoTick)
    /\ \A s \in Slice : WF_vars(UesReturn(s))

FairSpec == Spec /\ Fairness

-----------------------------------------------------------------------------
(* Properties *)

\* The state is well-typed.
TypeOK ==
    /\ nfs \in [Slice -> SUBSET NF]
    /\ exited \in [Slice -> SUBSET NF] /\ \A s \in Slice : exited[s] \subseteq nfs[s]
    /\ parked \in [Slice -> BOOLEAN]
    /\ up \in [Slice -> {"none", "some", "enough"}]
    /\ admits \in [Slice -> BOOLEAN]
    /\ load \in [Slice -> 0 .. MaxLoad]
    /\ needed \in [Slice -> BOOLEAN]
    /\ op \in Operation \cup {NoOp}
    /\ tick \in Tick \cup {NoTick}

Ends(r) == op # NoOp /\ op.at \notin Result /\ op' # NoOp /\ op'.at = r

\* An operation that reports success has succeeded, whatever failed or exited on the way
\* and whatever the loop and the supervisor did meanwhile.  An activation: every container
\* runs, or Docker is starting it again, save one stopped by hand after the operation had
\* begun; the UEs are not parked.  A deactivation: no container runs, none that has exited
\* will come back, the UEs are parked and, unless two things went wrong (a UE that outlives
\* the park, a status that cannot be read), down.
DoneMeansDone ==
    [][Ends("done") =>
          LET s == op.slice
          IN IF op.kind = "activate" THEN nfs'[s] \cup op.byhand = NF /\ ~parked'[s]
             ELSE nfs'[s] \cup exited'[s] = {} /\ parked'[s] /\ (faults' <= 1 => up'[s] = "none")]_vars

\* An activation that misses any of its checks leaves a slice that was dormant
\* dormant: everything it started is stopped again, its UEs are parked again, containers
\* that exit or are stopped by hand under it notwithstanding.
RollbackRestores ==
    [][(Ends("rolled_back") /\ op.was = "DORMANT" /\ faults = 0) => State(op.slice)' = "DORMANT"]_vars

\* The admission switch follows the deployment in the end, whatever was lost,
\* restarted or overtaken: demand goes to a slice that is there, to no other.
SwitchFollows ==
    \A s \in Slice :
        /\ <>[](State(s) = "ACTIVE") => <>[]admits[s]
        /\ <>[](State(s) = "DORMANT") => <>[]~admits[s]

\* Lasting demand wakes a dormant slice, however the activations before fared.
DemandWakes == \A s \in OnDemand : <>[]needed[s] => <>[](State(s) # "DORMANT")

\* The operations, the loop, the supervisor and what fails implement the contract of module
\* SliceService: one operation at a time, each ends, and none but an operation on it wakes a
\* slice that sleeps.
Service == INSTANCE SliceService WITH
    status <- [s \in Slice |-> State(s)],
    operation <- IF op = NoOp THEN NoOp ELSE [kind |-> op.kind, slice |-> op.slice]
Implements == Service!Spec

\* tools/network-orchestrator/README.md:26: "stop admitting -> drain admitted flows
\* -> deregister and stop the UEs", each step (line 23) "checked before the next": once the drain
\* has found no admitted flow, the UEs that stop carry none.
DrainedCarriesNothing ==
    [][(At("deactivate", "park") /\ op' # NoOp /\ op.drained /\ faults = 0) =>
          load[op.slice] = 0]_vars
=============================================================================

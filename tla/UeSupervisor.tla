----------------------------- MODULE UeSupervisor -----------------------------
(***************************************************************************)
(* The UE container: the supervisor that starts every UE and restarts the  *)
(* unhealthy ones (ue-entrypoint.sh), and the script by which the network  *)
(* orchestrator parks and unparks one slice's UEs (ue-slice.sh).  They run *)
(* at the same time and share nothing but files under /tmp, which outlive  *)
(* a restart of the container, while the processes do not and their ids    *)
(* are handed out again.                                                   *)
(*                                                                         *)
(* The orchestrator runs one script at a time.  A script that outlives its *)
(* 180 s timeout and overlaps the next one is not modelled.                *)
(***************************************************************************)
EXTENDS Naturals, FiniteSets

CONSTANTS
    Ue,
    Parkable,        \* SUBSET Ue: the slice that is parked and unparked
    MaxPid,          \* bound on the launches between two starts of the container
    CHECK_STRIKES,
    InTime,          \* the 2 s before the second sweep outlast a restart under way
    MaxScripts, MaxFaults,
    none

ASSUME UeAssumption ==
    /\ Parkable \subseteq Ue
    /\ none \notin Ue \cup Nat
    /\ CHECK_STRIKES \in Nat \ {0} /\ {MaxPid, MaxScripts, MaxFaults} \subseteq Nat
    /\ InTime \in BOOLEAN

VARIABLES
    parked,          \* the slice is on the parked list
    pidfile,         \* [Ue -> Pid or none]: $STATE/<imsi>.pid
    strikes,         \* [Ue -> Nat]: $STATE/<imsi>.strikes
    owner,           \* [Pid -> Ue or none]: the nr-ue that runs under an id
    last,            \* the last id handed out since the container started
    fresh,           \* processes that have not attached yet
    session,         \* [Ue -> Pid or none]: whose interface has the address last logged
    works,           \* [Ue -> BOOLEAN]: a ping through it is answered
    sup, ue, todo,   \* the supervisor: its step, the UE at hand, the UEs left in this round
    script, left, it, \* ue-slice.sh: its step, the UEs left, the UE at hand
    swept,           \* history: the last script was a park, and it finished
    scripts, faults

Pid == 1 .. MaxPid
files == <<parked, pidfile, strikes>>
processes == <<owner, last, fresh, session, works>>
supervisor == <<sup, ue, todo>>
slicescript == <<script, left, it, swept, scripts>>
vars == <<parked, pidfile, strikes, owner, last, fresh, session, works, sup, ue, todo,
          script, left, it, swept, scripts, faults>>

Fault == faults < MaxFaults /\ faults' = faults + 1

-----------------------------------------------------------------------------
(* ue-lib.sh *)

\* kill -0: somebody runs under that id.
Alive(u) == pidfile[u] # none /\ owner[pidfile[u]] # none
Processes(u) == {p \in Pid : owner[p] = u}

\* The processes `dead` end, and with them the interfaces they held.
Ends(dead) ==
    /\ owner' = [p \in Pid |-> IF p \in dead THEN none ELSE owner[p]]
    /\ fresh' = fresh \ dead
    /\ session' = [u \in Ue |-> IF session[u] \in dead THEN none ELSE session[u]]
    /\ UNCHANGED <<last, works>>

\* stop_ue(): whatever runs under the id in the file.
StopUe(u) == Ends({pidfile[u]} \ {none})

\* launch_ue(): the log is emptied, so no address is known until the process attaches.
LaunchUe(u) ==
    /\ last < MaxPid
    /\ last' = last + 1
    /\ owner' = [owner EXCEPT ![last + 1] = u]
    /\ fresh' = fresh \cup {last + 1}
    /\ pidfile' = [pidfile EXCEPT ![u] = last + 1]
    /\ strikes' = [strikes EXCEPT ![u] = 0]
    /\ session' = [session EXCEPT ![u] = none]
    /\ UNCHANGED <<works, parked>>

Parked(u) == parked /\ u \in Parkable

-----------------------------------------------------------------------------
(* ue-entrypoint.sh *)

Advance(step, u, rest) == sup' = step /\ ue' = u /\ todo' = rest

\* At the start, every UE that is not parked, in batches.
StartUp(u) ==
    /\ sup = "start" /\ u \in todo
    /\ Advance("start", none, todo \ {u})
    /\ IF Parked(u) THEN UNCHANGED <<files, processes>> ELSE LaunchUe(u)
    /\ UNCHANGED <<slicescript, faults>>

\* wait_up, and the sleep between rounds: long enough to attach, unless something is slow.
Round ==
    /\ \/ sup = "start" /\ todo = {}
       \/ sup = "sleep"
    /\ \/ fresh = {} /\ UNCHANGED faults
       \/ fresh # {} /\ Fault
    /\ Advance("look", none, Ue)
    /\ UNCHANGED <<files, processes, slicescript>>

RoundEnds ==
    /\ sup = "look" /\ todo = {}
    /\ Advance("sleep", none, {})
    /\ UNCHANGED <<files, processes, slicescript, faults>>

Look(u) ==
    /\ sup = "look" /\ u \in todo
    /\ IF Parked(u) THEN Advance("look", none, todo \ {u}) ELSE Advance("judge", u, todo \ {u})
    /\ UNCHANGED <<files, processes, slicescript, faults>>

\* A UE found wanting: one strike more, and a restart when there are enough.
Strike(enough) ==
    /\ strikes' = [strikes EXCEPT ![ue] = @ + 1]
    /\ IF enough THEN Advance("stop", ue, todo) ELSE Advance("look", none, todo)
Clear == strikes' = [strikes EXCEPT ![ue] = 0] /\ Advance("look", none, todo)

\* (mutant: an interface will do, no ping)
JudgeByInterface ==
    /\ sup = "judge"
    /\ IF Alive(ue) /\ session[ue] # none THEN Clear ELSE Strike(strikes[ue] + 1 >= CHECK_STRIKES)
    /\ UNCHANGED <<parked, pidfile, processes, slicescript, faults>>

\* The process, its interface and a ping.
Judge ==
    /\ sup = "judge"
    /\ IF Alive(ue) /\ session[ue] # none /\ works[ue] THEN Clear
       ELSE Strike(strikes[ue] + 1 >= CHECK_STRIKES)
    /\ UNCHANGED <<parked, pidfile, processes, slicescript, faults>>

RestartStop ==
    /\ sup = "stop"
    /\ StopUe(ue)
    /\ Advance("launch", ue, todo)
    /\ UNCHANGED <<files, slicescript, faults>>

RestartLaunch ==
    /\ sup = "launch"
    /\ LaunchUe(ue)
    /\ Advance("wait", ue, todo)
    /\ UNCHANGED <<slicescript, faults>>

\* wait_up: it has its interface, has died, or START_WAIT is over, which is long enough
\* to attach unless something is slow.
RestartWait ==
    /\ sup = "wait"
    /\ \/ pidfile[ue] \notin fresh /\ UNCHANGED faults
       \/ pidfile[ue] \in fresh /\ Fault
    /\ Advance("look", none, todo)
    /\ UNCHANGED <<files, processes, slicescript>>

-----------------------------------------------------------------------------
(* ue-slice.sh *)

StepTo(step, rest) == script' = step /\ left' = rest /\ it' = none

\* The slice is put on the list, or taken off it, before anything else.
Begin(op) ==
    /\ script = "idle" /\ scripts < MaxScripts
    /\ scripts' = scripts + 1 /\ swept' = FALSE
    /\ parked' = (op = "park")
    /\ StepTo(op, Parkable)
    /\ UNCHANGED <<pidfile, strikes, processes, supervisor, faults>>

\* nr-cli deregisters one process that goes by the IMSI; then stop_ue.
ParkUe(u) ==
    /\ script = "park" /\ u \in left
    /\ \E asked \in IF Processes(u) = {} THEN {none} ELSE Processes(u) :
          Ends({asked, pidfile[u]} \ {none})
    /\ StepTo("park", left \ {u})
    /\ UNCHANGED <<files, supervisor, swept, scripts, faults>>

\* "A second sweep catches a UE the supervisor was restarting at that moment": it comes 2 s
\* later, and a restart takes a ping, a stop and a launch.
SecondSweep ==
    /\ script = "park" /\ left = {}
    /\ InTime => ~(ue \in Parkable /\ sup \in {"judge", "stop", "launch"})
    /\ StepTo("sweep", Parkable)
    /\ UNCHANGED <<files, processes, supervisor, swept, scripts, faults>>

\* (mutant: the second sweep stops nothing)
SweepNothing(u) ==
    /\ script = "sweep" /\ u \in left
    /\ StepTo("sweep", left \ {u})
    /\ UNCHANGED <<files, processes, supervisor, swept, scripts, faults>>

SweepUe(u) ==
    /\ script = "sweep" /\ u \in left
    /\ StopUe(u)
    /\ StepTo("sweep", left \ {u})
    /\ UNCHANGED <<files, supervisor, swept, scripts, faults>>

UnparkLook(u) ==
    /\ script = "unpark" /\ it = none /\ u \in left
    /\ IF Alive(u) THEN StepTo("unpark", left \ {u})
       ELSE script' = script /\ left' = left \ {u} /\ it' = u
    /\ UNCHANGED <<files, processes, supervisor, swept, scripts, faults>>

UnparkLaunch ==
    /\ script = "unpark" /\ it # none
    /\ LaunchUe(it)
    /\ StepTo("unpark", left)
    /\ UNCHANGED <<supervisor, swept, scripts, faults>>

\* After wait_up, which changes nothing, or after the sweep.
ScriptEnds ==
    /\ script \in {"sweep", "unpark"} /\ left = {} /\ it = none
    /\ StepTo("idle", {})
    /\ swept' = (script = "sweep")
    /\ UNCHANGED <<files, processes, supervisor, scripts, faults>>

-----------------------------------------------------------------------------
(* The UEs and the container *)

\* The network gives the IMSI's session to the process that registers last.
Attach(p) ==
    /\ p \in fresh
    /\ fresh' = fresh \ {p}
    /\ session' = [session EXCEPT ![owner[p]] = p]
    /\ works' = [works EXCEPT ![owner[p]] = TRUE]
    /\ UNCHANGED <<files, owner, last, supervisor, slicescript, faults>>

\* Radio link failure: the session and its interface stay, nothing passes.
LinkFails(u) ==
    /\ session[u] # none /\ works[u]
    /\ works' = [works EXCEPT ![u] = FALSE]
    /\ Fault
    /\ UNCHANGED <<files, owner, last, fresh, session, supervisor, slicescript>>

Dies(p) ==
    /\ owner[p] # none
    /\ Ends({p})
    /\ Fault
    /\ UNCHANGED <<files, supervisor, slicescript>>

\* Every process ends, a script that runs too; the files stay.
ContainerRestart ==
    /\ Fault
    /\ owner' = [p \in Pid |-> none] /\ last' = 0 /\ fresh' = {}
    /\ session' = [u \in Ue |-> none] /\ works' = [u \in Ue |-> FALSE]
    /\ Advance("start", none, Ue)
    /\ StepTo("idle", {})
    /\ UNCHANGED <<files, swept, scripts>>

Init ==
    /\ parked = FALSE
    /\ pidfile = [u \in Ue |-> none] /\ strikes = [u \in Ue |-> 0]
    /\ owner = [p \in Pid |-> none] /\ last = 0 /\ fresh = {}
    /\ session = [u \in Ue |-> none] /\ works = [u \in Ue |-> FALSE]
    /\ sup = "start" /\ ue = none /\ todo = Ue
    /\ script = "idle" /\ left = {} /\ it = none /\ swept = FALSE
    /\ scripts = 0 /\ faults = 0

Supervise ==
    \/ \E u \in Ue : StartUp(u) \/ Look(u)
    \/ Round \/ RoundEnds \/ Judge \/ RestartStop \/ RestartLaunch \/ RestartWait

RunScript ==
    \/ \E u \in Parkable : ParkUe(u) \/ SweepUe(u) \/ UnparkLook(u)
    \/ SecondSweep \/ UnparkLaunch \/ ScriptEnds

Next ==
    \/ Supervise \/ RunScript
    \/ \E op \in {"park", "unpark"} : Begin(op)
    \/ \E p \in Pid : Attach(p) \/ Dies(p)
    \/ \E u \in Ue : LinkFails(u)
    \/ ContainerRestart

\* The shell loops go on, and a UE that was launched attaches.
Fairness ==
    /\ WF_vars(Supervise) /\ WF_vars(RunScript)
    /\ \A p \in Pid : WF_vars(Attach(p))

Spec == Init /\ [][Next]_vars /\ Fairness

-----------------------------------------------------------------------------
(* Properties *)

\* The state is well-typed; what is fresh runs, and what holds a session runs.
TypeOK ==
    /\ parked \in BOOLEAN /\ swept \in BOOLEAN
    /\ pidfile \in [Ue -> Pid \cup {none}]
    /\ strikes \in [Ue -> 0 .. CHECK_STRIKES + MaxFaults]
    /\ owner \in [Pid -> Ue \cup {none}] /\ last \in 0 .. MaxPid
    /\ fresh \subseteq {p \in 1 .. last : owner[p] # none}
    /\ session \in [Ue -> Pid \cup {none}] /\ works \in [Ue -> BOOLEAN]
    /\ \A u \in Ue : session[u] # none => owner[session[u]] = u
    /\ sup \in {"start", "look", "judge", "stop", "launch", "wait", "sleep"}
    /\ ue \in Ue \cup {none} /\ todo \subseteq Ue
    /\ script \in {"idle", "park", "sweep", "unpark"}
    /\ left \subseteq Parkable /\ it \in Parkable \cup {none}
    /\ scripts \in 0 .. MaxScripts /\ faults \in 0 .. MaxFaults

\* Once a park has finished, no UE of the slice runs under the id on record, whatever the
\* supervisor was doing meanwhile and across restarts of the container.
ParkedStaysDown ==
    (parked /\ swept) => \A u \in Parkable : pidfile[u] # none => owner[pidfile[u]] # u

\* A UE that is not parked passes traffic again and again, whatever it was that failed.
UesComeBack ==
    \A u \in Ue : []<>(Parked(u) \/ (session[u] # none /\ works[u]))

\* ue-entrypoint.sh:21: "restarted on its own — every other UE is untouched".
OthersUntouched ==
    [][(sup = "stop" /\ sup' = "launch") =>
          \A p \in Pid : owner[p] \in Ue \ {ue} => owner'[p] = owner[p]]_vars
=============================================================================

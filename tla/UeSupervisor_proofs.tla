--------------------------- MODULE UeSupervisor_proofs ---------------------------
(* That a parked UE stays down, for any number of UEs, scripts, launches and     *)
(* failures, whatever the supervisor is doing: provided that a restart under way *)
(* is over by the second sweep.                                                  *)
EXTENDS UeSupervisor, TLAPS

-----------------------------------------------------------------------------
(* The invariant *)

\* No id runs that was not handed out since the container started.
Unused == \A p \in Pid : p > last => owner[p] = none

\* The supervisor has a UE at hand when a step is about one.
AtHand == sup \in {"judge", "stop", "launch", "wait"} => ue \in Ue

\* Strikes go beyond CHECK_STRIKES only while the UE is being restarted: a failure that
\* cuts the restart short leaves them there.
StrikesBounded ==
    \A u \in Ue : \/ strikes[u] < CHECK_STRIKES + faults
                  \/ /\ sup \in {"stop", "launch"} /\ ue = u
                     /\ strikes[u] <= CHECK_STRIKES + faults

\* The slice is on the list from before the first kill, and as long as a finished park counts.
OnTheList ==
    /\ script \in {"park", "sweep"} => parked
    /\ swept => parked /\ script = "idle" /\ left = {}

\* From the second sweep on the supervisor has no UE of the slice in its hands, and those
\* swept are down.
SweptIsDown ==
    script = "sweep" \/ swept =>
        /\ ~(ue \in Parkable /\ sup \in {"judge", "stop", "launch"})
        /\ \A u \in Parkable \ left : pidfile[u] # none => owner[pidfile[u]] # u

IInv ==
    /\ TypeOK /\ faults \in Nat
    /\ Unused /\ AtHand /\ StrikesBounded /\ OnTheList

-----------------------------------------------------------------------------
(* Processes that end, and one that starts *)

\* What the processes' state is like.
ProcessesOK ==
    /\ owner \in [Pid -> Ue \cup {none}] /\ last \in 0 .. MaxPid
    /\ fresh \subseteq {p \in 1 .. last : owner[p] # none}
    /\ session \in [Ue -> Pid \cup {none}] /\ works \in [Ue -> BOOLEAN]
    /\ \A u \in Ue : session[u] # none => owner[session[u]] = u
    /\ Unused

LEMMA Distinct == none \notin Ue /\ none \notin Pid /\ Pid \subseteq Nat /\ Parkable \subseteq Ue
                  /\ CHECK_STRIKES \in Nat \ {0} /\ MaxPid \in Nat /\ MaxFaults \in Nat
                  /\ MaxScripts \in Nat
  BY UeAssumption DEF Pid

LEMMA EndsKeeps ==
    ASSUME ProcessesOK, NEW dead, Ends(dead)
    PROVE  /\ ProcessesOK'
           /\ \A p \in Pid : owner'[p] = owner[p] \/ owner'[p] = none
           /\ \A p \in Pid \cap dead : owner'[p] = none
<1>1. owner' \in [Pid -> Ue \cup {none}] /\ last' = last /\ works' = works
  BY DEF Ends, ProcessesOK
<1>2. \A p \in Pid : owner'[p] = IF p \in dead THEN none ELSE owner[p]
  BY DEF Ends
<1>3. fresh' \subseteq {p \in 1 .. last' : owner'[p] # none}
  <2> SUFFICES ASSUME NEW p \in fresh' PROVE p \in 1 .. last' /\ owner'[p] # none
    OBVIOUS
  <2>1. p \in fresh /\ p \notin dead
    BY DEF Ends
  <2>2. p \in 1 .. last /\ owner[p] # none
    BY <2>1 DEF ProcessesOK
  <2>3. p \in Pid
    BY <2>2, Distinct DEF ProcessesOK, Pid
  <2> QED
    BY <1>1, <1>2, <2>1, <2>2, <2>3
<1>4. /\ session' \in [Ue -> Pid \cup {none}]
      /\ \A u \in Ue : session'[u] = IF session[u] \in dead THEN none ELSE session[u]
  BY DEF Ends, ProcessesOK
<1>5. \A u \in Ue : session'[u] # none => owner'[session'[u]] = u
  BY <1>2, <1>4, Distinct DEF ProcessesOK
<1>6. Unused'
  BY <1>1, <1>2 DEF ProcessesOK, Unused
<1> QED
  BY <1>1, <1>2, <1>3, <1>4, <1>5, <1>6 DEF ProcessesOK

LEMMA LaunchKeeps ==
    ASSUME ProcessesOK, NEW u \in Ue, LaunchUe(u), pidfile \in [Ue -> Pid \cup {none}],
           strikes \in [Ue -> Nat]
    PROVE  /\ ProcessesOK' /\ pidfile' \in [Ue -> Pid \cup {none}]
           /\ last + 1 \in Pid /\ owner'[last + 1] = u
           /\ \A p \in Pid : p # last + 1 => owner'[p] = owner[p]
           /\ \A v \in Ue : v # u => pidfile'[v] = pidfile[v]
           /\ strikes' \in [Ue -> Nat] /\ strikes'[u] = 0
           /\ \A v \in Ue : v # u => strikes'[v] = strikes[v]
           /\ parked' = parked
<1>1. last + 1 \in Pid /\ last' = last + 1 /\ last' \in 0 .. MaxPid
  BY Distinct DEF LaunchUe, ProcessesOK, Pid
<1>2. /\ owner' \in [Pid -> Ue \cup {none}] /\ owner'[last + 1] = u
      /\ \A p \in Pid : p # last + 1 => owner'[p] = owner[p]
  BY <1>1 DEF LaunchUe, ProcessesOK
<1>3. fresh' \subseteq {p \in 1 .. last' : owner'[p] # none}
  BY <1>1, <1>2, Distinct DEF LaunchUe, ProcessesOK, Pid
<1>4. /\ session' \in [Ue -> Pid \cup {none}]
      /\ session'[u] = none /\ \A v \in Ue : v # u => session'[v] = session[v]
  BY DEF LaunchUe, ProcessesOK
<1>5. \A v \in Ue : session'[v] # none => owner'[session'[v]] = v
  <2> SUFFICES ASSUME NEW v \in Ue, session'[v] # none PROVE owner'[session'[v]] = v
    OBVIOUS
  <2>1. v # u /\ session'[v] = session[v] /\ session[v] \in Pid /\ owner[session[v]] = v
    BY <1>4 DEF ProcessesOK
  <2>2. session[v] # last + 1
    BY <1>1, <2>1, Distinct DEF ProcessesOK, Unused
  <2> QED
    BY <1>2, <2>1, <2>2
<1>6. Unused'
  BY <1>1, <1>2, Distinct DEF ProcessesOK, Unused
<1>7. works' = works
  BY DEF LaunchUe
<1>8. ProcessesOK'
  BY <1>1, <1>2, <1>3, <1>4, <1>5, <1>6, <1>7 DEF ProcessesOK
<1> QED
  BY <1>1, <1>2, <1>8 DEF LaunchUe

\* What is left of the invariant when the processes have their shape.
ShapeOK ==
    /\ parked \in BOOLEAN /\ swept \in BOOLEAN
    /\ pidfile \in [Ue -> Pid \cup {none}]
    /\ strikes \in [Ue -> Nat]
    /\ sup \in {"start", "look", "judge", "stop", "launch", "wait", "sleep"}
    /\ ue \in Ue \cup {none} /\ todo \subseteq Ue
    /\ script \in {"idle", "park", "sweep", "unpark"}
    /\ left \subseteq Parkable /\ it \in Parkable \cup {none}
    /\ scripts \in 0 .. MaxScripts /\ faults \in 0 .. MaxFaults
    /\ AtHand /\ StrikesBounded /\ OnTheList

LEMMA Together == IInv <=> ProcessesOK /\ ShapeOK
<1>1. ProcessesOK /\ ShapeOK => strikes \in [Ue -> 0 .. CHECK_STRIKES + MaxFaults]
  BY Distinct DEF ShapeOK, StrikesBounded
<1> QED
  BY <1>1, Distinct DEF IInv, TypeOK, ProcessesOK, ShapeOK

LEMMA FaultCounts ==
    ASSUME faults \in 0 .. MaxFaults, UNCHANGED faults \/ Fault
    PROVE  faults' \in 0 .. MaxFaults /\ faults' >= faults
  BY Distinct DEF Fault

\* More failures allow for more strikes.
LEMMA StrikesStay ==
    ASSUME ShapeOK, UNCHANGED <<strikes, sup, ue>> \/ (strikes' = strikes /\ sup \notin {"stop", "launch"}),
           UNCHANGED faults \/ Fault
    PROVE  StrikesBounded'
  BY Distinct DEF ShapeOK, StrikesBounded, Fault

-----------------------------------------------------------------------------
(* Every step keeps the invariant *)

LEMMA SupervisorLooks ==
    ASSUME IInv, Round \/ RoundEnds \/ (\E u \in Ue : Look(u)) \/ Judge \/ RestartWait
    PROVE  IInv'
<1>1. ProcessesOK /\ ShapeOK
  BY Together
<1>2. ProcessesOK' /\ UNCHANGED <<parked, pidfile, slicescript>> /\ (UNCHANGED faults \/ Fault)
  <2>1. UNCHANGED processes /\ UNCHANGED <<parked, pidfile>> /\ UNCHANGED slicescript
        /\ (UNCHANGED faults \/ Fault)
    <3>1. ASSUME Round \/ RestartWait
          PROVE  UNCHANGED files /\ UNCHANGED processes /\ UNCHANGED slicescript
                 /\ (UNCHANGED faults \/ Fault)
      BY <3>1, Zenon DEF Round, RestartWait
    <3>2. ASSUME RoundEnds \/ \E u \in Ue : Look(u)
          PROVE  UNCHANGED files /\ UNCHANGED processes /\ UNCHANGED slicescript /\ UNCHANGED faults
      BY <3>2, Zenon DEF RoundEnds, Look
    <3>3. ASSUME Judge
          PROVE  UNCHANGED parked /\ UNCHANGED pidfile /\ UNCHANGED processes /\ UNCHANGED slicescript
                 /\ UNCHANGED faults
      BY <3>3 DEF Judge
    <3> QED
      BY <3>1, <3>2, <3>3 DEF files
  <2>2. ProcessesOK'
    BY <1>1, <2>1 DEF ProcessesOK, Unused, processes
  <2> QED
    BY <2>1, <2>2
<1>3. /\ sup' \in {"start", "look", "judge", "stop", "launch", "wait", "sleep"}
      /\ ue' \in Ue \cup {none} /\ todo' \subseteq Ue /\ AtHand'
  BY <1>1 DEF ShapeOK, AtHand, Round, RoundEnds, Look, Judge, RestartWait, Advance, Strike, Clear
<1>4. faults' \in 0 .. MaxFaults
  BY <1>1, <1>2, FaultCounts DEF ShapeOK
<1>5. strikes' \in [Ue -> Nat] /\ StrikesBounded'
  <2>1. CASE Round \/ RoundEnds \/ (\E u \in Ue : Look(u)) \/ RestartWait
    <3>1. strikes' = strikes /\ sup \notin {"stop", "launch"}
      BY <2>1 DEF Round, RoundEnds, Look, RestartWait, files
    <3> QED
      BY <1>1, <1>2, <3>1, StrikesStay DEF ShapeOK
  <2>2. CASE Judge
    <3>1. sup = "judge" /\ ue \in Ue /\ strikes[ue] \in Nat /\ strikes[ue] < CHECK_STRIKES + faults
          /\ faults' = faults /\ faults \in Nat
      BY <1>1, <2>2, Distinct DEF Judge, ShapeOK, AtHand, StrikesBounded
    <3>2. CASE strikes' = [strikes EXCEPT ![ue] = 0]
      BY <1>1, <3>1, <3>2, Distinct DEF ShapeOK, StrikesBounded
    <3>3. CASE Strike(strikes[ue] + 1 >= CHECK_STRIKES)
      <4>1. strikes' = [strikes EXCEPT ![ue] = strikes[ue] + 1]
        BY <3>3 DEF Strike
      <4>2. strikes' \in [Ue -> Nat] /\ strikes'[ue] = strikes[ue] + 1
            /\ \A v \in Ue : v # ue => strikes'[v] = strikes[v]
        BY <1>1, <3>1, <4>1 DEF ShapeOK
      <4>3. strikes[ue] + 1 >= CHECK_STRIKES => sup' = "stop" /\ ue' = ue
        BY <3>3 DEF Strike, Advance
      <4>4. \A v \in Ue : v # ue => strikes[v] < CHECK_STRIKES + faults
        BY <1>1, <3>1 DEF ShapeOK, StrikesBounded
      <4> QED
        BY <3>1, <4>2, <4>3, <4>4, Distinct DEF StrikesBounded
    <3> QED
      BY <2>2, <3>2, <3>3 DEF Judge, Clear
  <2> QED
    BY <2>1, <2>2
<1>6. OnTheList'
  BY <1>1, <1>2 DEF ShapeOK, OnTheList, slicescript
<1>7. ShapeOK'
  BY <1>1, <1>2, <1>3, <1>4, <1>5, <1>6 DEF ShapeOK, slicescript
<1> QED
  BY <1>2, <1>7, Together, PTL

LEMMA ScriptLooks ==
    ASSUME IInv, \/ \E op \in {"park", "unpark"} : Begin(op)
                 \/ SecondSweep \/ ScriptEnds
                 \/ \E u \in Parkable : UnparkLook(u)
    PROVE  IInv'
<1>1. ProcessesOK /\ ShapeOK
  BY Together
<1>2. /\ ProcessesOK'
      /\ UNCHANGED <<pidfile, strikes, sup, ue, todo, faults>>
  BY <1>1 DEF ProcessesOK, Unused, processes, files, supervisor, Begin, SecondSweep, ScriptEnds, UnparkLook
<1>3. /\ parked' \in BOOLEAN /\ swept' \in BOOLEAN
      /\ script' \in {"idle", "park", "sweep", "unpark"}
      /\ left' \subseteq Parkable /\ it' \in Parkable \cup {none}
  BY <1>1 DEF ShapeOK, Begin, SecondSweep, ScriptEnds, UnparkLook, StepTo, files
<1>4. scripts' \in 0 .. MaxScripts
  <2>1. scripts \in 0 .. MaxScripts /\ MaxScripts \in Nat
    BY <1>1, Distinct DEF ShapeOK
  <2>2. scripts' = scripts \/ (scripts < MaxScripts /\ scripts' = scripts + 1)
    BY DEF Begin, SecondSweep, ScriptEnds, UnparkLook
  <2> QED
    BY <2>1, <2>2
<1>5. OnTheList'
  <2>1. CASE \E op \in {"park", "unpark"} : Begin(op)
    <3>1. PICK op \in {"park", "unpark"} : script' = op /\ swept' = FALSE /\ (parked' <=> op = "park")
      BY <2>1, Zenon DEF Begin, StepTo
    <3> QED
      BY <3>1 DEF OnTheList
  <2>2. CASE SecondSweep \/ \E u \in Parkable : UnparkLook(u)
    <3>1. script \in {"park", "unpark"} /\ script' \in {script, "sweep"} /\ UNCHANGED <<parked, swept>>
          /\ (script = "unpark" => script' = "unpark")
      BY <2>2 DEF SecondSweep, UnparkLook, StepTo, files
    <3> QED
      BY <1>1, <3>1 DEF ShapeOK, OnTheList
  <2>3. CASE ScriptEnds
    <3>1. script' = "idle" /\ left' = {} /\ parked' = parked /\ (swept' <=> script = "sweep")
      BY <2>3 DEF ScriptEnds, StepTo, files
    <3> QED
      BY <1>1, <3>1 DEF ShapeOK, OnTheList
  <2> QED
    BY <2>1, <2>2, <2>3
<1>6. AtHand' /\ StrikesBounded'
  BY <1>1, <1>2, StrikesStay DEF ShapeOK, AtHand
<1>7. ShapeOK'
  BY <1>1, <1>2, <1>3, <1>4, <1>5, <1>6 DEF ShapeOK
<1> QED
  BY <1>2, <1>7, Together, PTL

LEMMA Stops ==
    ASSUME IInv, \/ RestartStop \/ (\E p \in Pid : Dies(p))
                 \/ \E u \in Parkable : ParkUe(u) \/ SweepUe(u)
    PROVE  IInv'
<1>1. ProcessesOK /\ ShapeOK
  BY Together
<1>2. PICK dead : Ends(dead)
  BY DEF RestartStop, Dies, ParkUe, SweepUe, StopUe
<1>3. ProcessesOK'
  BY <1>1, <1>2, EndsKeeps
<1>4. UNCHANGED <<parked, pidfile, strikes, swept, scripts>> /\ (UNCHANGED faults \/ Fault)
  BY DEF RestartStop, Dies, ParkUe, SweepUe, files, slicescript
<1>5. /\ sup' \in {"start", "look", "judge", "stop", "launch", "wait", "sleep"}
      /\ ue' = ue /\ todo' = todo /\ AtHand'
  BY <1>1 DEF ShapeOK, AtHand, RestartStop, Dies, ParkUe, SweepUe, Advance, supervisor
<1>6. /\ script' = script /\ left' \subseteq left /\ it' \in {it, none}
  BY DEF RestartStop, Dies, ParkUe, SweepUe, slicescript, StepTo
<1>7. StrikesBounded'
  <2>1. CASE RestartStop
    BY <1>1, <1>4, <2>1 DEF ShapeOK, StrikesBounded, RestartStop, Advance
  <2>2. CASE (\E p \in Pid : Dies(p)) \/ (\E u \in Parkable : ParkUe(u) \/ SweepUe(u))
    <3>1. UNCHANGED <<strikes, sup, ue>>
      BY <2>2 DEF Dies, ParkUe, SweepUe, supervisor, files
    <3> QED
      BY <1>1, <1>4, <3>1, StrikesStay
  <2> QED
    BY <2>1, <2>2
<1>8. ShapeOK'
  BY <1>1, <1>4, <1>5, <1>6, <1>7, FaultCounts DEF ShapeOK, OnTheList
<1> QED
  BY <1>3, <1>8, Together, PTL

LEMMA Launches ==
    ASSUME IInv, (\E u \in Ue : StartUp(u)) \/ RestartLaunch \/ UnparkLaunch
    PROVE  IInv'
<1>1. ProcessesOK /\ ShapeOK
  BY Together
<1>2. CASE \E u \in Ue : StartUp(u) /\ Parked(u)
  <2>1. /\ ProcessesOK' /\ UNCHANGED <<parked, pidfile, strikes, faults, slicescript>>
        /\ sup = "start" /\ sup' = "start" /\ ue' = none /\ todo' \subseteq todo
    BY <1>1, <1>2 DEF StartUp, Advance, files, processes, ProcessesOK, Unused
  <2>2. ShapeOK'
    BY <1>1, <2>1, StrikesStay DEF ShapeOK, AtHand, OnTheList, slicescript
  <2> QED
    BY <2>1, <2>2, Together, PTL
<1>3. CASE (\E u \in Ue : StartUp(u) /\ ~Parked(u)) \/ RestartLaunch \/ UnparkLaunch
  <2>1. PICK u \in Ue :
            /\ LaunchUe(u)
            /\ sup \in {"stop", "launch"} => ue = u \/ UNCHANGED <<sup, ue>>
            /\ RestartLaunch => u = ue
    BY <1>1, <1>3, Distinct DEF StartUp, RestartLaunch, UnparkLaunch, ShapeOK, AtHand, supervisor
  <2>2. /\ ProcessesOK' /\ pidfile' \in [Ue -> Pid \cup {none}] /\ parked' = parked
        /\ strikes' \in [Ue -> Nat] /\ strikes'[u] = 0
        /\ \A v \in Ue : v # u => strikes'[v] = strikes[v]
    BY <1>1, <2>1, LaunchKeeps DEF ShapeOK
  <2>3. /\ sup' \in {"start", "look", "judge", "stop", "launch", "wait", "sleep"}
        /\ ue' \in Ue \cup {none} /\ todo' \subseteq Ue /\ AtHand'
        /\ faults' = faults /\ swept' = swept /\ scripts' = scripts
        /\ script' = script /\ it' \in {it, none} /\ left' = left
    BY <1>1, <1>3 DEF ShapeOK, AtHand, StartUp, RestartLaunch, UnparkLaunch, Advance, supervisor,
       slicescript, StepTo
  <2>4. \/ sup \notin {"stop", "launch"}
        \/ UNCHANGED <<sup, ue>>
        \/ ue = u
    BY <1>3, <2>1
  <2>5. StrikesBounded'
    BY <1>1, <2>2, <2>3, <2>4, Distinct DEF ShapeOK, StrikesBounded
  <2>6. ShapeOK'
    BY <1>1, <2>2, <2>3, <2>5 DEF ShapeOK, OnTheList
  <2> QED
    BY <2>2, <2>6, Together, PTL
<1> QED
  BY <1>2, <1>3

LEMMA NetworkKeeps ==
    ASSUME IInv, (\E p \in Pid : Attach(p)) \/ (\E u \in Ue : LinkFails(u)) \/ ContainerRestart
    PROVE  IInv'
<1>1. ProcessesOK /\ ShapeOK
  BY Together
<1>2. CASE \E p \in Pid : Attach(p)
  <2>1. PICK p \in Pid : Attach(p)
    BY <1>2
  <2>2. owner[p] \in Ue
    BY <1>1, <2>1, Distinct DEF Attach, ProcessesOK
  <2>3. session' \in [Ue -> Pid \cup {none}] /\ works' \in [Ue -> BOOLEAN]
    <3>1. works' = [works EXCEPT ![owner[p]] = TRUE] /\ works \in [Ue -> BOOLEAN]
      BY <1>1, <2>1 DEF Attach, ProcessesOK
    <3>2. works' \in [Ue -> BOOLEAN]
      BY <3>1, Zenon
    <3> QED
      BY <1>1, <2>1, <2>2, <3>2 DEF Attach, ProcessesOK
  <2>4. \A v \in Ue : session'[v] # none => owner'[session'[v]] = v
    BY <1>1, <2>1, <2>2 DEF Attach, ProcessesOK
  <2>5. fresh' \subseteq fresh /\ owner' = owner /\ last' = last
    BY <2>1 DEF Attach
  <2>6. ProcessesOK'
    BY <1>1, <2>3, <2>4, <2>5 DEF ProcessesOK, Unused
  <2>7. ShapeOK'
    BY <1>1, <2>1, StrikesStay DEF Attach, files, supervisor, slicescript, ShapeOK, AtHand, OnTheList
  <2> QED
    BY <2>6, <2>7, Together, PTL
<1>3. CASE \E u \in Ue : LinkFails(u)
  <2>1. PICK u \in Ue : LinkFails(u)
    BY <1>3
  <2>2. works' \in [Ue -> BOOLEAN]
    <3>1. works' = [works EXCEPT ![u] = FALSE] /\ works \in [Ue -> BOOLEAN]
      BY <1>1, <2>1 DEF LinkFails, ProcessesOK
    <3> QED
      BY <3>1, Zenon
  <2>3. ProcessesOK'
    BY <1>1, <2>1, <2>2 DEF LinkFails, ProcessesOK, Unused
  <2>4. ShapeOK'
    BY <1>1, <2>1, StrikesStay, FaultCounts DEF LinkFails, files, supervisor, slicescript, ShapeOK,
       AtHand, OnTheList
  <2> QED
    BY <2>3, <2>4, Together, PTL
<1>4. CASE ContainerRestart
  <2>1. ProcessesOK'
    BY <1>4, Distinct DEF ContainerRestart, ProcessesOK, Unused
  <2>2. Fault /\ UNCHANGED <<parked, pidfile, strikes, swept, scripts>>
        /\ sup' = "start" /\ ue' = none /\ todo' = Ue /\ script' = "idle" /\ left' = {} /\ it' = none
    BY <1>4 DEF ContainerRestart, Advance, StepTo, files
  <2>3. faults' \in 0 .. MaxFaults /\ StrikesBounded'
    BY <1>1, <2>2, Distinct DEF ShapeOK, StrikesBounded, Fault
  <2>4. ShapeOK'
    BY <1>1, <2>2, <2>3 DEF ShapeOK, AtHand, OnTheList
  <2> QED
    BY <2>1, <2>4, Together, PTL
<1> QED
  BY <1>2, <1>3, <1>4

\* The invariant holds throughout, with or without a park that is in time.
THEOREM Invariance == Spec => []IInv
<1>1. Init => IInv
  <2> SUFFICES ASSUME Init PROVE ProcessesOK /\ ShapeOK
    BY Together
  <2>1. ProcessesOK
    BY Distinct DEF Init, ProcessesOK, Unused
  <2>2. ShapeOK
    <3>1. StrikesBounded /\ AtHand /\ OnTheList
      BY Distinct DEF Init, StrikesBounded, AtHand, OnTheList
    <3>2. scripts \in 0 .. MaxScripts /\ faults \in 0 .. MaxFaults
      BY Distinct DEF Init
    <3> QED
      BY <3>1, <3>2 DEF Init, ShapeOK
  <2> QED
    BY <2>1, <2>2
<1>2. IInv /\ [Next]_vars => IInv'
  <2> SUFFICES ASSUME IInv, [Next]_vars PROVE IInv'
    OBVIOUS
  <2>1. CASE UNCHANGED vars
    BY <2>1 DEF vars, IInv, TypeOK, Unused, AtHand, StrikesBounded, OnTheList
  <2>2. CASE Supervise \/ RunScript
    BY <2>2, SupervisorLooks, ScriptLooks, Stops, Launches DEF Supervise, RunScript
  <2>3. CASE Next
    BY <2>2, <2>3, ScriptLooks, Stops, NetworkKeeps DEF Next
  <2> QED
    BY <2>1, <2>3
<1> QED
  BY <1>1, <1>2, PTL DEF Spec

\* The state of container, supervisor and script is well-typed; what holds a session runs,
\* under the id it was given, whatever was stopped, launched or cut short.
THEOREM TypeCorrect == Spec => []TypeOK
<1>1. IInv => TypeOK
  BY DEF IInv
<1> QED
  BY <1>1, Invariance, PTL

-----------------------------------------------------------------------------
(* A parked UE stays down *)

\* Only the supervisor, or an unpark, launches.
LEMMA SweptKeeps ==
    ASSUME InTime, IInv, SweptIsDown, Next
    PROVE  SweptIsDown'
<1> SUFFICES ASSUME script' = "sweep" \/ swept'
             PROVE  /\ ~(ue' \in Parkable /\ sup' \in {"judge", "stop", "launch"})
                    /\ \A u \in Parkable \ left' : pidfile'[u] # none => owner'[pidfile'[u]] # u
  BY DEF SweptIsDown
<1>1. ProcessesOK /\ ShapeOK
  BY Together
<1>2. CASE SecondSweep
  <2>1. left' = Parkable /\ UNCHANGED <<sup, ue>> /\ ~(ue \in Parkable /\ sup \in {"judge", "stop", "launch"})
    BY <1>2 DEF SecondSweep, StepTo, supervisor
  <2> QED
    BY <2>1
<1>3. CASE (\E op \in {"park", "unpark"} : Begin(op)) \/ UnparkLaunch
           \/ \E u \in Parkable : ParkUe(u) \/ UnparkLook(u)
  BY <1>1, <1>3 DEF Begin, UnparkLaunch, ParkUe, UnparkLook, StepTo, ShapeOK, OnTheList
<1> DEFINE Already == script = "sweep" \/ swept
<1>4. ASSUME ~SecondSweep, ~(\E op \in {"park", "unpark"} : Begin(op)), ~UnparkLaunch,
             ~(\E u \in Parkable : ParkUe(u) \/ UnparkLook(u))
      PROVE  Already /\ parked
  <2>1. CASE \/ Supervise \/ (\E p \in Pid : Attach(p) \/ Dies(p)) \/ (\E u \in Ue : LinkFails(u))
    <3>1. script' = script /\ swept' = swept
      BY <2>1 DEF Supervise, StartUp, Look, Round, RoundEnds, Judge, RestartStop, RestartLaunch,
         RestartWait, Attach, Dies, LinkFails, slicescript
    <3> QED
      BY <1>1, <3>1 DEF ShapeOK, OnTheList
  <2>2. CASE ContainerRestart
    BY <1>1, <2>2 DEF ContainerRestart, StepTo, ShapeOK, OnTheList
  <2>3. CASE (\E u \in Parkable : SweepUe(u))
    BY <1>1, <2>3 DEF SweepUe, ShapeOK, OnTheList
  <2>4. CASE ScriptEnds
    <3>1. script' = "idle" /\ (swept' <=> script = "sweep")
      BY <2>4 DEF ScriptEnds, StepTo
    <3> QED
      BY <1>1, <3>1 DEF ShapeOK, OnTheList
  <2> QED
    BY <1>4, <2>1, <2>2, <2>3, <2>4 DEF Next, RunScript
<1>5. ASSUME Already, parked, \/ Supervise \/ (\E u \in Parkable : SweepUe(u)) \/ ScriptEnds
                              \/ (\E p \in Pid : Attach(p) \/ Dies(p)) \/ (\E u \in Ue : LinkFails(u))
                              \/ ContainerRestart
      PROVE  ~(ue' \in Parkable /\ sup' \in {"judge", "stop", "launch"})
  BY <1>1, <1>5, Distinct DEF SweptIsDown, Supervise, StartUp, Look, Round, RoundEnds, Judge,
     RestartStop, RestartLaunch, RestartWait, SweepUe, ScriptEnds, Attach, Dies, LinkFails,
     ContainerRestart, Advance, Strike, Clear, supervisor, Parked
<1>6. ASSUME Already, parked, \/ Supervise \/ (\E u \in Parkable : SweepUe(u)) \/ ScriptEnds
                              \/ (\E p \in Pid : Attach(p) \/ Dies(p)) \/ (\E u \in Ue : LinkFails(u))
                              \/ ContainerRestart,
             NEW u \in Parkable \ left', pidfile'[u] # none
      PROVE  owner'[pidfile'[u]] # u
  <2>1. CASE Round \/ RoundEnds \/ (\E v \in Ue : Look(v) \/ (StartUp(v) /\ Parked(v))) \/ Judge \/ RestartWait
             \/ (\E p \in Pid : Attach(p)) \/ (\E v \in Ue : LinkFails(v))
    <3>1. UNCHANGED <<pidfile, owner, left>>
      BY <2>1 DEF Round, RoundEnds, Look, StartUp, Judge, RestartWait, Attach, LinkFails, files,
         processes, slicescript
    <3> QED
      BY <1>6, <3>1 DEF SweptIsDown
  <2>2. CASE ScriptEnds
    BY <1>1, <1>6, <2>2 DEF SweptIsDown, ScriptEnds, StepTo, files, processes, ShapeOK, OnTheList
  <2>3. CASE RestartStop \/ \E p \in Pid : Dies(p)
    <3>1. PICK dead : Ends(dead)
      BY <2>3 DEF RestartStop, Dies, StopUe
    <3>2. UNCHANGED <<pidfile, left>>
      BY <2>3 DEF RestartStop, Dies, files, slicescript
    <3>3. pidfile[u] \in Pid /\ owner[pidfile[u]] # u
      BY <1>1, <1>6, <3>2, Distinct DEF SweptIsDown, ShapeOK
    <3> QED
      BY <1>1, <3>1, <3>2, <3>3, EndsKeeps, Distinct
  <2>4. CASE \E v \in Parkable : SweepUe(v)
    <3>1. PICK v \in Parkable : SweepUe(v)
      BY <2>4
    <3>2. Ends({pidfile[v]} \ {none}) /\ pidfile' = pidfile /\ left' = left \ {v}
      BY <3>1 DEF SweepUe, StopUe, StepTo, files
    <3>3. pidfile[u] \in Pid /\ (u # v => owner[pidfile[u]] # u)
      BY <1>1, <1>6, <3>2, Distinct DEF SweptIsDown, ShapeOK
    <3>4. /\ \A p \in Pid : owner'[p] = owner[p] \/ owner'[p] = none
          /\ \A p \in Pid \cap ({pidfile[v]} \ {none}) : owner'[p] = none
      BY <1>1, <3>2, EndsKeeps
    <3>5. CASE u = v
      BY <3>2, <3>3, <3>4, <3>5, Distinct
    <3>6. CASE u # v
      BY <3>2, <3>3, <3>4, <3>6, Distinct
    <3> QED
      BY <3>5, <3>6
  <2>5. CASE RestartLaunch \/ \E v \in Ue : StartUp(v) /\ ~Parked(v)
    <3>1. PICK v \in Ue \ Parkable : LaunchUe(v)
      BY <1>1, <1>6, <2>5 DEF SweptIsDown, RestartLaunch, StartUp, Parked, ShapeOK, AtHand
    <3>2. left' = left
      BY <2>5 DEF RestartLaunch, StartUp, slicescript
    <3>3. /\ last + 1 \in Pid /\ owner'[last + 1] = v /\ pidfile'[u] = pidfile[u]
          /\ \A p \in Pid : p # last + 1 => owner'[p] = owner[p]
      BY <1>1, <3>1, LaunchKeeps, Distinct DEF ShapeOK
    <3>4. pidfile[u] \in Pid /\ owner[pidfile[u]] # u
      BY <1>1, <1>6, <3>2, <3>3, Distinct DEF SweptIsDown, ShapeOK
    <3> QED
      BY <3>1, <3>3, <3>4
  <2>6. CASE ContainerRestart
    <3>1. u \in Ue /\ pidfile'[u] \in Pid
      BY <1>1, <1>6, <2>6, Distinct DEF ContainerRestart, files, ShapeOK
    <3>2. owner'[pidfile'[u]] = none
      BY <2>6, <3>1 DEF ContainerRestart
    <3> QED
      BY <3>1, <3>2, Distinct
  <2> QED
    BY <1>6, <2>1, <2>2, <2>3, <2>4, <2>5, <2>6 DEF Supervise
<1> QED
  BY <1>2, <1>3, <1>4, <1>5, <1>6 DEF Next, RunScript

\* A park that finished has taken its slice's UEs down, and nothing starts them again before
\* the unpark: not the supervisor, not a restart of the container, not an id used again.
THEOREM ParkedTheorem ==
    ASSUME InTime
    PROVE  Spec => []ParkedStaysDown
<1>1. Init => SweptIsDown
  BY DEF Init, SweptIsDown
<1>2. IInv /\ SweptIsDown /\ [Next]_vars => SweptIsDown'
  <2>1. UNCHANGED vars /\ SweptIsDown => SweptIsDown'
    BY DEF vars, SweptIsDown
  <2> QED
    BY <2>1, SweptKeeps
<1>3. IInv /\ SweptIsDown => ParkedStaysDown
  BY DEF IInv, OnTheList, SweptIsDown, ParkedStaysDown
<1> QED
  BY <1>1, <1>2, <1>3, Invariance, PTL DEF Spec
=============================================================================

-------------------------- MODULE SliceLifecycle_proofs --------------------------
(* What holds of the network orchestrator for any slices, and any number of  *)
(* demands, operations by hand, setbacks and faults: what an operation       *)
(* reports is so, a rollback restores, and every step is one of the abstract *)
(* service's.                                                                *)
EXTENDS SliceLifecycle, TLAPS

Activating == op # NoOp /\ op.kind = "activate"
Deactivating == op # NoOp /\ op.kind = "deactivate"

\* What an activation has found running or started stays so but for what is stopped by hand:
\* Docker starts again what exits, nobody else touches the parked list.
OnTheWayUp ==
    Activating =>
        /\ op.at \in NF \cup {"ues", "path", "admit", "rollback", "repark", "undo"} \cup Result
        /\ op.at \in {"dn", "gnb", "ues", "path", "admit"} => "upf" \in nfs[op.slice] \cup op.byhand
        /\ op.at \in {"gnb", "ues", "path", "admit"} => "dn" \in nfs[op.slice] \cup op.byhand
        /\ op.at \in {"ues", "path", "admit"} => "gnb" \in nfs[op.slice] \cup op.byhand
        /\ op.at \in NF => op.before \subseteq nfs[op.slice] \cup op.byhand
        /\ op.at \in {"path", "admit"} => ~parked[op.slice] /\ op.unparked

\* And what a deactivation has done stays done; no UE is up unless a fault left one up.
OnTheWayDown ==
    Deactivating =>
        /\ op.at \in NF \cup {"stop", "drain", "park", "verify"} \cup Result
        /\ op.at \in NF \cup {"verify"} => parked[op.slice] /\ (faults = 0 => up[op.slice] = "none")
        /\ op.at \in {"dn", "upf", "verify"} => "gnb" \notin nfs[op.slice]
        /\ op.at \in {"upf", "verify"} => "dn" \notin nfs[op.slice]
        /\ op.at = "verify" => "upf" \notin nfs[op.slice]

\* Of a slice that was dormant, the containers that run are among those the activation will
\* stop again, and the UEs are parked unless they were unparked and not parked again yet.
CanGoBack ==
    (Activating /\ op.was = "DORMANT" /\ faults = 0 /\ op.at \notin Result) =>
        /\ op.before = {} /\ nfs[op.slice] \subseteq op.started
        /\ \/ op.at \in NF \cup {"ues", "undo"}
           \/ op.at = "rollback" /\ ~op.unparked
           => parked[op.slice] /\ up[op.slice] = "none"

IInv == TypeOK /\ faults \in Nat /\ OnTheWayUp /\ OnTheWayDown /\ CanGoBack

-----------------------------------------------------------------------------
(* Types *)

LEMMA StateType == \A s : State(s) \in {"ACTIVE", "DORMANT", "DEGRADED"}
  BY DEF State

\* An operation that moves on is still one.
LEMMA MovesOn ==
    ASSUME TypeOK, op # NoOp, NEW at, GoTo(at),
           at \in NF \cup {"ues", "path", "admit", "rollback", "repark", "undo",
                           "stop", "drain", "park", "verify"} \cup Result
    PROVE  /\ op' \in Operation /\ op' # NoOp /\ op'.at = at
           /\ op'.kind = op.kind /\ op'.slice = op.slice /\ op'.was = op.was
           /\ op'.before = op.before /\ op'.byhand = op.byhand /\ op'.started = op.started
           /\ op'.unparked = op.unparked /\ op'.drained = op.drained
<1>1. op \in Operation
  BY DEF TypeOK
<1>2. op' = [op EXCEPT !.at = at]
  BY DEF GoTo
<1>3. op' \in Operation
  BY <1>1, <1>2 DEF Operation
<1>4. op'.kind = op.kind /\ op.kind # "none"
  BY <1>1, <1>2 DEF Operation, Kind
<1>5. op' # NoOp
  BY <1>4 DEF NoOp
<1> QED
  BY <1>1, <1>2, <1>3, <1>4, <1>5 DEF Operation

LEMMA Begins ==
    ASSUME TypeOK, NEW kind \in Kind, NEW s \in Slice, Begin(kind, s)
    PROVE  /\ op' \in Operation /\ op' # NoOp /\ op'.kind = kind /\ op'.slice = s
           /\ op'.was = State(s) /\ op'.before = nfs[s] /\ op'.started = {}
           /\ op'.unparked = FALSE /\ op'.byhand = {}
           /\ op'.at = IF kind = "activate" THEN "upf" ELSE "stop"
<1>1. nfs[s] \in SUBSET NF
  BY DEF TypeOK
<1>2. op' \in Operation
  BY <1>1, StateType DEF Begin, Operation, NF, Kind
<1>3. op'.kind # "none"
  BY DEF Begin, Kind
<1> QED
  BY <1>2, <1>3 DEF Begin, NoOp

\* The part of TypeOK about containers, and what docker stop makes of it.
ContainersType ==
    /\ nfs \in [Slice -> SUBSET NF]
    /\ exited \in [Slice -> SUBSET NF] /\ \A s \in Slice : exited[s] \subseteq nfs[s]

LEMMA StopType ==
    ASSUME TypeOK, NEW s \in Slice, NEW k
    PROVE  /\ ContainersType
           /\ Stop(s, k) => /\ ContainersType' /\ nfs'[s] = nfs[s] \ {k}
                            /\ \A t \in Slice : t # s => nfs'[t] = nfs[t]
           /\ UNCHANGED <<nfs, exited>> => ContainersType'
  BY DEF TypeOK, Stop, ContainersType

\* The steps of activate() on a container.
LEMMA StartNfStep ==
    ASSUME IInv, NEW k \in NF, StartNf(k)
    PROVE  IInv'
<1> USE DEF IInv
<1> DEFINE s == op.slice
<1>1. /\ op \in Operation /\ op # NoOp /\ op.kind = "activate" /\ op.at = k
      /\ s \in Slice
  BY DEF StartNf, At, TypeOK, Operation, NoOp
<1>2. /\ UNCHANGED <<exited, parked, up, load, needed, admits, tick, manual>>
      /\ faults' \in {faults, faults + 1} /\ faults' \in Nat
      /\ nfs' \in {nfs, [nfs EXCEPT ![s] = @ \cup ({k} \ op.before)]}
  BY DEF StartNf, traffic, Smooth, Setback, Fault
<1>3. nfs' \in [Slice -> SUBSET NF] /\ \A t \in Slice : exited[t] \subseteq nfs'[t]
  BY <1>1, <1>2 DEF TypeOK
<1>4. CASE \E next \in {After[k], "rollback"} :
             /\ nfs' = [nfs EXCEPT ![s] = @ \cup ({k} \ op.before)]
             /\ op' = [op EXCEPT !.at = next, !.started = @ \cup ({k} \ op.before)]
             /\ faults' = faults
  <2>1. PICK next \in {After[k], "rollback"} :
             /\ nfs' = [nfs EXCEPT ![s] = @ \cup ({k} \ op.before)]
             /\ op' = [op EXCEPT !.at = next, !.started = @ \cup ({k} \ op.before)]
    BY <1>4
  <2>2. next \in {"dn", "gnb", "ues", "rollback"}
    BY DEF After, NF
  <2>3. op' \in Operation /\ op'.kind = "activate"
    BY <1>1, <2>1, <2>2 DEF Operation, NF
  <2>4. op' # NoOp
    BY <2>3 DEF NoOp
  <2>5. TypeOK'
    BY <1>2, <1>3, <2>3 DEF TypeOK
  <2>6. OnTheWayUp' /\ OnTheWayDown'
    BY <1>1, <1>2, <2>1, <2>2, <2>3, <2>4
       DEF OnTheWayUp, OnTheWayDown, Activating, Deactivating, Operation, After, NF, TypeOK
  <2>7. CanGoBack'
    BY <1>1, <1>2, <1>4, <2>1, <2>2, <2>3, <2>4
       DEF CanGoBack, Activating, Operation, After, NF, TypeOK, Result, OnTheWayUp
  <2> QED
    BY <1>2, <2>5, <2>6, <2>7
<1>5. CASE GoTo("rollback") /\ faults' # 0
  <2>1. /\ op' \in Operation /\ op' # NoOp /\ op'.kind = "activate" /\ op'.at = "rollback"
    BY <1>1, <1>5, MovesOn
  <2>2. TypeOK'
    BY <1>2, <1>3, <2>1 DEF TypeOK
  <2> QED
    BY <1>2, <1>5, <2>1, <2>2 DEF OnTheWayUp, OnTheWayDown, CanGoBack, Activating, Deactivating, NF
<1> QED
  BY <1>4, <1>5 DEF StartNf, Smooth, Setback, Fault
-----------------------------------------------------------------------------
(* Steps that end an operation, and steps of others *)

\* With no operation under way, or one whose lock is to be released, nothing is claimed.
LEMMA Over ==
    ASSUME TypeOK', faults' \in Nat, op' = NoOp \/ op'.at \in Result
    PROVE  IInv'
  BY DEF IInv, OnTheWayUp, OnTheWayDown, CanGoBack, Activating, Deactivating, NF, Result

\* Whoever leaves operation, containers and parked lists alone may take sessions away, and
\* bring back those of UEs that are not parked.
LEMMA Around ==
    ASSUME IInv, TypeOK', UNCHANGED <<nfs, parked, op>>, faults' \in {faults, faults + 1},
           \A s \in Slice : up'[s] # up[s] => up'[s] = "none" \/ ~parked[s]
    PROVE  IInv'
<1> USE DEF IInv
<1>1. faults' \in Nat /\ (faults' = 0 => faults = 0)
  OBVIOUS
<1>2. op # NoOp => op \in Operation /\ op.slice \in Slice
  BY DEF TypeOK, Operation
<1>3. OnTheWayUp' /\ OnTheWayDown' /\ CanGoBack'
  BY <1>1, <1>2 DEF OnTheWayUp, OnTheWayDown, CanGoBack, Activating, Deactivating
<1> QED
  BY <1>1, <1>3

LEMMA Finishes ==
    ASSUME IInv, op # NoOp, NEW r \in Result, Finish(r)
    PROVE  /\ op' \in Operation /\ op' # NoOp /\ op'.at = r /\ op'.at \in Result
           /\ op'.slice = op.slice
  BY MovesOn DEF Finish, IInv

\* What an operation's step may assume of it.
LEMMA UnderWay ==
    ASSUME IInv, NEW kind \in Kind, NEW at, At(kind, at)
    PROVE  /\ op \in Operation /\ op # NoOp /\ op.kind = kind /\ op.at = at
           /\ op.slice \in Slice /\ op.started \subseteq NF /\ op.unparked \in BOOLEAN
           /\ Activating <=> kind = "activate"
           /\ Deactivating <=> kind = "deactivate"
  BY DEF At, IInv, TypeOK, Operation, NoOp, Kind, Activating, Deactivating

LEMMA PostType ==
    ASSUME IInv, NEW s \in Slice, Post(s, TRUE) \/ Post(s, FALSE)
    PROVE  /\ admits' \in [Slice -> BOOLEAN]
           /\ faults' \in {faults, faults + 1} /\ faults' \in Nat
<1>1. \E b \in BOOLEAN : admits' = [admits EXCEPT ![s] = b] \/ UNCHANGED admits
  BY DEF Post
<1>2. admits' \in [Slice -> BOOLEAN]
  BY <1>1, Zenon DEF IInv, TypeOK
<1>3. faults' \in {faults, faults + 1} /\ faults' \in Nat
  BY DEF Post, Smooth, Fault, IInv
<1> QED
  BY <1>2, <1>3

-----------------------------------------------------------------------------
(* activate() *)

LEMMA UnparkStep ==
    ASSUME IInv, Unpark
    PROVE  IInv'
<1> USE DEF IInv
<1> DEFINE s == op.slice
<1>1. /\ op \in Operation /\ op # NoOp /\ op.kind = "activate" /\ op.at = "ues"
      /\ s \in Slice /\ Activating /\ ~Deactivating
  BY UnderWay DEF Unpark, Kind
<1>2. /\ UNCHANGED <<nfs, exited, load, needed, admits, tick, manual>>
      /\ faults' \in {faults, faults + 1} /\ faults' \in Nat
      /\ parked' \in {parked, [parked EXCEPT ![s] = FALSE]}
      /\ up' = up \/ \E u \in {"none", "some", "enough"} : up' = [up EXCEPT ![s] = u]
  BY DEF containers, Unpark, traffic, Smooth, Setback, Fault
<1>3. PICK at \in {"path", "rollback"} :
        /\ op' = [op EXCEPT !.at = at, !.unparked = TRUE]
        /\ at = "path" => parked' = [parked EXCEPT ![s] = FALSE]
  BY DEF Unpark
<1>4. /\ op' \in Operation /\ op'.kind = "activate" /\ op'.at = at /\ op'.slice = s
      /\ op'.was = op.was /\ op'.before = op.before /\ op'.byhand = op.byhand /\ op'.started = op.started
      /\ op'.unparked
  BY <1>1, <1>3 DEF Operation
<1>5. op' # NoOp
  BY <1>4 DEF NoOp
<1>6. TypeOK'
  BY <1>1, <1>2, <1>4 DEF TypeOK
<1>7. OnTheWayUp' /\ OnTheWayDown'
  BY <1>1, <1>2, <1>3, <1>4, <1>5
     DEF OnTheWayUp, OnTheWayDown, Activating, Deactivating, TypeOK, NF
<1>8. CanGoBack'
  BY <1>1, <1>2, <1>3, <1>4, <1>5 DEF CanGoBack, Activating, NF, Result
<1> QED
  BY <1>2, <1>6, <1>7, <1>8

LEMMA DataPathStep ==
    ASSUME IInv, DataPath
    PROVE  IInv'
<1> USE DEF IInv
<1>1. /\ op \in Operation /\ op # NoOp /\ op.kind = "activate" /\ op.at = "path"
      /\ op.slice \in Slice /\ Activating /\ ~Deactivating
  BY UnderWay DEF DataPath, Kind
<1>2. /\ UNCHANGED <<nfs, exited, parked, up, load, needed, admits, tick, manual>>
      /\ faults' = faults
  BY DEF DataPath, world, containers, traffic, Smooth, Setback
<1>3. PICK at \in {"admit", "rollback"} : GoTo(at)
  BY DEF DataPath
<1>4. /\ op' \in Operation /\ op' # NoOp /\ op'.kind = "activate" /\ op'.at = at
      /\ op'.slice = op.slice /\ op'.was = op.was
      /\ op'.before = op.before /\ op'.byhand = op.byhand /\ op'.started = op.started /\ op'.unparked = op.unparked
  BY <1>1, <1>3, MovesOn
<1>5. TypeOK'
  BY <1>2, <1>4 DEF TypeOK
<1>6. OnTheWayUp' /\ OnTheWayDown'
  BY <1>1, <1>2, <1>4 DEF OnTheWayUp, OnTheWayDown, Activating, Deactivating, NF
<1>7. CanGoBack'
  BY <1>1, <1>2, <1>4 DEF CanGoBack, OnTheWayUp, Activating, NF, Result
<1> QED
  BY <1>2, <1>5, <1>6, <1>7

LEMMA SwitchOnStep ==
    ASSUME IInv, SwitchOn
    PROVE  IInv'
<1> USE DEF IInv
<1>1. /\ op \in Operation /\ op # NoOp /\ op.kind = "activate" /\ op.at = "admit"
      /\ op.slice \in Slice /\ Activating /\ ~Deactivating
  BY UnderWay DEF SwitchOn, Kind
<1>2. UNCHANGED <<nfs, exited, parked, up, load, needed, tick, manual>>
  BY DEF SwitchOn, world, containers, traffic
<1>3. CASE Post(op.slice, TRUE) /\ Finish("done")
  <2>1. admits' \in [Slice -> BOOLEAN] /\ faults' \in Nat
    BY <1>1, <1>3, PostType
  <2>2. TypeOK' /\ op'.at \in Result
    BY <1>1, <1>2, <1>3, <2>1, Finishes DEF TypeOK, Result
  <2> QED
    BY <2>1, <2>2, Over
<1>4. CASE /\ admits' = [admits EXCEPT ![op.slice] = TRUE] /\ Setback
           /\ GoTo("rollback")
  <2>1. /\ op' \in Operation /\ op' # NoOp /\ op'.kind = "activate" /\ op'.at = "rollback"
        /\ op'.slice = op.slice /\ op'.was = op.was
        /\ op'.before = op.before /\ op'.byhand = op.byhand /\ op'.started = op.started /\ op'.unparked = op.unparked
    BY <1>1, <1>4, MovesOn
  <2>2. faults' = faults
    BY <1>4 DEF Setback
  <2>3. TypeOK'
    BY <1>1, <1>2, <1>4, <2>1 DEF TypeOK
  <2>4. OnTheWayUp' /\ OnTheWayDown'
    BY <1>1, <1>2, <2>1 DEF OnTheWayUp, OnTheWayDown, Activating, Deactivating, NF
  <2>5. CanGoBack'
    BY <1>1, <1>2, <2>1, <2>2 DEF CanGoBack, OnTheWayUp, Activating, NF, Result
  <2> QED
    BY <2>2, <2>3, <2>4, <2>5
<1> QED
  BY <1>3, <1>4 DEF SwitchOn

LEMMA RollbackStep ==
    ASSUME IInv, Rollback
    PROVE  IInv'
<1> USE DEF IInv
<1>1. /\ op \in Operation /\ op # NoOp /\ op.kind = "activate" /\ op.at = "rollback"
      /\ op.slice \in Slice /\ Activating /\ ~Deactivating
  BY UnderWay DEF Rollback, Kind
<1>2. UNCHANGED <<nfs, exited, parked, up, load, needed, tick, manual>>
  BY DEF Rollback, world, containers, traffic
<1>3. admits' \in [Slice -> BOOLEAN] /\ faults' \in {faults, faults + 1} /\ faults' \in Nat
  BY <1>1, PostType DEF Rollback
<1>4. PICK at \in {"repark", "undo"} : GoTo(at) /\ (at = "undo" => ~op.unparked)
  BY DEF Rollback
<1>5. /\ op' \in Operation /\ op' # NoOp /\ op'.kind = "activate" /\ op'.at = at
      /\ op'.slice = op.slice /\ op'.was = op.was
      /\ op'.before = op.before /\ op'.byhand = op.byhand /\ op'.started = op.started /\ op'.unparked = op.unparked
  BY <1>1, <1>4, MovesOn
<1>6. TypeOK'
  BY <1>2, <1>3, <1>5 DEF TypeOK
<1>7. OnTheWayUp' /\ OnTheWayDown'
  BY <1>1, <1>2, <1>5 DEF OnTheWayUp, OnTheWayDown, Activating, Deactivating, NF
<1>8. CanGoBack'
  BY <1>1, <1>2, <1>3, <1>4, <1>5 DEF CanGoBack, Activating, NF, Result
<1> QED
  BY <1>3, <1>6, <1>7, <1>8

LEMMA ParkStep ==
    ASSUME IInv, op # NoOp, NEW next, Park(next) \/ (ParkFails /\ GoTo(next)),
           next \in {"undo", "gnb"}
    PROVE  /\ parked' \in [Slice -> BOOLEAN] /\ up' \in [Slice -> {"none", "some", "enough"}]
           /\ faults' \in {faults, faults + 1} /\ faults' \in Nat
           /\ Park(next) => parked'[op.slice]
           /\ faults' = 0 => faults = 0 /\ parked'[op.slice] /\ up'[op.slice] = "none"
           /\ op' \in Operation /\ op' # NoOp /\ op'.at = next
           /\ op'.kind = op.kind /\ op'.slice = op.slice /\ op'.was = op.was
           /\ op'.before = op.before /\ op'.byhand = op.byhand /\ op'.started = op.started
           /\ op'.unparked = op.unparked
<1> USE DEF IInv
<1>1. GoTo(next)
  BY DEF Park
<1>2. /\ op' \in Operation /\ op' # NoOp /\ op'.at = next
      /\ op'.kind = op.kind /\ op'.slice = op.slice /\ op'.was = op.was
      /\ op'.before = op.before /\ op'.byhand = op.byhand /\ op'.started = op.started
      /\ op'.unparked = op.unparked
  BY <1>1, MovesOn DEF NF
<1>3. op.slice \in Slice
  BY DEF TypeOK, Operation
<1>4. Park(next) => parked' = [parked EXCEPT ![op.slice] = TRUE]
  BY DEF Park
<1>5. parked' = [parked EXCEPT ![op.slice] = TRUE] \/ parked' = parked
  BY <1>4 DEF ParkFails
<1>6. parked' \in [Slice -> BOOLEAN]
  BY <1>5, Zenon DEF TypeOK
<1>7. parked' = [parked EXCEPT ![op.slice] = TRUE] => parked'[op.slice]
  BY <1>3, Zenon DEF TypeOK
<1>8. /\ up' \in [Slice -> {"none", "some", "enough"}]
      /\ faults' \in {faults, faults + 1} /\ faults' \in Nat
  BY DEF Park, ParkFails, Smooth, Fault, TypeOK
<1>9. faults' = 0 => /\ faults = 0 /\ parked' = [parked EXCEPT ![op.slice] = TRUE]
                     /\ up' = [up EXCEPT ![op.slice] = "none"]
  BY DEF Park, ParkFails, Smooth, Fault
<1>10. faults' = 0 => up'[op.slice] = "none"
  BY <1>3, <1>9 DEF TypeOK
<1> QED
  BY <1>2, <1>4, <1>6, <1>7, <1>8, <1>9, <1>10

LEMMA ReparkStep ==
    ASSUME IInv, Repark
    PROVE  IInv'
<1> USE DEF IInv
<1>1. /\ op \in Operation /\ op # NoOp /\ op.kind = "activate" /\ op.at = "repark"
      /\ op.slice \in Slice /\ Activating /\ ~Deactivating
  BY UnderWay DEF Repark, Kind
<1>2. UNCHANGED <<nfs, exited, load, needed, admits, tick, manual>>
  BY DEF containers, Repark, traffic
<1>3. /\ parked' \in [Slice -> BOOLEAN] /\ up' \in [Slice -> {"none", "some", "enough"}]
      /\ faults' \in Nat
      /\ faults' = 0 => faults = 0 /\ parked'[op.slice] /\ up'[op.slice] = "none"
      /\ op' \in Operation /\ op' # NoOp /\ op'.at = "undo"
      /\ op'.kind = op.kind /\ op'.slice = op.slice /\ op'.was = op.was
      /\ op'.before = op.before /\ op'.byhand = op.byhand /\ op'.started = op.started
  BY <1>1, ParkStep DEF Repark
<1>4. TypeOK'
  BY <1>2, <1>3 DEF TypeOK
<1>5. OnTheWayUp' /\ OnTheWayDown'
  BY <1>1, <1>2, <1>3 DEF OnTheWayUp, OnTheWayDown, Activating, Deactivating, NF
<1>6. CanGoBack'
  BY <1>1, <1>2, <1>3 DEF CanGoBack, Activating, Result
<1> QED
  BY <1>3, <1>4, <1>5, <1>6

LEMMA UndoStep ==
    ASSUME IInv, NEW k \in NF, Undo(k)
    PROVE  IInv'
<1> USE DEF IInv
<1> DEFINE s == op.slice
<1>1. /\ op \in Operation /\ op # NoOp /\ op.kind = "activate" /\ op.at = "undo"
      /\ s \in Slice /\ Activating /\ ~Deactivating /\ op.started \subseteq NF
  BY UnderWay DEF Undo, Kind
<1>2. /\ UNCHANGED <<parked, up, load, needed, admits, tick, manual>>
      /\ faults' \in Nat
      /\ op' = [op EXCEPT !.started = @ \ {k}]
      /\ Stop(s, k) \/ UNCHANGED containers
      /\ faults' = 0 => faults = 0 /\ Stop(s, k)
  BY DEF Undo, traffic, Smooth, Fault
<1>3. /\ op' \in Operation /\ op'.kind = "activate" /\ op'.at = "undo" /\ op'.slice = s
      /\ op'.was = op.was /\ op'.before = op.before /\ op'.byhand = op.byhand /\ op'.started = op.started \ {k}
  BY <1>1, <1>2 DEF Operation
<1>4. op' # NoOp
  BY <1>3 DEF NoOp
<1>5. ContainersType' /\ (faults' = 0 => nfs'[s] = nfs[s] \ {k})
  BY <1>1, <1>2, StopType DEF containers
<1>6. TypeOK'
  BY <1>2, <1>3, <1>5 DEF TypeOK, ContainersType
<1>7. OnTheWayUp' /\ OnTheWayDown'
  BY <1>3, <1>4 DEF OnTheWayUp, OnTheWayDown, Activating, Deactivating, NF
<1>8. CanGoBack'
  BY <1>1, <1>2, <1>3, <1>4, <1>5 DEF CanGoBack, Activating, Result
<1> QED
  BY <1>2, <1>6, <1>7, <1>8

-----------------------------------------------------------------------------
(* deactivate() *)

\* A step of deactivate() moves on to `at` with its containers and parked list as they
\* have to be there.
LEMMA DownTo ==
    ASSUME TypeOK', faults' \in Nat, op' # NoOp, op'.kind = "deactivate",
           op'.at \in NF \cup {"stop", "drain", "park", "verify"} \cup Result,
           op'.at \in NF \cup {"verify"} =>
              parked'[op'.slice] /\ (faults' = 0 => up'[op'.slice] = "none"),
           op'.at \in {"dn", "upf", "verify"} => "gnb" \notin nfs'[op'.slice],
           op'.at \in {"upf", "verify"} => "dn" \notin nfs'[op'.slice],
           op'.at = "verify" => "upf" \notin nfs'[op'.slice]
    PROVE  IInv'
  BY DEF IInv, OnTheWayUp, OnTheWayDown, CanGoBack, Activating, Deactivating

LEMMA StopAdmittingStep ==
    ASSUME IInv, StopAdmitting
    PROVE  IInv'
<1>1. /\ op \in Operation /\ op # NoOp /\ op.kind = "deactivate" /\ op.slice \in Slice
  BY UnderWay DEF StopAdmitting, Kind
<1>2. UNCHANGED <<nfs, exited, parked, up, load, needed, tick, manual>>
  BY DEF StopAdmitting, world, containers, traffic
<1>3. admits' \in [Slice -> BOOLEAN] /\ faults' \in Nat
  BY <1>1, PostType DEF StopAdmitting
<1>4. op' \in Operation /\ op' # NoOp /\ op'.kind = "deactivate" /\ op'.at = "drain"
  BY <1>1, MovesOn DEF StopAdmitting, IInv
<1>5. TypeOK'
  BY <1>2, <1>3, <1>4 DEF IInv, TypeOK
<1> QED
  BY <1>3, <1>4, <1>5, DownTo DEF NF

LEMMA DrainStep ==
    ASSUME IInv, Drain
    PROVE  IInv'
<1>1. /\ op \in Operation /\ op # NoOp /\ op.kind = "deactivate" /\ op.slice \in Slice
  BY UnderWay DEF Drain, Kind
<1>2. UNCHANGED <<nfs, exited, parked, up, load, needed, admits, tick, manual, setbacks, faults>>
  BY DEF Drain, world, containers, traffic
<1>3. PICK empty \in BOOLEAN : op' = [op EXCEPT !.at = "park", !.drained = empty]
  BY DEF Drain
<1>4. op' \in Operation /\ op'.kind = "deactivate" /\ op'.at = "park"
  BY <1>1, <1>3 DEF Operation
<1>5. op' # NoOp
  BY <1>4 DEF NoOp
<1>6. TypeOK'
  BY <1>2, <1>4 DEF IInv, TypeOK
<1> QED
  BY <1>2, <1>4, <1>5, <1>6, DownTo DEF NF, IInv

LEMMA ParkUesStep ==
    ASSUME IInv, ParkUes
    PROVE  IInv'
<1>1. /\ op \in Operation /\ op # NoOp /\ op.kind = "deactivate" /\ op.slice \in Slice
      /\ op.at = "park" /\ Deactivating
  BY UnderWay DEF ParkUes, Kind
<1>2. UNCHANGED <<nfs, exited, load, needed, admits, tick, manual>>
  BY DEF containers, ParkUes, traffic
<1>3. CASE Park("gnb")
  <2>1. /\ parked' \in [Slice -> BOOLEAN] /\ up' \in [Slice -> {"none", "some", "enough"}]
        /\ faults' \in Nat /\ parked'[op.slice]
        /\ faults' = 0 => up'[op.slice] = "none"
        /\ op' \in Operation /\ op' # NoOp /\ op'.at = "gnb"
        /\ op'.kind = "deactivate" /\ op'.slice = op.slice
    BY <1>1, <1>3, ParkStep
  <2>2. TypeOK'
    BY <1>2, <1>3, <2>1 DEF IInv, TypeOK
  <2> QED
    BY <2>1, <2>2, DownTo DEF NF
<1>4. CASE ParkFails /\ Finish("failed")
  <2>1. /\ op' \in Operation /\ op'.at \in Result
    BY <1>1, <1>4, Finishes DEF Result
  <2>2. parked' \in [Slice -> BOOLEAN] /\ up' = up /\ faults' \in Nat
    <3>1. parked' = [parked EXCEPT ![op.slice] = TRUE] \/ parked' = parked
      BY <1>4 DEF ParkFails
    <3>2. parked' \in [Slice -> BOOLEAN]
      BY <3>1, Zenon DEF IInv, TypeOK
    <3> QED
      BY <1>4, <3>2 DEF ParkFails, Fault, IInv
  <2>3. TypeOK'
    BY <1>2, <2>1, <2>2 DEF IInv, TypeOK
  <2> QED
    BY <2>1, <2>2, <2>3, Over
<1> QED
  BY <1>3, <1>4 DEF ParkUes

LEMMA StopNfStep ==
    ASSUME IInv, NEW k \in NF, StopNf(k)
    PROVE  IInv'
<1> DEFINE s == op.slice
<1>1. /\ op \in Operation /\ op # NoOp /\ op.kind = "deactivate" /\ s \in Slice
      /\ op.at = k /\ Deactivating
  BY UnderWay DEF StopNf, Kind
<1>2. /\ UNCHANGED <<parked, up, load, needed, admits, tick, manual>>
      /\ Stop(s, k) \/ UNCHANGED containers
      /\ faults' \in Nat
  BY DEF StopNf, traffic, Smooth, Fault, IInv
<1>3. ContainersType'
  BY <1>1, <1>2, StopType DEF IInv, containers
<1>4. CASE /\ Stop(s, k) /\ GoTo(Below[k]) /\ Smooth
  <2>1. Below[k] \in {"dn", "upf", "verify"}
    BY DEF Below, NF
  <2>2. /\ op' \in Operation /\ op' # NoOp /\ op'.at = Below[k]
        /\ op'.kind = "deactivate" /\ op'.slice = s
    BY <1>1, <1>4, <2>1, MovesOn DEF IInv, NF
  <2>3. TypeOK'
    BY <1>2, <1>3, <1>4, <2>2 DEF IInv, TypeOK, ContainersType
  <2>4. nfs'[s] = nfs[s] \ {k} /\ faults' = faults
    BY <1>1, <1>4, StopType DEF IInv, Smooth
  <2>5. parked'[s] /\ (faults' = 0 => up'[s] = "none")
    BY <1>1, <1>2, <2>4 DEF IInv, OnTheWayDown
  <2>6. /\ op'.at \in {"dn", "upf", "verify"} => "gnb" \notin nfs'[s]
        /\ op'.at \in {"upf", "verify"} => "dn" \notin nfs'[s]
        /\ op'.at = "verify" => "upf" \notin nfs'[s]
    BY <1>1, <2>2, <2>4 DEF IInv, OnTheWayDown, Below, NF
  <2>7. faults' \in Nat /\ op'.at \in NF \cup {"stop", "drain", "park", "verify"} \cup Result
    BY <1>2, <2>1, <2>2 DEF NF
  <2> QED
    BY <2>2, <2>3, <2>5, <2>6, <2>7, DownTo
<1>5. CASE Finish("failed")
  <2>1. /\ op' \in Operation /\ op'.at \in Result
    BY <1>1, <1>5, Finishes DEF Result
  <2>2. TypeOK'
    BY <1>2, <1>3, <2>1 DEF IInv, TypeOK, ContainersType
  <2> QED
    BY <1>2, <2>1, <2>2, Over
<1> QED
  BY <1>4, <1>5 DEF StopNf

\* Steps that only report.
LEMMA ReportStep ==
    ASSUME IInv, Verify \/ RolledBack \/ Unexpected
    PROVE  IInv'
<1>1. op # NoOp /\ \E r \in Result : Finish(r)
  BY DEF Verify, RolledBack, Unexpected, At, Result
<1>2. UNCHANGED <<nfs, exited, parked, up, load, needed, admits, tick, manual>>
  BY DEF Verify, RolledBack, Unexpected, world, containers, traffic
<1>3. /\ op' \in Operation /\ op'.at \in Result
  BY <1>1, Finishes
<1>4. faults' \in Nat
  BY DEF Verify, RolledBack, Unexpected, Smooth, Fault, IInv
<1>5. TypeOK'
  BY <1>2, <1>3 DEF IInv, TypeOK
<1> QED
  BY <1>3, <1>4, <1>5, Over

-----------------------------------------------------------------------------
(* The closed loop, requests and what happens around them *)

\* Operations begin with nothing claimed but that a dormant slice is as it should be.
LEMMA BeginStep ==
    ASSUME IInv, NEW kind \in Kind, NEW s \in Slice, Begin(kind, s), TypeOK',
           UNCHANGED <<nfs, exited, parked, up, faults>>
    PROVE  IInv'
<1>1. /\ op' \in Operation /\ op' # NoOp /\ op'.kind = kind /\ op'.slice = s
      /\ op'.was = State(s) /\ op'.before = nfs[s] /\ op'.started = {} /\ ~op'.unparked
      /\ op'.byhand = {}
      /\ op'.at = IF kind = "activate" THEN "upf" ELSE "stop"
  BY Begins DEF IInv
<1>2. State(s) = "DORMANT" => nfs[s] = {} /\ parked[s] /\ up[s] = "none"
  BY DEF State
<1>3. OnTheWayUp' /\ OnTheWayDown'
  BY <1>1 DEF OnTheWayUp, OnTheWayDown, Activating, Deactivating, NF
<1>4. CanGoBack'
  BY <1>1, <1>2 DEF CanGoBack, Activating, NF
<1> QED
  BY <1>3, <1>4 DEF IInv

LEMMA RequestStep ==
    ASSUME IInv, NEW kind \in Kind, NEW s \in Slice, Request(kind, s)
    PROVE  IInv'
<1>1. Begin(kind, s) /\ UNCHANGED <<nfs, exited, parked, up, load, needed, admits, tick, faults>>
  BY DEF Request, world, containers, traffic
<1>2. op' \in Operation
  BY <1>1, Begins DEF IInv
<1>3. TypeOK'
  BY <1>1, <1>2 DEF IInv, TypeOK
<1> QED
  BY <1>1, <1>3, BeginStep

\* A tick that goes on.
LEMMA TickType ==
    ASSUME TypeOK, tick # NoTick
    PROVE  /\ tick \in Tick
           /\ \A s \in Slice, p \in Slice \cup {none} :
                 [tick EXCEPT !.left = @ \ {s}, !.post = p] \in Tick
           /\ [tick EXCEPT !.post = none] \in Tick
           /\ \A d : [tick EXCEPT !.todo = @ \ {d}] \in Tick
<1>1. tick \in Tick
  BY DEF TypeOK
<1> QED
  BY <1>1 DEF Tick

LEMMA ObserveType ==
    ASSUME TypeOK, Observe
    PROVE  tick' \in Tick
<1>1. PICK decided \in [Slice -> SUBSET (Kind \X Slice)] :
        tick' = [at |-> "switches", seen |-> [s \in Slice |-> State(s)],
                 left |-> {s \in Slice : State(s) # "DEGRADED"}, post |-> none,
                 todo |-> UNION {decided[s] : s \in Slice}]
  BY DEF Observe
<1>2. [s \in Slice |-> State(s)] \in [Slice -> {"ACTIVE", "DORMANT", "DEGRADED"}]
  BY StateType
<1>3. UNION {decided[s] : s \in Slice} \in SUBSET (Kind \X Slice)
  OBVIOUS
<1>4. {s \in Slice : State(s) # "DEGRADED"} \in SUBSET Slice
  OBVIOUS
<1> QED
  BY <1>1, <1>2, <1>3, <1>4 DEF Tick

LEMMA AutoTickStep ==
    ASSUME IInv, AutoTick
    PROVE  IInv'
<1> USE DEF IInv
<1>1. CASE Observe \/ EndTick \/ \E s \in Slice : CheckBusy(s)
  <2>1. tick' \in Tick \cup {NoTick}
    <3>1. CASE Observe
      BY <3>1, ObserveType
    <3>2. CASE EndTick
      BY <3>2 DEF EndTick
    <3>3. ASSUME NEW s \in Slice, CheckBusy(s)
          PROVE  tick' \in Tick
      <4>1. tick # NoTick
        BY <3>3 DEF CheckBusy
      <4>2. PICK p \in Slice \cup {none} : tick' = [tick EXCEPT !.left = @ \ {s}, !.post = p]
        BY <3>3 DEF CheckBusy
      <4> QED
        BY <4>1, <4>2, TickType
    <3> QED
      BY <1>1, <3>1, <3>2, <3>3
  <2>2. UNCHANGED <<nfs, exited, parked, up, load, needed, admits, op, manual, setbacks, faults>>
    BY <1>1 DEF Observe, EndTick, CheckBusy, world, containers, traffic
  <2>3. TypeOK'
    BY <2>1, <2>2 DEF TypeOK
  <2> QED
    BY <2>2, <2>3, Around
<1>2. CASE AlignSwitch
  <2>1. tick # NoTick /\ tick.post # none /\ tick' = [tick EXCEPT !.post = none]
    BY <1>2 DEF AlignSwitch
  <2>2. tick' \in Tick /\ tick.post \in Slice
    BY <2>1, TickType DEF Tick
  <2>3. Post(tick.post, TRUE) \/ Post(tick.post, FALSE)
    BY <1>2 DEF AlignSwitch
  <2>4. /\ admits' \in [Slice -> BOOLEAN] /\ faults' \in {faults, faults + 1}
        /\ UNCHANGED <<nfs, exited, parked, up, load, needed, op, manual>>
    BY <1>2, <2>2, <2>3, PostType DEF AlignSwitch, world, containers, traffic
  <2>5. TypeOK'
    BY <2>2, <2>4 DEF TypeOK
  <2> QED
    BY <2>4, <2>5, Around
<1>3. ASSUME NEW d \in Kind \X Slice, Submit(d)
      PROVE  IInv'
  <2>1. /\ UNCHANGED <<nfs, exited, parked, up, load, needed, admits, manual, setbacks, faults>>
        /\ tick' \in Tick
    BY <1>3, TickType DEF Submit, world, containers, traffic
  <2>2. CASE op = NoOp
    <3>1. Begin(d[1], d[2]) /\ d[1] \in Kind /\ d[2] \in Slice
      BY <1>3, <2>2 DEF Submit
    <3>2. op' \in Operation
      BY <3>1, Begins
    <3>3. TypeOK'
      BY <2>1, <3>2 DEF TypeOK
    <3> QED
      BY <2>1, <3>1, <3>3, BeginStep
  <2>3. CASE op # NoOp
    <3>1. op' = op
      BY <1>3, <2>3 DEF Submit
    <3>2. TypeOK'
      BY <2>1, <3>1 DEF TypeOK
    <3> QED
      BY <2>1, <3>1, <3>2, Around
  <2> QED
    BY <2>2, <2>3
<1> QED
  BY <1>1, <1>2, <1>3 DEF AutoTick

LEMMA CrashStep ==
    ASSUME IInv, Crash
    PROVE  IInv'
<1>1. /\ UNCHANGED <<nfs, exited, parked, up, load, needed, admits, manual>>
      /\ op' = NoOp /\ tick' = NoTick /\ faults' \in Nat
  BY DEF Crash, world, containers, traffic, Fault, IInv
<1>2. TypeOK'
  BY <1>1 DEF IInv, TypeOK
<1> QED
  BY <1>1, <1>2, Over

LEMMA AroundStep ==
    ASSUME IInv,
           \/ OrchestratorRestart
           \/ \E s \in Slice : \/ AdmitDemand(s) \/ DemandEnds(s) \/ PlanChanges(s)
                              \/ SessionsLost(s) \/ UesReturn(s)
    PROVE  IInv'
<1> USE DEF IInv
<1>1. CASE OrchestratorRestart
  <2>1. /\ UNCHANGED <<nfs, exited, parked, up, needed, op, tick, manual>>
        /\ admits' = [s \in Slice |-> TRUE] /\ load' = [s \in Slice |-> 0]
        /\ faults' = faults + 1
    BY <1>1 DEF OrchestratorRestart, world, containers, Fault
  <2>2. TypeOK'
    BY <2>1, LifecycleAssumption DEF TypeOK
  <2> QED
    BY <2>1, <2>2, Around
<1>2. ASSUME NEW s \in Slice, AdmitDemand(s) \/ DemandEnds(s)
      PROVE  IInv'
  <2>1. UNCHANGED <<nfs, exited, parked, up, needed, admits, op, tick, manual, setbacks, faults>>
    BY <1>2 DEF AdmitDemand, DemandEnds, world, containers
  <2>2. load' \in [Slice -> 0 .. MaxLoad]
    BY <1>2, LifecycleAssumption DEF AdmitDemand, DemandEnds, TypeOK
  <2>3. TypeOK'
    BY <2>1, <2>2 DEF TypeOK
  <2> QED
    BY <2>1, <2>3, Around
<1>3. ASSUME NEW s \in Slice, PlanChanges(s)
      PROVE  IInv'
  <2>1. UNCHANGED <<nfs, exited, parked, up, load, admits, op, tick, manual, setbacks, faults>>
    BY <1>3 DEF PlanChanges, world, containers
  <2>2. needed' = [needed EXCEPT ![s] = ~@]
    BY <1>3 DEF PlanChanges
  <2>3. needed' \in [Slice -> BOOLEAN]
    BY <2>2, Zenon DEF TypeOK
  <2>4. TypeOK'
    BY <2>1, <2>3 DEF TypeOK
  <2> QED
    BY <2>1, <2>4, Around
<1>4. ASSUME NEW s \in Slice, SessionsLost(s) \/ UesReturn(s)
      PROVE  IInv'
  <2>1. /\ UNCHANGED <<nfs, exited, parked, load, needed, admits, op, tick, manual, faults>>
        /\ \E u \in {"none", "enough"} : up' = [up EXCEPT ![s] = u] /\ (u = "none" \/ ~parked[s])
    BY <1>4 DEF containers, SessionsLost, UesReturn, traffic, Setback, Smooth
  <2>2. /\ up' \in [Slice -> {"none", "some", "enough"}]
        /\ \A t \in Slice : up'[t] # up[t] => up'[t] = "none" \/ ~parked[t]
    BY <2>1 DEF TypeOK
  <2>3. TypeOK'
    BY <2>1, <2>2 DEF TypeOK
  <2> QED
    BY <2>1, <2>2, <2>3, Around
<1> QED
  BY <1>1, <1>2, <1>3, <1>4

\* What exits is still running to Docker, and comes back.
LEMMA ExitsStep ==
    ASSUME IInv, NEW s \in Slice, NEW k \in NF, Exits(s, k) \/ DockerRestarts(s, k)
    PROVE  IInv'
<1>1. /\ UNCHANGED <<nfs, parked, up, load, needed, admits, op, tick, manual, faults>>
      /\ \/ exited' = [exited EXCEPT ![s] = @ \cup {k}] /\ k \in nfs[s]
         \/ exited' = [exited EXCEPT ![s] = @ \ {k}]
  BY DEF Exits, DockerRestarts, traffic, Setback
<1>2. exited' \in [Slice -> SUBSET NF] /\ \A t \in Slice : exited'[t] \subseteq nfs'[t]
  BY <1>1 DEF IInv, TypeOK
<1>3. TypeOK'
  BY <1>1, <1>2 DEF IInv, TypeOK
<1> QED
  BY <1>1, <1>3, Around

\* What is stopped by hand, under an operation on the slice or not.
LEMMA ByHand ==
    ASSUME IInv, NEW s \in Slice, NEW k \in NF, StopByHand(s, k)
    PROVE  /\ UNCHANGED <<parked, up, load, needed, admits, tick, manual, faults>>
           /\ ContainersType' /\ nfs'[s] = nfs[s] \ {k}
           /\ \A t \in Slice : t # s => nfs'[t] = nfs[t]
           /\ op = NoOp => op' = NoOp
           /\ op # NoOp =>
                /\ op' \in Operation /\ op' # NoOp
                /\ op'.kind = op.kind /\ op'.slice = op.slice /\ op'.at = op.at
                /\ op'.was = op.was /\ op'.before = op.before /\ op'.started = op.started
                /\ op'.unparked = op.unparked
                /\ op'.byhand = IF op.slice = s THEN op.byhand \cup {k} ELSE op.byhand
<1> USE DEF IInv
<1>1. /\ UNCHANGED <<parked, up, load, needed, admits, tick, manual, faults>>
      /\ Stop(s, k)
      /\ op' = IF Busy(s) THEN [op EXCEPT !.byhand = @ \cup {k}] ELSE op
  BY DEF StopByHand, traffic, Setback
<1>2. /\ ContainersType' /\ nfs'[s] = nfs[s] \ {k}
      /\ \A t \in Slice : t # s => nfs'[t] = nfs[t]
  BY <1>1, StopType
<1>3. ASSUME op # NoOp
      PROVE  /\ op' \in Operation
             /\ op'.kind = op.kind /\ op'.slice = op.slice /\ op'.at = op.at
             /\ op'.was = op.was /\ op'.before = op.before /\ op'.started = op.started
             /\ op'.unparked = op.unparked
             /\ op'.byhand = IF op.slice = s THEN op.byhand \cup {k} ELSE op.byhand
             /\ op.kind # "none"
  <2>1. op \in Operation /\ op.kind # "none"
    BY <1>3 DEF TypeOK, Operation, Kind
  <2>2. CASE op.slice = s
    <3>1. op' = [op EXCEPT !.byhand = @ \cup {k}]
      BY <1>1, <1>3, <2>2 DEF Busy
    <3> QED
      BY <2>1, <2>2, <3>1 DEF Operation
  <2>3. CASE op.slice # s
    BY <1>1, <2>1, <2>3 DEF Busy
  <2> QED
    BY <2>2, <2>3
<1>4. op # NoOp => op' # NoOp
  BY <1>3 DEF NoOp
<1>5. op = NoOp => op' = NoOp
  BY <1>1 DEF Busy
<1> QED
  BY <1>1, <1>2, <1>3, <1>4, <1>5

LEMMA StopByHandStep ==
    ASSUME IInv, NEW s \in Slice, NEW k \in NF, StopByHand(s, k)
    PROVE  IInv'
<1> USE DEF IInv
<1>1. op' \in Operation \cup {NoOp}
  BY ByHand
<1>2. TypeOK'
  BY <1>1, ByHand DEF TypeOK, ContainersType
<1>3. CASE op = NoOp
  BY <1>2, <1>3, ByHand, Over
<1>4. CASE op # NoOp
  <2> DEFINE t == op.slice
  <2>1. /\ op' # NoOp /\ op'.kind = op.kind /\ op'.slice = t /\ op'.at = op.at
        /\ op'.was = op.was /\ op'.before = op.before /\ op'.started = op.started
        /\ op'.unparked = op.unparked
        /\ UNCHANGED <<parked, up, faults>>
    BY <1>4, ByHand
  <2>2. nfs[t] \cup op.byhand \subseteq nfs'[t] \cup op'.byhand /\ nfs'[t] \subseteq nfs[t]
    <3>1. CASE t = s
      BY <1>4, <3>1, ByHand
    <3>2. CASE t # s
      <4>1. t \in Slice
        BY <1>4 DEF TypeOK, Operation
      <4> QED
        BY <1>4, <3>2, <4>1, ByHand
    <3> QED
      BY <3>1, <3>2
  <2>3. OnTheWayUp'
    BY <1>4, <2>1, <2>2 DEF OnTheWayUp, Activating
  <2>4. OnTheWayDown'
    BY <1>4, <2>1, <2>2 DEF OnTheWayDown, Deactivating
  <2>5. CanGoBack'
    BY <1>4, <2>1, <2>2 DEF CanGoBack, Activating
  <2> QED
    BY <1>2, <2>1, <2>3, <2>4, <2>5
<1> QED
  BY <1>3, <1>4

LEMMA ReleaseStep ==
    ASSUME IInv, Release
    PROVE  IInv'
<1>1. /\ UNCHANGED <<nfs, exited, parked, up, load, needed, admits, tick, manual, setbacks, faults>>
      /\ op' = NoOp
  BY DEF Release, world, containers, traffic
<1>2. TypeOK'
  BY <1>1 DEF IInv, TypeOK
<1> QED
  BY <1>1, <1>2, Over DEF IInv

-----------------------------------------------------------------------------
LEMMA InitIInv == Init => IInv
<1> SUFFICES ASSUME Init PROVE IInv
  OBVIOUS
<1>1. TypeOK
  BY LifecycleAssumption DEF Init, TypeOK
<1> QED
  BY <1>1 DEF Init, IInv, OnTheWayUp, OnTheWayDown, CanGoBack, Activating, Deactivating

LEMMA NextIInv == IInv /\ [Next]_vars => IInv'
<1> SUFFICES ASSUME IInv, [Next]_vars PROVE IInv'
  OBVIOUS
<1>1. CASE Operate
  BY <1>1, StartNfStep, UndoStep, StopNfStep, UnparkStep, DataPathStep, SwitchOnStep, RollbackStep,
     ReparkStep, StopAdmittingStep, DrainStep, ParkUesStep, ReportStep, ReleaseStep DEF Operate
<1>2. CASE AutoTick
  BY <1>2, AutoTickStep
<1>3. ASSUME NEW kind \in Kind, NEW s \in Slice, Request(kind, s)
      PROVE  IInv'
  BY <1>3, RequestStep
<1>4. CASE UNCHANGED vars
  <2>1. UNCHANGED <<nfs, exited, parked, up, admits, load, needed, op, tick, manual, setbacks, faults>>
    BY <1>4 DEF vars
  <2>2. TypeOK'
    BY <2>1 DEF IInv, TypeOK
  <2> QED
    BY <2>1, <2>2, Around
<1>5. ASSUME NEW s \in Slice, NEW k \in NF, Exits(s, k) \/ DockerRestarts(s, k) \/ StopByHand(s, k)
      PROVE  IInv'
  BY <1>5, ExitsStep, StopByHandStep
<1> QED
  BY <1>1, <1>2, <1>3, <1>4, <1>5, ReportStep, CrashStep, AroundStep DEF Next

\* The inductive invariant holds throughout.
THEOREM Invariance == Spec => []IInv
  BY InitIInv, NextIInv, PTL DEF Spec

\* The state of slices, operation and loop is well-typed.
THEOREM TypeCorrect == Spec => []TypeOK
  BY Invariance, PTL DEF IInv

-----------------------------------------------------------------------------
(* What an operation reports *)

\* An operation ends by one of these, and that is what it reports.
LEMMA EndsBy ==
    ASSUME IInv, [Next]_vars, op # NoOp, op.at \notin Result, op' # NoOp, op'.at \in Result
    PROVE  \/ SwitchOn /\ Finish("done")
           \/ Verify
           \/ RolledBack
           \/ Finish("failed")
<1>1. op \in Operation
  BY DEF IInv, TypeOK
<1>2. op' # op
  OBVIOUS
<1>3. ~(UNCHANGED vars \/ AutoTick \/ Release \/ Crash \/ OrchestratorRestart)
  BY <1>2 DEF vars, AutoTick, Observe, CheckBusy, AlignSwitch, Submit, EndTick, Release, Crash,
              OrchestratorRestart
<1>4. ~\E s \in Slice : \/ AdmitDemand(s) \/ DemandEnds(s) \/ PlanChanges(s)
                       \/ SessionsLost(s) \/ UesReturn(s)
  BY <1>2 DEF AdmitDemand, DemandEnds, PlanChanges, SessionsLost, UesReturn
<1>15. ~\E s \in Slice, k \in NF : Exits(s, k) \/ DockerRestarts(s, k) \/ StopByHand(s, k)
  <2>1. ASSUME NEW s \in Slice, NEW k \in NF, StopByHand(s, k)
        PROVE  op'.at = op.at
    BY <2>1, ByHand
  <2> QED
    BY <1>2, <2>1 DEF Exits, DockerRestarts
<1>5. ~\E kind \in Kind, s \in Slice : Request(kind, s)
  BY DEF Request, Begin
<1>6. \A at \in NF \cup {"ues", "path", "admit", "rollback", "repark", "undo",
                        "stop", "drain", "park", "verify"} : ~GoTo(at)
  <2> SUFFICES ASSUME NEW at \in NF \cup {"ues", "path", "admit", "rollback", "repark", "undo",
                                        "stop", "drain", "park", "verify"}, GoTo(at)
               PROVE  FALSE
    OBVIOUS
  <2>1. at \notin Result
    BY DEF NF, Result
  <2> QED
    BY <2>1, MovesOn DEF IInv
<1>7. ~\E k \in NF : StartNf(k) \/ Undo(k)
  <2>1. ASSUME NEW k \in NF, StartNf(k)
        PROVE  FALSE
    <3>1. PICK next \in {After[k], "rollback"} :
            op' = [op EXCEPT !.at = next, !.started = @ \cup ({k} \ op.before)]
      BY <2>1, <1>6 DEF StartNf
    <3>2. next \notin Result
      BY DEF After, NF, Result
    <3> QED
      BY <1>1, <3>1, <3>2 DEF Operation
  <2>2. ASSUME NEW k \in NF, Undo(k)
        PROVE  FALSE
    BY <1>1, <2>2 DEF Undo, Operation
  <2> QED
    BY <2>1, <2>2
<1>8. ~Unpark
  <2> SUFFICES ASSUME Unpark PROVE FALSE
    OBVIOUS
  <2>1. PICK at \in {"path", "rollback"} : op' = [op EXCEPT !.at = at, !.unparked = TRUE]
    BY DEF Unpark
  <2>2. at \notin Result
    BY DEF Result
  <2> QED
    BY <1>1, <2>1, <2>2 DEF Operation
<1>9. ~Drain
  BY <1>1 DEF Drain, Operation, Result
<1>10. ~(DataPath \/ Rollback \/ Repark \/ StopAdmitting)
  BY <1>6 DEF DataPath, Rollback, Repark, Park, StopAdmitting
<1>11. SwitchOn => Finish("done")
  BY <1>6 DEF SwitchOn
<1>12. ParkUes => Finish("failed")
  BY <1>6 DEF ParkUes, Park, NF
<1>13. ASSUME NEW k \in NF, StopNf(k)
       PROVE  Finish("failed")
  BY <1>6, <1>13 DEF StopNf, Below, NF
<1>14. Unexpected => Finish("failed")
  BY DEF Unexpected
<1> QED
  BY <1>3, <1>4, <1>5, <1>15, <1>7, <1>8, <1>9, <1>10, <1>11, <1>12, <1>13, <1>14 DEF Next, Operate

\* "done" is said of a slice only when it is so, whatever failed or exited on the way, and
\* whatever the loop, the supervisor and the demands did meanwhile: an activation's containers
\* run, or Docker starts them again, but for those somebody stopped under it, which it names.
THEOREM DoneTheorem == Spec => DoneMeansDone
<1> DEFINE A == Ends("done") =>
          LET s == op.slice
          IN IF op.kind = "activate" THEN nfs'[s] \cup op.byhand = NF /\ ~parked'[s]
             ELSE nfs'[s] \cup exited'[s] = {} /\ parked'[s] /\ (faults' <= 1 => up'[s] = "none")
<1>1. IInv /\ [Next]_vars => [A]_vars
  <2> SUFFICES ASSUME IInv, [Next]_vars, Ends("done") PROVE A
    OBVIOUS
  <2> USE DEF IInv
  <2> DEFINE s == op.slice
  <2>1. /\ op # NoOp /\ op.at \notin Result /\ op' # NoOp /\ op'.at = "done" /\ op'.at \in Result
        /\ s \in Slice /\ nfs[s] \subseteq NF /\ op.byhand \subseteq NF /\ exited[s] \subseteq nfs[s]
    BY DEF Ends, TypeOK, Operation, Result
  <2>2. ~Finish("failed") /\ ~RolledBack
    BY <2>1, Finishes DEF RolledBack, Result
  <2>3. CASE SwitchOn
    <3>1. op.kind = "activate" /\ op.at = "admit" /\ Activating /\ UNCHANGED <<nfs, parked, up>>
      BY <2>3 DEF SwitchOn, At, Activating, world, containers
    <3>2. nfs[s] \cup op.byhand = NF /\ ~parked[s]
      BY <2>1, <3>1 DEF OnTheWayUp, NF
    <3> QED
      BY <3>1, <3>2
  <2>4. CASE Verify
    <3>1. /\ op.kind = "deactivate" /\ op.at = "verify" /\ Deactivating
          /\ UNCHANGED <<nfs, exited, parked, up>>
      BY <2>4 DEF Verify, At, Deactivating, world, containers
    <3>2. nfs[s] = {} /\ parked[s] /\ (faults = 0 => up[s] = "none")
      BY <2>1, <3>1 DEF OnTheWayDown, NF
    <3>3. faults' <= 1 => up[s] = "none"
      BY <2>2, <2>4, <3>2 DEF Verify, Fault
    <3> QED
      BY <2>1, <3>1, <3>2, <3>3
  <2> QED
    BY <2>1, <2>2, <2>3, <2>4, EndsBy
<1> QED
  BY <1>1, Invariance, PTL DEF Spec, DoneMeansDone

\* An activation of a dormant slice that is rolled back leaves it dormant, whatever exits or
\* is stopped by hand meanwhile, as long as no rollback step itself fails.
THEOREM RollbackTheorem == Spec => RollbackRestores
<1> DEFINE A == (Ends("rolled_back") /\ op.was = "DORMANT" /\ faults = 0) =>
                   State(op.slice)' = "DORMANT"
<1>1. IInv /\ [Next]_vars => [A]_vars
  <2> SUFFICES ASSUME IInv, [Next]_vars, Ends("rolled_back"), op.was = "DORMANT", faults = 0
               PROVE  State(op.slice)' = "DORMANT"
    OBVIOUS
  <2> USE DEF IInv
  <2> DEFINE s == op.slice
  <2>1. /\ op # NoOp /\ op.at \notin Result /\ op' # NoOp /\ op'.at \in Result
        /\ op'.at = "rolled_back"
    BY DEF Ends, Result
  <2>2. ~Finish("failed") /\ ~Finish("done") /\ ~Verify
    BY <2>1, Finishes DEF Verify, Result
  <2>3. RolledBack
    BY <2>1, <2>2, EndsBy
  <2>4. /\ op.kind = "activate" /\ op.at = "undo" /\ op.started = {}
        /\ UNCHANGED <<nfs, parked, up>> /\ Finish("rolled_back")
    BY <2>3 DEF RolledBack, At, world, containers
  <2>5. op'.slice = s
    BY <2>1, <2>4, Finishes DEF Result
  <2>6. nfs[s] = {} /\ parked[s] /\ up[s] = "none"
    BY <2>1, <2>4 DEF CanGoBack, Activating
  <2> QED
    BY <2>4, <2>5, <2>6 DEF State, NF
<1> QED
  BY <1>1, Invariance, PTL DEF Spec, RollbackRestores

-----------------------------------------------------------------------------
(* Refinement *)

\* Steps that leave alone what the refinement mapping shows.
LEMMA Stutters ==
    ASSUME UNCHANGED <<nfs, parked, up, op>>
    PROVE  UNCHANGED Service!vars
<1>1. \A s : State(s)' = State(s)
  BY DEF State
<1> QED
  BY <1>1 DEF Service!vars

\* An operation's step that changes no other slice is work on its own.
LEMMA Works ==
    ASSUME IInv, op # NoOp, op' # NoOp, op'.kind = op.kind, op'.slice = op.slice,
           \A s \in Slice : s # op.slice =>
              nfs'[s] = nfs[s] /\ parked'[s] = parked[s] /\ up'[s] = up[s]
    PROVE  Service!Work
<1>1. PICK t \in Slice : t = op.slice
  BY DEF IInv, TypeOK, Operation
<1>2. \A s \in Slice : s # t => State(s)' = State(s)
  BY <1>1 DEF State
<1>3. PICK b \in Service!Status : b = State(t)'
  <2>1. State(t)' \in {"ACTIVE", "DORMANT", "DEGRADED"}
    BY DEF State
  <2> QED
    BY <2>1 DEF Service!Status
<1>4. [s \in Slice |-> State(s)]' = [[s \in Slice |-> State(s)] EXCEPT ![t] = b]
  BY <1>2, <1>3
<1>5. op.kind # "none"
  BY DEF IInv, TypeOK, Operation, Kind
<1> QED
  BY <1>1, <1>3, <1>4, <1>5 DEF Service!Work, Service!Idle, NoOp

\* Every step of activate() and deactivate() stays with its operation and its slice.
LEMMA StepIsWork ==
    ASSUME IInv, Operate \/ Unexpected, ~Release
    PROVE  Service!Work
<1>1. op # NoOp /\ op \in Operation /\ op.slice \in Slice /\ op.kind \in Kind
  <2>1. op # NoOp
    BY DEF Operate, Unexpected, StartNf, Undo, StopNf, Unpark, DataPath, SwitchOn, Rollback, Repark,
           RolledBack, StopAdmitting, Drain, ParkUes, Verify, At
  <2> QED
    BY <2>1 DEF IInv, TypeOK, Operation
<1> DEFINE stays == op' \in Operation /\ op'.kind = op.kind /\ op'.slice = op.slice
           others == \A s \in Slice : s # op.slice =>
                        nfs'[s] = nfs[s] /\ parked'[s] = parked[s] /\ up'[s] = up[s]
<1>2. stays => op' # NoOp
  BY <1>1 DEF NoOp, Operation, Kind
<1>3. ASSUME NEW at \in NF \cup {"ues", "path", "admit", "rollback", "repark", "undo",
                               "stop", "drain", "park", "verify"} \cup Result, GoTo(at)
      PROVE  stays
  BY <1>1, <1>3, MovesOn DEF IInv
<1>4. ASSUME NEW k \in NF, StartNf(k) \/ Undo(k)
      PROVE  stays /\ others
  <2>1. stays
    <3>1. CASE GoTo("rollback")
      BY <1>3, <3>1
    <3>2. CASE \E next \in {After[k], "rollback"} :
                 op' = [op EXCEPT !.at = next, !.started = @ \cup ({k} \ op.before)]
      <4>1. After[k] \in {"dn", "gnb", "ues"}
        BY DEF After, NF
      <4>2. PICK next \in {"dn", "gnb", "ues", "rollback"} :
              op' = [op EXCEPT !.at = next, !.started = @ \cup ({k} \ op.before)]
        BY <3>2, <4>1
      <4> QED
        BY <1>1, <4>2 DEF Operation, NF
    <3>3. CASE op' = [op EXCEPT !.started = @ \ {k}]
      BY <1>1, <3>3 DEF Operation
    <3> QED
      BY <1>4, <3>1, <3>2, <3>3 DEF StartNf, Undo
  <2>2. UNCHANGED <<parked, up>> /\ \A s \in Slice : s # op.slice => nfs'[s] = nfs[s]
    BY <1>1, <1>4, StopType DEF StartNf, Undo, IInv, TypeOK, containers
  <2> QED
    BY <2>1, <2>2
<1>5. ASSUME NEW k \in NF, StopNf(k)
      PROVE  stays /\ others
  <2>1. stays
    BY <1>3, <1>5 DEF StopNf, Finish, Result, Below, NF
  <2>2. UNCHANGED <<parked, up>> /\ \A s \in Slice : s # op.slice => nfs'[s] = nfs[s]
    BY <1>1, <1>5, StopType DEF StopNf, IInv, containers
  <2> QED
    BY <2>1, <2>2
<1>6. CASE Unpark
  <2>1. stays
    BY <1>1, <1>6 DEF Unpark, Operation
  <2>2. nfs' = nfs /\ \A s \in Slice : s # op.slice => parked'[s] = parked[s]
    BY <1>1, <1>6 DEF containers, Unpark, IInv, TypeOK
  <2>3. \A s \in Slice : s # op.slice => up'[s] = up[s]
    BY <1>1, <1>6 DEF Unpark, IInv, TypeOK
  <2> QED
    BY <1>1, <1>2, <2>1, <2>2, <2>3, Works
<1>7. CASE Repark \/ ParkUes
  <2>1. stays
    BY <1>3, <1>7 DEF Repark, ParkUes, Park, Finish, Result, NF
  <2>2. nfs' = nfs /\ \A s \in Slice : s # op.slice => parked'[s] = parked[s]
    BY <1>1, <1>7 DEF containers, Repark, ParkUes, Park, ParkFails, IInv, TypeOK
  <2>3. \A s \in Slice : s # op.slice => up'[s] = up[s]
    BY <1>1, <1>7 DEF Repark, ParkUes, Park, ParkFails, IInv, TypeOK
  <2> QED
    BY <1>1, <1>2, <2>1, <2>2, <2>3, Works
<1>8. CASE DataPath \/ SwitchOn \/ Rollback \/ RolledBack \/ StopAdmitting \/ Verify \/ Unexpected
  <2>1. stays
    BY <1>3, <1>8 DEF DataPath, SwitchOn, Rollback, RolledBack, StopAdmitting, Verify, Unexpected, Finish, Result
  <2>2. UNCHANGED <<nfs, exited, parked, up>>
    BY <1>8 DEF DataPath, SwitchOn, Rollback, RolledBack, StopAdmitting, Verify, Unexpected, world, containers
  <2> QED
    BY <1>1, <1>2, <2>1, <2>2, Works
<1>9. CASE Drain
  <2>1. stays
    BY <1>1, <1>9 DEF Drain, Operation
  <2>2. UNCHANGED <<nfs, exited, parked, up>>
    BY <1>9 DEF Drain, world, containers
  <2> QED
    BY <1>1, <1>2, <2>1, <2>2, Works
<1>10. stays /\ others => Service!Work
  BY <1>1, <1>2, Works
<1> QED
  BY <1>4, <1>5, <1>6, <1>7, <1>8, <1>9, <1>10 DEF Operate

LEMMA BeginIsBegin ==
    ASSUME IInv, NEW kind \in Kind, NEW s \in Slice, Begin(kind, s), UNCHANGED <<nfs, exited, parked, up>>
    PROVE  Service!Begin(kind, s)
<1>1. op = NoOp /\ op' # NoOp /\ op'.kind = kind /\ op'.slice = s
  BY Begins DEF IInv, Begin
<1>2. \A t : State(t)' = State(t)
  BY DEF State
<1> QED
  BY <1>1, <1>2 DEF Service!Begin, Service!Idle, NoOp

\* An operation that is over, or forgotten.
LEMMA EndIsEnd ==
    ASSUME IInv, op' = NoOp, UNCHANGED <<nfs, exited, parked, up>>
    PROVE  Service!End \/ UNCHANGED Service!vars
<1>1. \A t : State(t)' = State(t)
  BY DEF State
<1>2. op # NoOp => op.kind # "none"
  BY DEF IInv, TypeOK, Operation, Kind
<1> QED
  BY <1>1, <1>2 DEF Service!End, Service!Idle, Service!vars, NoOp

\* A slice one of whose containers is stopped by hand was not asleep.
LEMMA ByHandIsDrift ==
    ASSUME IInv, NEW s \in Slice, NEW k \in NF, StopByHand(s, k)
    PROVE  Service!Drift(s)
<1>1. /\ UNCHANGED <<parked, up>> /\ k \in nfs[s] /\ nfs'[s] = nfs[s] \ {k}
      /\ \A t \in Slice : t # s => nfs'[t] = nfs[t]
      /\ IF op = NoOp THEN op' = NoOp
         ELSE op' # NoOp /\ op'.kind = op.kind /\ op'.slice = op.slice
  BY ByHand DEF StopByHand
<1>2. \A t \in Slice : t # s => State(t)' = State(t)
  BY <1>1 DEF State
<1>3. State(s) # "DORMANT" /\ State(s)' # "ACTIVE"
  BY <1>1 DEF State
<1>4. PICK b \in Service!Status : b = State(s)'
  <2>1. State(s)' \in {"ACTIVE", "DORMANT", "DEGRADED"}
    BY DEF State
  <2> QED
    BY <2>1 DEF Service!Status
<1>5. State(s) = "ACTIVE" => b = "DEGRADED"
  BY <1>1, <1>4 DEF State, NF
<1>6. [t \in Slice |-> State(t)]' = [[t \in Slice |-> State(t)] EXCEPT ![s] = b]
  BY <1>2, <1>4
<1>7. State(s) \in {"ACTIVE", "DEGRADED"}
  BY <1>3, StateType
<1> QED
  BY <1>1, <1>4, <1>5, <1>6, <1>7 DEF Service!Drift

\* By themselves UEs come and go, but none of a slice that sleeps.
LEMMA DriftIsDrift ==
    ASSUME IInv, NEW s \in Slice, SessionsLost(s) \/ UesReturn(s)
    PROVE  Service!Drift(s)
<1>1. UNCHANGED <<nfs, exited, parked, op>>
  BY DEF containers, SessionsLost, UesReturn
<1>2. \A t \in Slice : t # s => up'[t] = up[t]
  BY DEF SessionsLost, UesReturn, IInv, TypeOK
<1>3. \A t \in Slice : t # s => State(t)' = State(t)
  BY <1>1, <1>2 DEF State
<1>4. State(s) # "DORMANT"
  BY DEF SessionsLost, UesReturn, State, NF
<1>5. State(s) = "ACTIVE" => State(s)' = "DEGRADED"
  BY <1>1 DEF SessionsLost, UesReturn, State, IInv, TypeOK, NF
<1>6. PICK b \in Service!Status : b = State(s)'
  <2>1. State(s)' \in {"ACTIVE", "DORMANT", "DEGRADED"}
    BY DEF State
  <2> QED
    BY <2>1 DEF Service!Status
<1>7. [t \in Slice |-> State(t)]' = [[t \in Slice |-> State(t)] EXCEPT ![s] = b]
  BY <1>3, <1>6
<1>8. State(s) \in {"ACTIVE", "DEGRADED"}
  BY <1>4, StateType
<1> QED
  BY <1>1, <1>5, <1>6, <1>7, <1>8 DEF Service!Drift

LEMMA NextIsNext == IInv /\ [Next]_vars => [Service!Next]_(Service!vars)
<1> SUFFICES ASSUME IInv, [Next]_vars PROVE Service!Next \/ UNCHANGED Service!vars
  OBVIOUS
<1>1. CASE UNCHANGED vars
  BY <1>1, Stutters DEF vars
<1>2. CASE Release \/ Crash
  BY <1>2, EndIsEnd DEF Release, Crash, world, containers, Service!Next
<1>3. CASE (Operate \/ Unexpected) /\ ~Release
  BY <1>3, StepIsWork DEF Service!Next
<1>4. ASSUME NEW kind \in Kind, NEW s \in Slice, Request(kind, s)
      PROVE  Service!Next
  BY <1>4, BeginIsBegin DEF Request, world, containers, Service!Next, Kind
<1>5. CASE AutoTick
  <2>1. ASSUME NEW d \in Kind \X Slice, Submit(d), op = NoOp
        PROVE  Service!Next
    <3>1. Service!Begin(d[1], d[2])
      BY <2>1, BeginIsBegin DEF Submit, world, containers
    <3> QED
      BY <3>1 DEF Service!Next, Kind
  <2>2. ASSUME NEW d \in Kind \X Slice, Submit(d), op # NoOp
        PROVE  UNCHANGED Service!vars
    BY <2>2, Stutters DEF Submit, world, containers
  <2>3. CASE Observe \/ AlignSwitch \/ EndTick \/ \E s \in Slice : CheckBusy(s)
    BY <2>3, Stutters DEF Observe, AlignSwitch, EndTick, CheckBusy, world, containers
  <2> QED
    BY <1>5, <2>1, <2>2, <2>3 DEF AutoTick
<1>6. CASE OrchestratorRestart \/ \E s \in Slice : AdmitDemand(s) \/ DemandEnds(s) \/ PlanChanges(s)
  BY <1>6, Stutters DEF OrchestratorRestart, AdmitDemand, DemandEnds, PlanChanges, world, containers
<1>7. ASSUME NEW s \in Slice, SessionsLost(s) \/ UesReturn(s)
      PROVE  Service!Next
  BY <1>7, DriftIsDrift DEF Service!Next
<1>8. ASSUME NEW s \in Slice, NEW k \in NF, Exits(s, k) \/ DockerRestarts(s, k)
      PROVE  UNCHANGED Service!vars
  BY <1>8, Stutters DEF Exits, DockerRestarts
<1>9. ASSUME NEW s \in Slice, NEW k \in NF, StopByHand(s, k)
      PROVE  Service!Next
  BY <1>9, ByHandIsDrift DEF Service!Next
<1> QED
  BY <1>1, <1>2, <1>3, <1>4, <1>5, <1>6, <1>7, <1>8, <1>9 DEF Next

\* The orchestrator implements the safety part of the service's contract: whatever fails,
\* one operation at a time, and a slice that sleeps is woken by an operation on it only.
THEOREM Refinement == Spec => Service!Safety
<1>1. Init => Service!Init
  BY DEF Init, Service!Init, Service!Idle, State, NoOp
<1> QED
  BY <1>1, NextIsNext, Invariance, PTL DEF Spec, Service!Safety
=============================================================================

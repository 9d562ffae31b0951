-------------------------- MODULE Orchestrator_proofs --------------------------
(***************************************************************************)
(* Proofs about the slice orchestrator for every deployment.  Admission:   *)
(* any slices, subscribers, demands, reservation and price, and any number *)
(* of demands at a time.  FlowExecution: any flows, devices, ports and any *)
(* room; ports are never shared, and the books balance at every step of    *)
(* every interleaving of run_flow, stop_flow and decide().                 *)
(***************************************************************************)
EXTENDS Admission, FlowExecution, FiniteSetTheorems, TLAPS

-----------------------------------------------------------------------------
(* Load is the sum of the rates *)

\* One demand holds as many units as its rate.
LEMMA UnitsOfOne ==
  ASSUME NEW f, f.mbps \in Nat
  PROVE  /\ IsFiniteSet({f} \X (1 .. f.mbps))
         /\ Cardinality({f} \X (1 .. f.mbps)) = f.mbps
<1>1. IsFiniteSet({f}) /\ Cardinality({f}) = 1
  BY FS_Singleton
<1>2. IsFiniteSet(1 .. f.mbps) /\ Cardinality(1 .. f.mbps) = f.mbps
  BY FS_Interval
<1>3. QED
  BY <1>1, <1>2, FS_Product

\* Fewer demands hold no more units.
LEMMA LoadOfFewer ==
  ASSUME NEW F, NEW G, G \subseteq F, IsFiniteSet(Units(F))
  PROVE  /\ IsFiniteSet(Units(G))
         /\ Load(G) \in Nat /\ Load(F) \in Nat
         /\ Load(G) <= Load(F)
<1>1. Units(G) \subseteq Units(F)
  BY DEF Units
<1>2. QED
  BY <1>1, FS_Subset, FS_CardinalityType DEF Load

\* Two disjoint finite sets count separately.
LEMMA DisjointUnion ==
  ASSUME NEW S, NEW T, IsFiniteSet(S), IsFiniteSet(T), S \cap T = {}
  PROVE  /\ IsFiniteSet(S \cup T)
         /\ Cardinality(S \cup T) = Cardinality(S) + Cardinality(T)
<1>1. /\ IsFiniteSet(S \cup T)
      /\ Cardinality(S \cup T) = Cardinality(S) + Cardinality(T) - Cardinality(S \cap T)
  BY FS_Union
<1>2. Cardinality(S \cap T) = 0
  BY FS_EmptySet
<1>3. Cardinality(S) \in Nat /\ Cardinality(T) \in Nat
  BY FS_CardinalityType
<1>4. QED
  BY <1>1, <1>2, <1>3

\* Admitting a demand adds its rate.
LEMMA LoadOfOneMore ==
  ASSUME NEW F, NEW f, f \notin F, f.mbps \in Nat, IsFiniteSet(Units(F))
  PROVE  /\ IsFiniteSet(Units(F \cup {f}))
         /\ Load(F \cup {f}) = Load(F) + f.mbps
<1> DEFINE U == {f} \X (1 .. f.mbps)
<1>1. Units(F \cup {f}) = Units(F) \cup U
  BY DEF Units
<1>2. Units(F) \cap U = {}
  BY DEF Units
<1>3. IsFiniteSet(U) /\ Cardinality(U) = f.mbps
  BY UnitsOfOne
<1> HIDE DEF U
<1>4. /\ IsFiniteSet(Units(F) \cup U)
      /\ Cardinality(Units(F) \cup U) = Cardinality(Units(F)) + Cardinality(U)
  BY <1>2, <1>3, DisjointUnion
<1>5. QED
  BY <1>1, <1>3, <1>4 DEF Load

\* Stopping demands gives back exactly what they held.
LEMMA LoadOfRest ==
  ASSUME NEW F, NEW V, V \subseteq F, IsFiniteSet(Units(F))
  PROVE  Load(F \ V) = Load(F) - Load(V)
<1>1. Units(F) = Units(F \ V) \cup Units(V)
  BY DEF Units
<1>2. Units(F \ V) \cap Units(V) = {}
  BY DEF Units
<1>3. IsFiniteSet(Units(V)) /\ IsFiniteSet(Units(F \ V))
  BY LoadOfFewer
<1>4. /\ Cardinality(Units(V)) \in Nat /\ Cardinality(Units(F \ V)) \in Nat
  BY <1>3, FS_CardinalityType
<1>5. Cardinality(Units(F)) = Cardinality(Units(F \ V)) + Cardinality(Units(V))
  BY <1>1, <1>2, <1>3, DisjointUnion
<1>6. QED
  BY <1>4, <1>5 DEF Load

\* Replacing a demand by one of the same rate changes nothing.
LEMMA LoadOfReplaced ==
  ASSUME NEW F, NEW f \in F, NEW d, d \notin F \ {f},
         f.mbps \in Nat, d.mbps = f.mbps, IsFiniteSet(Units(F))
  PROVE  /\ IsFiniteSet(Units((F \ {f}) \cup {d}))
         /\ Load((F \ {f}) \cup {d}) = Load(F)
<1> DEFINE R == F \ {f}
<1>1. IsFiniteSet(Units(R)) /\ R \cup {f} = F /\ f \notin R
  BY LoadOfFewer
<1> HIDE DEF R
<1>2. Load(R \cup {f}) = Load(R) + f.mbps
  BY <1>1, LoadOfOneMore
<1>3. IsFiniteSet(Units(R \cup {d})) /\ Load(R \cup {d}) = Load(R) + d.mbps
  BY <1>1, LoadOfOneMore DEF R
<1>4. QED
  BY <1>1, <1>2, <1>3 DEF R

-----------------------------------------------------------------------------
(* The inductive invariant *)

\* CapacityRespected is not inductive alone: that an admission only adds its
\* own rate needs the list to hold finitely many units and each demand once.
IInv == TypeOK /\ IsFiniteSet(Units(flows)) /\ CapacityRespected

\* Where a demand may go is a slice.
LEMMA FittingIsSlice ==
  ASSUME NEW supi \in Subscriber, NEW cls
  PROVE  Fitting(supi, cls) \subseteq Slice
BY DemandAssumption DEF Fitting

\* A reading gives every slice a natural.
LEMMA ReadingsType ==
  ASSUME TypeOK
  PROVE  Readings \subseteq [Slice -> Nat]
BY SliceAssumption DEF TypeOK, Readings

\* Taking a reading keeps the cache well-typed.
LEMMA MeasureType ==
  ASSUME TypeOK, NEW m \in Readings, Measure(m)
  PROVE  measured' \in [Slice -> Nat] /\ measured_ok' \in BOOLEAN
BY SliceAssumption DEF TypeOK, Readings, Measure

\* The limit of the moment lies under the policy capacity.
LEMMA LimitBounds ==
  ASSUME TypeOK, NEW s \in Slice
  PROVE  Limit(s) \in Nat /\ Limit(s) <= Capacity[s]
BY SliceAssumption DEF TypeOK, Limit, Smaller

\* Dropping demands from the list keeps the invariant.
LEMMA FewerFlows ==
  ASSUME IInv, flows' \subseteq flows
  PROVE  /\ flows' \subseteq Flow
         /\ \A f, g \in flows' : f.at = g.at => f = g
         /\ IsFiniteSet(Units(flows'))
         /\ \A s \in Slice : Allocated(flows', s) <= Capacity[s]
<1>1. IsFiniteSet(Units(flows'))
  BY LoadOfFewer DEF IInv
<1>2. ASSUME NEW s \in Slice
      PROVE  Allocated(flows', s) <= Capacity[s]
  <2>1. On(flows', s) \subseteq On(flows, s) /\ On(flows, s) \subseteq flows
    BY DEF On
  <2>2. IsFiniteSet(Units(On(flows, s)))
    BY <2>1, LoadOfFewer DEF IInv
  <2>3. /\ Load(On(flows', s)) <= Load(On(flows, s))
        /\ Load(On(flows', s)) \in Nat /\ Load(On(flows, s)) \in Nat
    BY <2>1, <2>2, LoadOfFewer
  <2>4. Load(On(flows, s)) <= Capacity[s] /\ Capacity[s] \in Nat
    BY SliceAssumption DEF IInv, CapacityRespected, Allocated
  <2>5. QED
    BY <2>3, <2>4 DEF Allocated
<1>3. QED
  BY <1>1, <1>2 DEF IInv, TypeOK

\* Admitting a demand that fits next to the demands that stay keeps it too.
LEMMA AdmitKeeps ==
  ASSUME IInv,
         NEW V \in SUBSET flows, NEW supi \in Subscriber, NEW cls \in Class,
         NEW need \in Nat, NEW s \in Slice,
         Admit(Unexpired(flows), V, supi, cls, need, s),
         Allocated(Unexpired(flows) \ V, s) + need <= Capacity[s]
  PROVE  /\ flows' \subseteq Flow
         /\ \A f, g \in flows' : f.at = g.at => f = g
         /\ IsFiniteSet(Units(flows'))
         /\ \A t \in Slice : Allocated(flows', t) <= Capacity[t]
<1> DEFINE R == Unexpired(flows) \ V
<1>1. R \subseteq flows
  BY DEF Unexpired
<1>2. PICK at \in Next_at(flows), started \in {TRUE, ~Execute} :
        flows' = R \cup {[at |-> at, supi |-> supi, cls |-> cls, mbps |-> need, slice |-> s,
                          arp |-> Arp[supi][s], held |-> started]}
  BY DEF Admit
<1> DEFINE g == [at |-> at, supi |-> supi, cls |-> cls, mbps |-> need, slice |-> s,
                 arp |-> Arp[supi][s], held |-> started]
<1>3. g \in Flow /\ g.mbps = need /\ g.slice = s /\ g.at = at
  BY DemandAssumption DEF Flow, Next_at
<1>4. flows \subseteq Flow /\ \A f \in flows : f.at # at
  BY DemandAssumption DEF IInv, TypeOK, Next_at, Flow
<1>5. flows' = R \cup {g} /\ g \notin flows
  BY <1>2, <1>3, <1>4
<1> HIDE DEF g, R
<1>6. IsFiniteSet(Units(R))
  BY <1>1, LoadOfFewer DEF IInv
<1>7. IsFiniteSet(Units(flows'))
  BY <1>1, <1>3, <1>5, <1>6, LoadOfOneMore
<1>8. ASSUME NEW t \in Slice
      PROVE  Allocated(flows', t) <= Capacity[t]
  <2>1. /\ On(R, t) \subseteq R /\ On(R, t) \subseteq On(flows, t) /\ On(flows, t) \subseteq flows
    BY <1>1 DEF On
  <2>2. IsFiniteSet(Units(On(R, t))) /\ IsFiniteSet(Units(On(flows, t)))
    BY <2>1, <1>6, LoadOfFewer DEF IInv
  <2>3. CASE t = s
    <3>1. On(flows', t) = On(R, t) \cup {g}
      BY <1>3, <1>5, <2>3 DEF On
    <3>2. g \notin On(R, t)
      BY <1>1, <1>5 DEF On
    <3>3. Load(On(flows', t)) = Load(On(R, t)) + need
      BY <1>3, <2>2, <3>1, <3>2, LoadOfOneMore
    <3>4. QED
      BY <2>3, <3>3 DEF Allocated, R
  <2>4. CASE t # s
    <3>1. On(flows', t) = On(R, t)
      BY <1>3, <1>5, <2>4 DEF On
    <3>2. Load(On(R, t)) <= Load(On(flows, t)) /\ Load(On(R, t)) \in Nat /\ Load(On(flows, t)) \in Nat
      BY <2>1, <2>2, LoadOfFewer
    <3>3. Load(On(flows, t)) <= Capacity[t] /\ Capacity[t] \in Nat
      BY SliceAssumption DEF IInv, CapacityRespected, Allocated
    <3>4. QED
      BY <3>1, <3>2, <3>3 DEF Allocated
  <2>5. QED
    BY <2>3, <2>4
<1>9. /\ flows' \subseteq Flow
      /\ \A f, h \in flows' : f.at = h.at => f = h
  BY <1>1, <1>3, <1>4, <1>5 DEF IInv, TypeOK
<1>10. QED
  BY <1>7, <1>8, <1>9

\* The end of a hold changes no rate.
LEMMA HoldEndsKeeps ==
  ASSUME IInv, NEW f \in flows, HoldEnds(f)
  PROVE  IInv'
<1> DEFINE d == [f EXCEPT !.held = FALSE]
           R == flows \ {f}
<1>1. flows' = R \cup {d}
  BY DEF HoldEnds
<1>2. f \in Flow /\ d \in Flow /\ d.at = f.at /\ d.mbps = f.mbps /\ d.slice = f.slice
      /\ d.mbps \in Nat
  BY DEF IInv, TypeOK, Flow
<1>3. \A g \in R : g.at # d.at
  BY <1>2 DEF IInv, TypeOK
<1>4. d \notin R /\ R \subseteq flows
  BY <1>3
<1> HIDE DEF d
<1>6. IsFiniteSet(Units(flows'))
  BY <1>1, <1>2, <1>4, LoadOfReplaced DEF IInv
<1>7. ASSUME NEW s \in Slice
      PROVE  Allocated(flows', s) = Allocated(flows, s)
  <2>1. IsFiniteSet(Units(On(flows, s))) /\ On(flows, s) \ {f} \subseteq R
    <3>1. On(flows, s) \subseteq flows
      BY DEF On
    <3>2. QED
      BY <3>1, LoadOfFewer DEF IInv
  <2>2. CASE f.slice = s
    <3>1. On(flows', s) = (On(flows, s) \ {f}) \cup {d} /\ f \in On(flows, s)
      BY <1>1, <1>2, <2>2 DEF On
    <3>2. d \notin On(flows, s) \ {f}
      BY <1>4, <2>1
    <3>3. f.mbps \in Nat /\ d.mbps = f.mbps
      BY <1>2
    <3>4. Load((On(flows, s) \ {f}) \cup {d}) = Load(On(flows, s))
      BY <2>1, <3>1, <3>2, <3>3, LoadOfReplaced
    <3>5. QED
      BY <3>1, <3>4 DEF Allocated
  <2>3. CASE f.slice # s
    <3>1. On(flows', s) = On(flows, s)
      BY <1>1, <1>2, <2>3 DEF On
    <3>2. QED
      BY <3>1 DEF Allocated
  <2>4. QED
    BY <2>2, <2>3
<1>8. CapacityRespected'
  BY <1>7 DEF IInv, CapacityRespected
<1>9. /\ flows' \subseteq Flow
      /\ \A g, h \in flows' : g.at = h.at => g = h
  BY <1>1, <1>2, <1>3 DEF IInv, TypeOK
<1>10. TypeOK'
  BY <1>9 DEF IInv, TypeOK, HoldEnds
<1>11. QED
  BY <1>6, <1>8, <1>10 DEF IInv

\* An admission into free room keeps the slice within its capacity.
LEMMA DecideAdmitKeeps ==
  ASSUME IInv, NEW supi \in Subscriber, NEW cls \in Class, NEW need \in Nat,
         DecideAdmit(supi, cls, need)
  PROVE  IInv'
<1> DEFINE F == Unexpired(flows)
<1>1. PICK m \in Readings :
        /\ Measure(m)
        /\ \E s \in Roomiest(F, m, Kept(F, m, Fitting(supi, cls), cls, need)) :
              Admit(F, {}, supi, cls, need, s)
  BY DEF DecideAdmit
<1>2. PICK s \in Roomiest(F, m, Kept(F, m, Fitting(supi, cls), cls, need)) :
        Admit(F, {}, supi, cls, need, s)
  BY <1>1
<1>3. s \in Slice /\ InUse(F, m, s) + need <= Limit(s)
  BY FittingIsSlice DEF Roomiest, Kept, Roomy
<1>4. m[s] \in Nat
  BY <1>3, ReadingsType DEF IInv
<1>5. On(F, s) \subseteq flows
  BY DEF On, Unexpired
<1>6. Allocated(F, s) \in Nat
  BY <1>5, LoadOfFewer DEF IInv, Allocated
<1>7. Limit(s) \in Nat /\ Limit(s) <= Capacity[s] /\ Capacity[s] \in Nat
  BY <1>3, LimitBounds, SliceAssumption DEF IInv
<1>8. Allocated(F, s) + need <= Capacity[s]
  BY <1>3, <1>4, <1>6, <1>7 DEF InUse, Larger
<1>9. F \ {} = F
  OBVIOUS
<1>10. Admit(Unexpired(flows), {}, supi, cls, need, s)
       /\ Allocated(Unexpired(flows) \ {}, s) + need <= Capacity[s]
  BY <1>2, <1>8, <1>9
<1>11. /\ flows' \subseteq Flow
       /\ \A f, g \in flows' : f.at = g.at => f = g
       /\ IsFiniteSet(Units(flows'))
       /\ \A t \in Slice : Allocated(flows', t) <= Capacity[t]
  BY <1>3, <1>10, AdmitKeeps
<1>12. measured' \in [Slice -> Nat] /\ measured_ok' \in BOOLEAN
  BY <1>1, MeasureType DEF IInv
<1>13. QED
  BY <1>11, <1>12 DEF IInv, TypeOK, CapacityRespected, DecideAdmit

\* What a choice of victims is: on the slice, of lower priority, enough.
LEMMA VictimsAre ==
  ASSUME NEW F, NEW m, NEW s, NEW arp, NEW need, NEW V \in Victims(F, m, s, arp, need)
  PROVE  /\ arp.may_preempt
         /\ V \subseteq Preemptable(F, s, arp)
         /\ V \subseteq On(F, s)
         /\ FitsWithout(F, m, s, V, need)
BY DEF Victims, Preemptable

\* An option of the cheapest is a slice with its victims.
LEMMA CheapestIs ==
  ASSUME NEW F, NEW m, NEW supi \in Subscriber, NEW cls, NEW need,
         NEW o \in Cheapest(PreemptOptions(F, m, supi, cls, need))
  PROVE  /\ o.slice \in Slice
         /\ o.victims \in Victims(F, m, o.slice, Arp[supi][o.slice], need)
<1>1. o \in PreemptOptions(F, m, supi, cls, need)
  BY DEF Cheapest
<1>2. PICK s \in Fitting(supi, cls) : \E V \in Victims(F, m, s, Arp[supi][s], need) :
        o = [slice |-> s, victims |-> V]
  BY <1>1 DEF PreemptOptions
<1>3. QED
  BY <1>2, FittingIsSlice

\* So does an admission in the place of the victims.
LEMMA DecidePreemptKeeps ==
  ASSUME IInv, NEW supi \in Subscriber, NEW cls \in Class, NEW need \in Nat,
         DecidePreempt(supi, cls, need)
  PROVE  IInv'
<1> DEFINE F == Unexpired(flows)
<1>1. PICK m \in Readings :
        /\ Measure(m)
        /\ \E o \in Cheapest(PreemptOptions(F, m, supi, cls, need)) :
              Admit(F, o.victims, supi, cls, need, o.slice)
  BY DEF DecidePreempt
<1>2. PICK o \in Cheapest(PreemptOptions(F, m, supi, cls, need)) :
        Admit(F, o.victims, supi, cls, need, o.slice)
  BY <1>1
<1> DEFINE s == o.slice
           V == o.victims
<1>3. s \in Slice /\ V \subseteq On(F, s) /\ FitsWithout(F, m, s, V, need)
  BY CheapestIs, VictimsAre
<1>4. m[s] \in Nat
  BY <1>3, ReadingsType DEF IInv
<1>5. On(F, s) \subseteq flows
  BY DEF On, Unexpired
<1>6. IsFiniteSet(Units(On(F, s)))
  BY <1>5, LoadOfFewer DEF IInv
<1>7. Load(On(F, s)) \in Nat /\ Load(V) \in Nat /\ Load(On(F, s) \ V) = Load(On(F, s)) - Load(V)
  BY <1>3, <1>6, LoadOfFewer, LoadOfRest
<1>8. On(F \ V, s) = On(F, s) \ V
  BY DEF On
<1>9. Limit(s) \in Nat /\ Limit(s) <= Capacity[s] /\ Capacity[s] \in Nat
  BY <1>3, LimitBounds, SliceAssumption DEF IInv
<1>10. Allocated(F \ V, s) + need <= Capacity[s]
  <2>1. Allocated(F \ V, s) = Allocated(F, s) - Load(V)
    BY <1>7, <1>8 DEF Allocated
  <2>2. Allocated(F, s) \in Nat /\ Allocated(F, s) - Load(V) + need <= Limit(s)
    BY <1>3, <1>4, <1>7, <1>9 DEF FitsWithout, Larger, Allocated
  <2>3. QED
    BY <2>1, <2>2, <1>7, <1>9
<1>11. V \in SUBSET flows
  BY <1>3, <1>5
<1>12. Admit(Unexpired(flows), V, supi, cls, need, s)
       /\ Allocated(Unexpired(flows) \ V, s) + need <= Capacity[s]
  BY <1>2, <1>10
<1>13. /\ flows' \subseteq Flow
       /\ \A f, g \in flows' : f.at = g.at => f = g
       /\ IsFiniteSet(Units(flows'))
       /\ \A t \in Slice : Allocated(flows', t) <= Capacity[t]
  BY <1>3, <1>11, <1>12, AdmitKeeps
<1>14. measured' \in [Slice -> Nat] /\ measured_ok' \in BOOLEAN
  BY <1>1, MeasureType DEF IInv
<1>15. QED
  BY <1>13, <1>14 DEF IInv, TypeOK, CapacityRespected, DecidePreempt

\* The switch, the sweeps and a refusal leave the list or shorten it.
LEMMA OthersKeep ==
  ASSUME IInv,
         \/ \E supi \in Subscriber, cls \in Class, need \in Nat : DecideRefuse(supi, cls, need)
         \/ Sweep
         \/ \E s \in Slice, b \in BOOLEAN : SetActive(s, b)
         \/ ControlStep
  PROVE  IInv'
<1>1. flows' \subseteq flows
  BY DEF DecideRefuse, Sweep, SetActive, ControlStep, Unexpired
<1>2. measured' \in [Slice -> Nat] /\ measured_ok' \in BOOLEAN
  <2>1. CASE \E m \in Readings : Measure(m)
    BY <2>1, MeasureType DEF IInv
  <2>2. CASE UNCHANGED <<measured, measured_ok>>
    BY <2>2 DEF IInv, TypeOK
  <2>3. QED
    BY <2>1, <2>2 DEF DecideRefuse, Sweep, SetActive, ControlStep
<1>3. limits' \in [Slice -> Nat]
  <2>1. CASE ControlStep
    <3> DEFINE band(s) == IF s \in Throttle THEN Floor[s] .. Capacity[s] ELSE {limits[s]}
    <3>1. /\ limits' \in [Slice -> UNION {band(s) : s \in Slice}]
          /\ \A s \in Slice : limits'[s] \in band(s)
      BY <2>1 DEF ControlStep
    <3>2. ASSUME NEW s \in Slice PROVE band(s) \subseteq Nat
      BY SliceAssumption DEF IInv, TypeOK
    <3>3. ASSUME NEW s \in Slice PROVE limits'[s] \in Nat
      BY <3>1, <3>2
    <3> HIDE DEF band
    <3>4. QED
      BY <3>1, <3>3
  <2>2. CASE UNCHANGED limits
    BY <2>2 DEF IInv, TypeOK
  <2>3. QED
    BY <2>1, <2>2 DEF DecideRefuse, Sweep, SetActive
<1>4. active' \in [Slice -> BOOLEAN] /\ policy' \in Policies
  BY DEF IInv, TypeOK, DecideRefuse, Sweep, SetActive, ControlStep
<1>5. QED
  BY <1>1, <1>2, <1>3, <1>4, FewerFlows DEF IInv, TypeOK, CapacityRespected

\* An empty list holds nothing.
LEMMA EmptyHoldsNothing ==
  ASSUME NEW s \in Slice
  PROVE  Allocated({}, s) = 0 /\ IsFiniteSet(Units({}))
<1>1. Units({}) = {} /\ On({}, s) = {}
  BY DEF Units, On
<1>2. QED
  BY <1>1, FS_EmptySet DEF Allocated, Load

LEMMA InitInv == Init => IInv
<1> SUFFICES ASSUME Init PROVE IInv
  OBVIOUS
<1>1. TypeOK
  BY SliceAssumption DEF Init, TypeOK, Idle
<1>2. IsFiniteSet(Units(flows))
  <2>1. Units({}) = {}
    BY DEF Units
  <2>2. QED
    BY <2>1, FS_EmptySet DEF Init
<1>3. CapacityRespected
  BY EmptyHoldsNothing, SliceAssumption DEF Init, CapacityRespected
<1>4. QED
  BY <1>1, <1>2, <1>3 DEF IInv

LEMMA NextInv == IInv /\ [Next]_vars => IInv'
<1> SUFFICES ASSUME IInv, [Next]_vars PROVE IInv'
  OBVIOUS
<1>1. CASE Decide
  <2>1. PICK d \in Demands :
          \/ DecideAdmit(d[1], d[2], d[3])
          \/ DecidePreempt(d[1], d[2], d[3])
          \/ DecideRefuse(d[1], d[2], d[3])
    BY <1>1 DEF Decide
  <2>2. d[1] \in Subscriber /\ d[2] \in Class /\ d[3] \in Nat
    BY DemandAssumption
  <2>3. QED
    BY <2>1, <2>2, DecideAdmitKeeps, DecidePreemptKeeps, OthersKeep
<1>2. CASE \E f \in flows : HoldEnds(f)
  BY <1>2, HoldEndsKeeps
<1>3. CASE Sweep
  BY <1>3, OthersKeep
<1>4. CASE \E s \in Slice, b \in BOOLEAN : SetActive(s, b)
  BY <1>4, OthersKeep
<1>5. CASE ControlStep
  BY <1>5, OthersKeep
<1>6. CASE Restart
  <2>1. TypeOK'
    BY <1>6, SliceAssumption DEF TypeOK, Restart, Idle
  <2>2. IsFiniteSet(Units(flows))'
    <3>1. Units({}) = {}
      BY DEF Units
    <3>2. QED
      BY <1>6, <3>1, FS_EmptySet DEF Restart
  <2>3. CapacityRespected'
    BY <1>6, EmptyHoldsNothing, SliceAssumption DEF Restart, CapacityRespected
  <2>4. QED
    BY <2>1, <2>2, <2>3 DEF IInv
<1>7. CASE UNCHANGED vars
  <2>1. flows' \subseteq flows
    BY <1>7 DEF vars
  <2>2. QED
    BY <1>7, <2>1, FewerFlows DEF vars, IInv, TypeOK, CapacityRespected
<1>8. QED
  BY <1>1, <1>2, <1>3, <1>4, <1>5, <1>6, <1>7 DEF Next

-----------------------------------------------------------------------------
(* What one step admits and stops *)

\* An admission adds one demand, at a position of its own, and stops exactly
\* the victims.
LEMMA AdmitAddsOne ==
  ASSUME IInv,
         NEW V \in SUBSET Unexpired(flows), NEW supi, NEW cls, NEW need, NEW s,
         Admit(Unexpired(flows), V, supi, cls, need, s)
  PROVE  /\ Stopped = V
         /\ \E g : /\ New = {g} /\ g \notin Unexpired(flows) \ V
                   /\ flows' = (Unexpired(flows) \ V) \cup {g}
                   /\ g.slice = s /\ g.mbps = need /\ g.cls = cls /\ g.arp = Arp[supi][s]
<1> DEFINE R == Unexpired(flows) \ V
<1>1. PICK at \in Next_at(flows), started \in {TRUE, ~Execute} :
        flows' = R \cup {[at |-> at, supi |-> supi, cls |-> cls, mbps |-> need, slice |-> s,
                          arp |-> Arp[supi][s], held |-> started]}
  BY DEF Admit
<1> DEFINE g == [at |-> at, supi |-> supi, cls |-> cls, mbps |-> need, slice |-> s,
                 arp |-> Arp[supi][s], held |-> started]
<1>2. /\ g.at = at /\ g.slice = s /\ g.mbps = need /\ g.cls = cls /\ g.arp = Arp[supi][s]
      /\ flows' = R \cup {g}
  BY <1>1
<1> HIDE DEF g
<1>3. \A f \in flows : f.at # g.at
  <2>1. at \in Nat /\ \A f \in flows : f.at < at
    BY DemandAssumption DEF Next_at
  <2>2. \A f \in flows : f.at \in Nat
    BY DemandAssumption DEF IInv, TypeOK, Flow
  <2>3. QED
    BY <1>2, <2>1, <2>2
<1>4. R \subseteq flows /\ g \notin R
  BY <1>3 DEF Unexpired
<1>5. New = {g}
  BY <1>2, <1>3, <1>4 DEF New
<1>6. ASSUME NEW f \in Stopped
      PROVE  f \in V
  <2>1. f \in flows /\ f.held /\ f \notin flows'
    BY DEF Stopped
  <2>2. QED
    BY <1>2, <2>1 DEF Unexpired
<1>7. ASSUME NEW f \in V
      PROVE  f \in Stopped
  <2>1. f \in flows /\ f.held
    BY DEF Unexpired
  <2>2. \A h \in R : h.at # f.at
    BY <1>4, <2>1 DEF IInv, TypeOK
  <2>3. QED
    BY <1>2, <1>3, <2>1, <2>2 DEF Stopped
<1>8. QED
  BY <1>2, <1>4, <1>5, <1>6, <1>7

\* The other steps neither admit nor stop anything; a restart forgets all.
LEMMA OthersAddNone ==
  ASSUME IInv, [Next]_vars, ~Decide \/ UNCHANGED flows \/ flows' = Unexpired(flows)
  PROVE  New = {} /\ (Stopped = {} \/ flows' = {})
<1>1. CASE flows' = Unexpired(flows)
  BY <1>1 DEF New, Stopped, Unexpired
<1>2. CASE UNCHANGED flows
  BY <1>2 DEF New, Stopped
<1>3. CASE \E f \in flows : HoldEnds(f)
  <2>1. PICK f \in flows : flows' = (flows \ {f}) \cup {[f EXCEPT !.held = FALSE]}
    BY <1>3 DEF HoldEnds
  <2>2. [f EXCEPT !.held = FALSE].at = f.at
    BY DEF IInv, TypeOK, Flow
  <2>3. QED
    BY <2>1, <2>2 DEF New, Stopped
<1>4. CASE Restart
  BY <1>4 DEF New, Restart
<1>5. QED
  BY <1>1, <1>2, <1>3, <1>4 DEF Next, vars, Sweep, SetActive, ControlStep

\* A refusal neither.
LEMMA RefuseAddsNone ==
  ASSUME NEW supi, NEW cls, NEW need, DecideRefuse(supi, cls, need)
  PROVE  New = {} /\ Stopped = {}
BY DEF DecideRefuse, New, Stopped, Unexpired

\* The three ways a step that admits or stops something can come about.
LEMMA StepCases ==
  ASSUME IInv, [Next]_vars
  PROVE  \/ New = {} /\ (Stopped = {} \/ flows' = {})
         \/ \E supi \in Subscriber, cls \in Class, need \in Nat :
               DecideAdmit(supi, cls, need) \/ DecidePreempt(supi, cls, need)
<1>1. CASE Decide
  <2>1. PICK d \in Demands :
          \/ DecideAdmit(d[1], d[2], d[3])
          \/ DecidePreempt(d[1], d[2], d[3])
          \/ DecideRefuse(d[1], d[2], d[3])
    BY <1>1 DEF Decide
  <2>2. d[1] \in Subscriber /\ d[2] \in Class /\ d[3] \in Nat
    BY DemandAssumption
  <2>3. QED
    BY <2>1, <2>2, RefuseAddsNone
<1>2. CASE ~Decide
  BY <1>2, OthersAddNone
<1>3. QED
  BY <1>1, <1>2

\* Admission into free room: one demand more, nothing stopped, and it fits.
LEMMA DecideAdmitDoes ==
  ASSUME IInv, NEW supi \in Subscriber, NEW cls, NEW need \in Nat,
         DecideAdmit(supi, cls, need)
  PROVE  \E s \in Slice : \E g :
           /\ Stopped = {} /\ New = {g} /\ g \notin Unexpired(flows)
           /\ flows' = Unexpired(flows) \cup {g}
           /\ g.slice = s /\ g.mbps = need /\ g.cls = cls /\ g.arp = Arp[supi][s]
           /\ measured'[s] \in Nat
           /\ InUse(Unexpired(flows), measured', s) + need <= Limit(s)
           /\ AdmissionAllows(Unexpired(flows), measured', s, cls, need)
<1> DEFINE F == Unexpired(flows)
<1>1. PICK m \in Readings :
        /\ Measure(m)
        /\ \E s \in Roomiest(F, m, Kept(F, m, Fitting(supi, cls), cls, need)) :
              Admit(F, {}, supi, cls, need, s)
  BY DEF DecideAdmit
<1>2. PICK s \in Roomiest(F, m, Kept(F, m, Fitting(supi, cls), cls, need)) :
        Admit(F, {}, supi, cls, need, s)
  BY <1>1
<1>3. /\ s \in Slice /\ InUse(F, m, s) + need <= Limit(s)
      /\ AdmissionAllows(F, m, s, cls, need)
  BY FittingIsSlice DEF Roomiest, Kept, Roomy
<1>4. m = measured'
  BY <1>1 DEF Measure
<1>5. m[s] \in Nat
  BY <1>3, ReadingsType DEF IInv
<1>6. /\ Stopped = {}
      /\ \E g : /\ New = {g} /\ g \notin F \ {}
                /\ flows' = (F \ {}) \cup {g}
                /\ g.slice = s /\ g.mbps = need /\ g.cls = cls /\ g.arp = Arp[supi][s]
  <2> DEFINE V == {}
  <2>1. V \in SUBSET F /\ Admit(F, V, supi, cls, need, s)
    BY <1>2
  <2> HIDE DEF V
  <2>2. /\ Stopped = V
        /\ \E g : /\ New = {g} /\ g \notin F \ V
                  /\ flows' = (F \ V) \cup {g}
                  /\ g.slice = s /\ g.mbps = need /\ g.cls = cls /\ g.arp = Arp[supi][s]
    BY <2>1, AdmitAddsOne
  <2>3. QED
    BY <2>2 DEF V
<1>7. F \ {} = F
  OBVIOUS
<1>8. QED
  BY <1>3, <1>4, <1>5, <1>6, <1>7

\* Pre-emption: one demand in the place of its victims.
LEMMA DecidePreemptDoes ==
  ASSUME IInv, NEW supi \in Subscriber, NEW cls, NEW need \in Nat,
         DecidePreempt(supi, cls, need)
  PROVE  \E s \in Slice : \E g :
           /\ New = {g} /\ g \notin Unexpired(flows) \ Stopped
           /\ flows' = (Unexpired(flows) \ Stopped) \cup {g}
           /\ g.slice = s /\ g.mbps = need /\ g.cls = cls /\ g.arp = Arp[supi][s]
           /\ measured'[s] \in Nat
           /\ Stopped \in Victims(Unexpired(flows), measured', s, g.arp, need)
<1> DEFINE F == Unexpired(flows)
<1>1. PICK m \in Readings :
        /\ Measure(m)
        /\ \E o \in Cheapest(PreemptOptions(F, m, supi, cls, need)) :
              Admit(F, o.victims, supi, cls, need, o.slice)
  BY DEF DecidePreempt
<1>2. PICK o \in Cheapest(PreemptOptions(F, m, supi, cls, need)) :
        Admit(F, o.victims, supi, cls, need, o.slice)
  BY <1>1
<1>3. /\ o.slice \in Slice
      /\ o.victims \in Victims(F, m, o.slice, Arp[supi][o.slice], need)
  BY CheapestIs
<1>4. o.victims \in SUBSET F
  BY <1>3, VictimsAre DEF On
<1>5. m = measured'
  BY <1>1 DEF Measure
<1>6. m[o.slice] \in Nat
  BY <1>3, ReadingsType DEF IInv
<1>7. /\ Stopped = o.victims
      /\ \E g : /\ New = {g} /\ g \notin F \ o.victims
                /\ flows' = (F \ o.victims) \cup {g}
                /\ g.slice = o.slice /\ g.mbps = need /\ g.cls = cls
                /\ g.arp = Arp[supi][o.slice]
  BY <1>2, <1>4, AdmitAddsOne
<1>8. QED
  BY <1>3, <1>5, <1>6, <1>7

-----------------------------------------------------------------------------
(* Theorems *)

\* The inductive invariant holds in every state.
THEOREM Invariance == Spec => []IInv
BY InitInv, NextInv, PTL DEF Spec

\* Every state of the slice orchestrator is well-typed, and no two demands in
\* its list were admitted at the same position.
THEOREM TypeCorrect == Spec => []TypeOK
<1>1. IInv => TypeOK
  BY DEF IInv
<1>2. QED
  BY <1>1, Invariance, PTL

\* The demands admitted onto a slice never add up to more than its capacity,
\* for any deployment, policy, controller law, preemption and restart.
THEOREM CapacityTheorem == Spec => []CapacityRespected
<1>1. IInv => CapacityRespected
  BY DEF IInv
<1>2. QED
  BY <1>1, Invariance, PTL

\* A demand that still holds capacity loses it only to one on its slice that
\* may pre-empt and ranks strictly higher, or to a restart of the process.
THEOREM PriorityTheorem == Spec => PreemptedOnlyByHigherPriority
<1> DEFINE A == flows' # {} => \A f \in Stopped : \E g \in New :
                  /\ g.slice = f.slice
                  /\ g.arp.may_preempt
                  /\ f.arp.preemptable
                  /\ g.arp.priority < f.arp.priority
<1>1. IInv /\ [Next]_vars => [A]_vars
  <2> SUFFICES ASSUME IInv, [Next]_vars PROVE A
    OBVIOUS
  <2>1. CASE New = {} /\ (Stopped = {} \/ flows' = {})
    BY <2>1
  <2>2. ASSUME NEW supi \in Subscriber, NEW cls \in Class, NEW need \in Nat,
               DecideAdmit(supi, cls, need)
        PROVE  A
    BY <2>2, DecideAdmitDoes
  <2>3. ASSUME NEW supi \in Subscriber, NEW cls \in Class, NEW need \in Nat,
               DecidePreempt(supi, cls, need)
        PROVE  A
    <3>1. PICK s, g :
            /\ s \in Slice /\ New = {g} /\ g.slice = s /\ g.arp = Arp[supi][s]
            /\ Stopped \in Victims(Unexpired(flows), measured', s, g.arp, need)
      BY <2>3, DecidePreemptDoes
    <3>2. g.arp.may_preempt /\ Stopped \subseteq Preemptable(Unexpired(flows), s, g.arp)
      BY <3>1, VictimsAre
    <3>3. \A f \in Stopped : /\ f.slice = s /\ f.arp.preemptable
                             /\ f.arp.priority > g.arp.priority /\ f \in Flow
      BY <3>2 DEF Preemptable, On, Unexpired, IInv, TypeOK
    <3>4. g.arp.priority \in Nat
      BY <3>1, DemandAssumption DEF ArpRecord
    <3>5. \A f \in Stopped : g.arp.priority < f.arp.priority
      BY <3>3, <3>4 DEF Flow, ArpRecord
    <3>6. QED
      BY <3>1, <3>2, <3>3, <3>5
  <2>4. QED
    BY <2>1, <2>2, <2>3, StepCases
<1>2. QED
  BY <1>1, Invariance, PTL DEF Spec, PreemptedOnlyByHigherPriority

\* No demand is admitted above the limit of its slice at that moment, counting
\* what is measured as well as what is admitted.
THEOREM LimitTheorem == Spec => AdmittedWithinLimit
<1> DEFINE A == \A g \in New : g.held =>
                  Larger(Allocated(flows', g.slice),
                         measured'[g.slice] - Load(Stopped) + g.mbps) <= Limit(g.slice)
<1>1. IInv /\ [Next]_vars => [A]_vars
  <2> SUFFICES ASSUME IInv, [Next]_vars PROVE A
    OBVIOUS
  <2> DEFINE F == Unexpired(flows)
  <2>1. \A s \in Slice : /\ IsFiniteSet(Units(On(F, s)))
                         /\ Limit(s) \in Nat
    <3>1. \A s \in Slice : On(F, s) \subseteq flows
      BY DEF On, Unexpired
    <3>2. QED
      BY <3>1, LoadOfFewer, LimitBounds DEF IInv
  <2>2. CASE New = {}
    BY <2>2
  <2>3. ASSUME NEW supi \in Subscriber, NEW cls \in Class, NEW need \in Nat,
               DecideAdmit(supi, cls, need)
        PROVE  A
    <3>1. PICK s, g :
            /\ s \in Slice /\ Stopped = {} /\ New = {g} /\ g \notin F /\ flows' = F \cup {g}
            /\ g.slice = s /\ g.mbps = need
            /\ measured'[s] \in Nat
            /\ InUse(F, measured', s) + need <= Limit(s)
      BY <2>3, DecideAdmitDoes
    <3>2. On(flows', s) = On(F, s) \cup {g} /\ g \notin On(F, s)
      BY <3>1 DEF On
    <3>3. Load(On(flows', s)) = Load(On(F, s)) + need
      BY <2>1, <3>1, <3>2, LoadOfOneMore
    <3>4. Load(On(F, s)) \in Nat
      BY <2>1, <3>1, LoadOfFewer
    <3>5. Load({}) = 0
      <4>1. Units({}) = {}
        BY DEF Units
      <4>2. QED
        BY <4>1, FS_EmptySet DEF Load
    <3>6. Larger(Load(On(flows', s)), measured'[s] - 0 + need) <= Limit(s)
      BY <2>1, <3>1, <3>3, <3>4 DEF InUse, Larger, Allocated
    <3>7. QED
      BY <3>1, <3>5, <3>6 DEF Allocated
  <2>4. ASSUME NEW supi \in Subscriber, NEW cls \in Class, NEW need \in Nat,
               DecidePreempt(supi, cls, need)
        PROVE  A
    <3>1. PICK s, g :
            /\ s \in Slice /\ New = {g} /\ g \notin F \ Stopped /\ flows' = (F \ Stopped) \cup {g}
            /\ g.slice = s /\ g.mbps = need
            /\ measured'[s] \in Nat
            /\ Stopped \in Victims(F, measured', s, g.arp, need)
      BY <2>4, DecidePreemptDoes
    <3>2. Stopped \subseteq On(F, s) /\ FitsWithout(F, measured', s, Stopped, need)
      BY <3>1, VictimsAre
    <3>3. On(flows', s) = (On(F, s) \ Stopped) \cup {g} /\ g \notin On(F, s) \ Stopped
      BY <3>1 DEF On
    <3>4. /\ Load(On(F, s) \ Stopped) = Load(On(F, s)) - Load(Stopped)
          /\ Load(On(F, s)) \in Nat /\ Load(Stopped) \in Nat
          /\ IsFiniteSet(Units(On(F, s) \ Stopped))
      BY <2>1, <3>1, <3>2, LoadOfFewer, LoadOfRest
    <3>5. Load(On(flows', s)) = Load(On(F, s)) - Load(Stopped) + need
      BY <3>1, <3>3, <3>4, LoadOfOneMore
    <3>6. Larger(Load(On(flows', s)), measured'[s] - Load(Stopped) + need) <= Limit(s)
      BY <2>1, <3>1, <3>2, <3>4, <3>5 DEF FitsWithout, Larger, Allocated
    <3>7. QED
      BY <3>1, <3>6 DEF Allocated
  <2>5. QED
    BY <2>2, <2>3, <2>4, StepCases
<1>2. QED
  BY <1>1, Invariance, PTL DEF Spec, AdmittedWithinLimit

\* Pre-emption stops the lowest priority first, the newest first within a
\* level, and would not have been enough with the last of its victims kept.
THEOREM LeastTheorem == Spec => PreemptionTakesTheLeast
<1> DEFINE A == \A f \in Stopped, g \in New :
                  /\ \A k \in Preemptable(Unexpired(flows), f.slice, g.arp) :
                        StopsBefore(k, f) => k \in Stopped
                  /\ (\A h \in Stopped : ~StopsBefore(f, h)) =>
                        ~FitsWithout(Unexpired(flows), measured', f.slice, Stopped \ {f}, g.mbps)
<1>1. IInv /\ [Next]_vars => [A]_vars
  <2> SUFFICES ASSUME IInv, [Next]_vars PROVE A
    OBVIOUS
  <2> DEFINE F == Unexpired(flows)
  <2>1. CASE New = {}
    BY <2>1
  <2>2. ASSUME NEW supi \in Subscriber, NEW cls \in Class, NEW need \in Nat,
               DecideAdmit(supi, cls, need)
        PROVE  A
    BY <2>2, DecideAdmitDoes
  <2>3. ASSUME NEW supi \in Subscriber, NEW cls \in Class, NEW need \in Nat,
               DecidePreempt(supi, cls, need)
        PROVE  A
    <3>1. PICK s, g :
            /\ s \in Slice /\ New = {g} /\ g.slice = s /\ g.mbps = need
            /\ Stopped \in Victims(F, measured', s, g.arp, need)
      BY <2>3, DecidePreemptDoes
    <3> DEFINE cands == Preemptable(F, s, g.arp)
    <3>2. /\ Stopped \subseteq cands
          /\ \A f \in Stopped, k \in cands : StopsBefore(k, f) => k \in Stopped
          /\ \A W \in SUBSET cands :
                /\ \A f \in W, k \in cands : StopsBefore(k, f) => k \in W
                /\ FitsWithout(F, measured', s, W, need)
                => Stopped \subseteq W
      BY <3>1 DEF Victims
    <3>3. SUFFICES ASSUME NEW f \in Stopped
                   PROVE  /\ \A k \in Preemptable(F, f.slice, g.arp) :
                                StopsBefore(k, f) => k \in Stopped
                          /\ (\A h \in Stopped : ~StopsBefore(f, h)) =>
                                ~FitsWithout(F, measured', f.slice, Stopped \ {f}, g.mbps)
      BY <3>1
    <3>4. f.slice = s
      BY <3>2 DEF Preemptable, On
    <3>5. ASSUME \A h \in Stopped : ~StopsBefore(f, h),
                 FitsWithout(F, measured', s, Stopped \ {f}, need)
          PROVE  FALSE
      <4>1. \A h \in Stopped \ {f}, k \in cands : StopsBefore(k, h) => k \in Stopped \ {f}
        BY <3>2, <3>5
      <4>2. Stopped \subseteq Stopped \ {f}
        BY <3>2, <3>5, <4>1
      <4>3. QED
        BY <4>2
    <3>6. QED
      BY <3>1, <3>2, <3>4, <3>5
  <2>4. QED
    BY <2>1, <2>2, <2>3, StepCases
<1>2. QED
  BY <1>1, Invariance, PTL DEF Spec, PreemptionTakesTheLeast

-----------------------------------------------------------------------------
(* Trunk reservation *)

\* The demands ReserveKept bounds.
Ordinary(G, s) == {f \in On(G, s) : f.cls \notin Exempt /\ ~f.arp.may_preempt}

\* ReserveKept, in terms of them, for any list of demands.
Reserved(G) == \A s \in Slice : Ordinary(G, s) # {} => Load(Ordinary(G, s)) + Reserve[s] <= Capacity[s]

\* A shorter list keeps the reserve.
LEMMA FewerKeepReserve ==
  ASSUME NEW F, NEW G, G \subseteq F, IsFiniteSet(Units(F)), Reserved(F)
  PROVE  Reserved(G)
<1> SUFFICES ASSUME NEW s \in Slice, Ordinary(G, s) # {}
             PROVE  Load(Ordinary(G, s)) + Reserve[s] <= Capacity[s]
  BY DEF Reserved
<1>1. Ordinary(G, s) \subseteq Ordinary(F, s) /\ Ordinary(F, s) \subseteq F
  BY DEF Ordinary, On
<1>2. IsFiniteSet(Units(Ordinary(F, s)))
  BY <1>1, LoadOfFewer
<1>3. /\ Load(Ordinary(G, s)) <= Load(Ordinary(F, s))
      /\ Load(Ordinary(G, s)) \in Nat /\ Load(Ordinary(F, s)) \in Nat
  BY <1>1, <1>2, LoadOfFewer
<1>4. Load(Ordinary(F, s)) + Reserve[s] <= Capacity[s]
  BY <1>1 DEF Reserved
<1>5. QED
  BY <1>3, <1>4, SliceAssumption

\* So does one more demand that is exempt or may pre-empt.
LEMMA OthersKeepReserve ==
  ASSUME NEW F, NEW g, IsFiniteSet(Units(F)), Reserved(F),
         g.cls \in Exempt \/ g.arp.may_preempt
  PROVE  Reserved(F \cup {g})
<1>1. \A s \in Slice : Ordinary(F \cup {g}, s) = Ordinary(F, s)
  BY DEF Ordinary, On
<1>2. QED
  BY <1>1 DEF Reserved

\* And an ordinary demand that leaves the reserve free next to the others.
LEMMA OrdinaryKeepsReserve ==
  ASSUME NEW F, NEW g, NEW s \in Slice, g \notin F, g.mbps \in Nat, g.slice = s,
         IsFiniteSet(Units(F)), Reserved(F),
         Allocated(F, s) + g.mbps + Reserve[s] <= Capacity[s]
  PROVE  Reserved(F \cup {g})
<1>1. ASSUME NEW t \in Slice, Ordinary(F \cup {g}, t) # {}
      PROVE  Load(Ordinary(F \cup {g}, t)) + Reserve[t] <= Capacity[t]
  <2>1. CASE t = s
    <3>1. On(F, s) \subseteq F /\ g \notin On(F, s) /\ On(F \cup {g}, s) = On(F, s) \cup {g}
      BY DEF On
    <3>2. IsFiniteSet(Units(On(F, s)))
      BY <3>1, LoadOfFewer
    <3>3. /\ IsFiniteSet(Units(On(F \cup {g}, s)))
          /\ Load(On(F \cup {g}, s)) = Load(On(F, s)) + g.mbps
      BY <3>1, <3>2, LoadOfOneMore
    <3>4. Ordinary(F \cup {g}, s) \subseteq On(F \cup {g}, s)
      BY DEF Ordinary
    <3>5. /\ Load(Ordinary(F \cup {g}, s)) <= Load(On(F \cup {g}, s))
          /\ Load(Ordinary(F \cup {g}, s)) \in Nat /\ Load(On(F \cup {g}, s)) \in Nat
      BY <3>3, <3>4, LoadOfFewer
    <3>6. Load(On(F \cup {g}, s)) + Reserve[s] <= Capacity[s]
      BY <3>3 DEF Allocated
    <3>7. QED
      BY <2>1, <3>5, <3>6, SliceAssumption
  <2>2. CASE t # s
    <3>1. Ordinary(F \cup {g}, t) = Ordinary(F, t)
      BY <2>2 DEF Ordinary, On
    <3>2. QED
      BY <1>1, <3>1 DEF Reserved
  <2>3. QED
    BY <2>1, <2>2
<1>2. QED
  BY <1>1 DEF Reserved

LEMMA ReserveNext ==
  ASSUME IInv, ReserveKept, [Next]_vars
  PROVE  ReserveKept'
<1> SUFFICES ASSUME policy' = "reservation"
             PROVE  Reserved(flows')
  BY DEF ReserveKept, Reserved, Ordinary
<1> DEFINE F == Unexpired(flows)
<1>1. CASE flows' = {}
  BY <1>1 DEF Reserved, Ordinary, On
<1>2. ASSUME flows' # {}
      PROVE  policy = "reservation"
  BY <1>2 DEF Next, Decide, DecideAdmit, DecidePreempt, DecideRefuse, HoldEnds, Sweep,
              SetActive, ControlStep, Restart, vars
<1>3. ASSUME flows' # {}
      PROVE  Reserved(flows) /\ Reserved(F) /\ IsFiniteSet(Units(F)) /\ IsFiniteSet(Units(flows))
  <2>1. Reserved(flows)
    BY <1>2, <1>3 DEF ReserveKept, Reserved, Ordinary
  <2>2. F \subseteq flows
    BY DEF Unexpired
  <2>3. QED
    BY <2>1, <2>2, FewerKeepReserve, LoadOfFewer DEF IInv
<1>4. CASE flows' # {} /\ flows' \subseteq flows
  BY <1>3, <1>4, FewerKeepReserve
<1>5. ASSUME flows' # {}, NEW supi \in Subscriber, NEW cls \in Class, NEW need \in Nat,
             DecideAdmit(supi, cls, need)
      PROVE  Reserved(flows')
  <2>1. PICK s, g :
          /\ s \in Slice /\ g \notin F /\ flows' = F \cup {g}
          /\ g.slice = s /\ g.mbps = need /\ g.cls = cls
          /\ measured'[s] \in Nat
          /\ AdmissionAllows(F, measured', s, cls, need)
    BY <1>5, DecideAdmitDoes
  <2>2. CASE cls \in Exempt
    BY <1>3, <1>5, <2>1, <2>2, OthersKeepReserve
  <2>3. CASE cls \notin Exempt
    <3>1. Limit(s) - InUse(F, measured', s) - need >= Reserve[s]
      BY <1>2, <1>5, <2>1, <2>3 DEF AdmissionAllows
    <3>2. On(F, s) \subseteq F
      BY DEF On
    <3>3. Allocated(F, s) \in Nat
      BY <1>3, <1>5, <3>2, LoadOfFewer DEF Allocated
    <3>4. Limit(s) \in Nat /\ Limit(s) <= Capacity[s] /\ Capacity[s] \in Nat /\ Reserve[s] \in Nat
      BY <2>1, LimitBounds, SliceAssumption DEF IInv
    <3>5. Allocated(F, s) + need + Reserve[s] <= Capacity[s]
      BY <2>1, <3>1, <3>3, <3>4 DEF InUse, Larger
    <3>6. QED
      BY <1>3, <1>5, <2>1, <3>5, OrdinaryKeepsReserve
  <2>4. QED
    BY <2>2, <2>3
<1>6. ASSUME flows' # {}, NEW supi \in Subscriber, NEW cls \in Class, NEW need \in Nat,
             DecidePreempt(supi, cls, need)
      PROVE  Reserved(flows')
  <2>1. PICK s, g :
          /\ s \in Slice /\ flows' = (F \ Stopped) \cup {g}
          /\ Stopped \in Victims(F, measured', s, g.arp, need)
    BY <1>6, DecidePreemptDoes
  <2>2. g.arp.may_preempt
    BY <2>1, VictimsAre
  <2>3. F \ Stopped \subseteq F
    OBVIOUS
  <2>4. Reserved(F \ Stopped) /\ IsFiniteSet(Units(F \ Stopped))
    BY <1>3, <1>6, <2>3, FewerKeepReserve, LoadOfFewer
  <2>5. QED
    BY <2>1, <2>2, <2>4, OthersKeepReserve
<1>7. ASSUME flows' # {}, NEW f \in flows, HoldEnds(f)
      PROVE  Reserved(flows')
  <2> DEFINE d == [f EXCEPT !.held = FALSE]
  <2>1. flows' = (flows \ {f}) \cup {d}
    BY <1>7 DEF HoldEnds
  <2>2. f \in Flow /\ d.mbps = f.mbps /\ f.mbps \in Nat /\ d.slice = f.slice /\ d.cls = f.cls
        /\ d.arp = f.arp /\ d.at = f.at
    BY DEF IInv, TypeOK, Flow
  <2>3. d \notin flows \ {f}
    BY <2>2 DEF IInv, TypeOK
  <2> HIDE DEF d
  <2>4. ASSUME NEW s \in Slice, Ordinary(flows', s) # {}
        PROVE  Load(Ordinary(flows', s)) + Reserve[s] <= Capacity[s]
    <3>1. CASE f \in Ordinary(flows, s)
      <4>1. Ordinary(flows', s) = (Ordinary(flows, s) \ {f}) \cup {d}
        BY <2>1, <2>2, <3>1 DEF Ordinary, On
      <4>2. Ordinary(flows, s) \subseteq flows
        BY DEF Ordinary, On
      <4>3. d \notin Ordinary(flows, s) \ {f} /\ IsFiniteSet(Units(Ordinary(flows, s)))
        BY <2>3, <4>2, <1>3, <1>7, LoadOfFewer
      <4>4. Load((Ordinary(flows, s) \ {f}) \cup {d}) = Load(Ordinary(flows, s))
        BY <2>2, <3>1, <4>3, LoadOfReplaced
      <4>5. QED
        BY <1>3, <1>7, <3>1, <4>1, <4>4 DEF Reserved
    <3>2. CASE f \notin Ordinary(flows, s)
      <4>1. Ordinary(flows', s) = Ordinary(flows, s)
        BY <2>1, <2>2, <3>2 DEF Ordinary, On
      <4>2. QED
        BY <1>3, <1>7, <2>4, <4>1 DEF Reserved
    <3>3. QED
      BY <3>1, <3>2
  <2>5. QED
    BY <2>4 DEF Reserved
<1>8. \/ flows' = {} \/ flows' \subseteq flows
      \/ \E f \in flows : HoldEnds(f)
      \/ \E supi \in Subscriber, cls \in Class, need \in Nat :
            DecideAdmit(supi, cls, need) \/ DecidePreempt(supi, cls, need)
  <2>1. CASE Decide
    <3>1. PICK e \in Demands :
            \/ DecideAdmit(e[1], e[2], e[3])
            \/ DecidePreempt(e[1], e[2], e[3])
            \/ DecideRefuse(e[1], e[2], e[3])
      BY <2>1 DEF Decide
    <3>2. e[1] \in Subscriber /\ e[2] \in Class /\ e[3] \in Nat
      BY DemandAssumption
    <3>3. CASE DecideRefuse(e[1], e[2], e[3])
      BY <3>3 DEF DecideRefuse, Unexpired
    <3>4. QED
      BY <3>1, <3>2, <3>3
  <2>2. CASE ~Decide
    BY <2>2 DEF Next, vars, Sweep, SetActive, ControlStep, Restart, Unexpired
  <2>3. QED
    BY <2>1, <2>2
<1>9. QED
  BY <1>1, <1>4, <1>5, <1>6, <1>7, <1>8

\* Under trunk reservation, whatever order demands come and go in and whatever
\* the controller does, the classes that are not exempt leave the reserve free,
\* as far as their subscribers may not pre-empt.
THEOREM ReserveTheorem == Spec => []ReserveKept
<1>1. Init => ReserveKept
  BY DEF Init, ReserveKept, On
<1>2. IInv /\ ReserveKept /\ [Next]_vars => ReserveKept'
  BY ReserveNext
<1>3. QED
  BY <1>1, <1>2, Invariance, PTL DEF Spec

-----------------------------------------------------------------------------
(* FlowExecution: the threads of the flows *)

\* A flow under way has the device and the port that start_flow() gave it.
Equipped == \A f \in Running : device[f] \in Device /\ port[f] \in Port

\* What the threads take and give back.
Resources == Equipped /\ IsFiniteSet(Running) /\ PortsExclusive /\ BooksBalance

\* A flow is pre-empted at most once, so its stopper starts once, with all its attempts.
OneStopper ==
    \A f \in FlowId :
        /\ pc[f] = "new" => f \notin holding /\ f \notin preempted
        /\ f \in holding => f \notin preempted
        /\ f \notin preempted => stopper[f] = "off"
        /\ stopper[f] # "over" => tries[f] > 0

FlowIInv == FlowTypeOK /\ OneStopper /\ Resources

Working == {"receiving", "sending", "ended", "closing"}

-----------------------------------------------------------------------------
(* Who is under way *)

\* Flows that stay under way, or stay out of it, keep the books as they are.
LEMMA SameFlows ==
    ASSUME Resources, Running' = Running, UNCHANGED <<ports, busy>>,
           \A f \in Running : device'[f] = device[f] /\ port'[f] = port[f]
    PROVE  Resources'
<1>1. \A d : {f \in Running : device[f] = d}' = {f \in Running : device[f] = d}
  OBVIOUS
<1>2. {port[f] : f \in Running}' = {port[f] : f \in Running}
  OBVIOUS
<1> QED
  BY <1>1, <1>2 DEF Resources, Equipped, PortsExclusive, BooksBalance

\* A thread that goes on within run_flow leaves the set of flows under way alone.
LEMMA GoesOn ==
    ASSUME NEW f \in FlowId, NEW to \in Working, FlowTypeOK, f \in Running,
           pc' = [pc EXCEPT ![f] = to]
    PROVE  Running' = Running
  BY DEF Running, FlowTypeOK, Working

\* The books of d count f in, or out, when d is its device.
LEMMA CountWith ==
    ASSUME IsFiniteSet(Running), NEW f, f \notin Running, NEW d
    PROVE  Cardinality({g \in Running : device[g] = d} \cup {f}) =
             Cardinality({g \in Running : device[g] = d}) + 1
<1>1. IsFiniteSet({g \in Running : device[g] = d})
  BY FS_Subset
<1> QED
  BY <1>1, FS_AddElement

LEMMA CountWithout ==
    ASSUME IsFiniteSet(Running), NEW f \in Running, NEW d, device[f] = d
    PROVE  /\ Cardinality({g \in Running : device[g] = d} \ {f}) =
                Cardinality({g \in Running : device[g] = d}) - 1
           /\ Cardinality({g \in Running : device[g] = d}) \in Nat \ {0}
<1> DEFINE S == {g \in Running : device[g] = d}
<1>1. IsFiniteSet(S) /\ f \in S
  BY FS_Subset
<1>2. Cardinality(S) \in Nat /\ Cardinality(S) # 0
  BY <1>1, FS_CardinalityType, FS_EmptySet
<1>3. Cardinality(S \ {f}) = Cardinality(S) - 1
  BY <1>1, FS_RemoveElement
<1> QED
  BY <1>2, <1>3

-----------------------------------------------------------------------------
(* Taking and giving back *)

\* start_flow() takes a device, and a port that no flow under way has.
LEMMA StartTakes ==
    ASSUME FlowIInv, NEW f \in FlowId, NEW V \in SUBSET holding, NEW up \in SUBSET Device,
           AdmitAndStart(f, V, up)
    PROVE  Resources'
<1> USE DEF FlowIInv, Resources
<1>1. PICK d \in LeastBusy(up), p \in FirstFree :
        /\ device' = [device EXCEPT ![f] = d]
        /\ port' = [port EXCEPT ![f] = p]
        /\ ports' = ports \cup {p}
        /\ busy' = [busy EXCEPT ![d] = @ + 1]
  BY DEF AdmitAndStart
<1>2. d \in Device /\ p \in Port \ ports
  BY DEF LeastBusy, FirstFree
<1>3. pc[f] = "new" /\ pc' = [pc EXCEPT ![f] = "receiving"]
  BY DEF AdmitAndStart, Admission
<1>4. f \notin Running /\ Running' = Running \cup {f}
  BY <1>3 DEF Running, FlowTypeOK
<1>5. /\ device'[f] = d /\ port'[f] = p
      /\ \A g \in Running : device'[g] = device[g] /\ port'[g] = port[g]
  <2>1. Running \subseteq FlowId
    BY DEF Running
  <2> QED
    BY <1>1, <1>4, <2>1 DEF FlowTypeOK
<1>6. Equipped'
  BY <1>2, <1>4, <1>5 DEF Equipped
<1>7. IsFiniteSet(Running')
  BY <1>4, FS_AddElement
<1>8. PortsExclusive'
  <2>1. \A g \in Running : port[g] # p
    BY <1>2 DEF BooksBalance
  <2> QED
    BY <1>4, <1>5, <2>1 DEF PortsExclusive
<1>9. ports' = {port'[g] : g \in Running'}
  BY <1>1, <1>4, <1>5 DEF BooksBalance
<1>10. ASSUME NEW e \in Device
       PROVE  busy'[e] = Cardinality({g \in Running' : device'[g] = e})
  <2>1. CASE e = d
    <3>1. {g \in Running' : device'[g] = e} = {g \in Running : device[g] = d} \cup {f}
      BY <1>4, <1>5, <2>1
    <3>2. busy'[e] = busy[d] + 1
      BY <1>1, <1>2, <2>1 DEF FlowTypeOK
    <3>3. busy[d] = Cardinality({g \in Running : device[g] = d})
      BY <1>2 DEF BooksBalance
    <3>4. Cardinality({g \in Running : device[g] = d} \cup {f})
            = Cardinality({g \in Running : device[g] = d}) + 1
      <4>1. IsFiniteSet(Running) /\ f \notin Running
        BY <1>4
      <4> QED
        BY <4>1, CountWith, Zenon
    <3> QED
      BY <2>1, <3>1, <3>2, <3>3, <3>4
  <2>2. CASE e # d
    <3>1. {g \in Running' : device'[g] = e} = {g \in Running : device[g] = e}
      BY <1>4, <1>5, <2>2
    <3>2. busy'[e] = busy[e]
      BY <1>1, <2>2 DEF FlowTypeOK
    <3> QED
      BY <3>1, <3>2 DEF BooksBalance
  <2> QED
    BY <2>1, <2>2
<1> QED
  BY <1>6, <1>7, <1>8, <1>9, <1>10 DEF BooksBalance

\* Closing a flow gives its device and its port back, and nobody else's.
LEMMA CloseGivesBack ==
    ASSUME FlowIInv, NEW f \in FlowId, Close(f)
    PROVE  Resources'
<1> USE DEF FlowIInv, Resources
<1>1. /\ pc[f] = "closing" /\ pc' = [pc EXCEPT ![f] = "closed"]
      /\ UNCHANGED <<device, port>>
  BY DEF Close
<1>2. f \in Running /\ Running' = Running \ {f}
  BY <1>1 DEF Running, FlowTypeOK
<1> DEFINE d == device[f]
<1>3. d \in Device /\ port[f] \in Port
  BY <1>2 DEF Equipped
<1>4. Equipped' /\ PortsExclusive'
  BY <1>1, <1>2 DEF Equipped, PortsExclusive
<1>5. IsFiniteSet(Running')
  BY <1>2, FS_RemoveElement
<1>6. ports' = {port'[g] : g \in Running'}
  <2>1. ports' = ports \ {port[f]}
    BY DEF Close
  <2>2. \A g \in Running : g # f => port[g] # port[f]
    BY <1>2 DEF PortsExclusive
  <2> QED
    BY <1>1, <1>2, <2>1, <2>2 DEF BooksBalance
<1>7. ASSUME NEW e \in Device
      PROVE  busy'[e] = Cardinality({g \in Running' : device'[g] = e})
  <2>1. busy' = [busy EXCEPT ![d] = IF @ > 0 THEN @ - 1 ELSE 0]
    BY DEF Close
  <2>2. CASE e = d
    <3>1. {g \in Running' : device'[g] = e} = {g \in Running : device[g] = d} \ {f}
      BY <1>1, <1>2, <2>2
    <3>2. busy[d] = Cardinality({g \in Running : device[g] = d})
      BY <1>3 DEF BooksBalance
    <3>3. /\ Cardinality({g \in Running : device[g] = d} \ {f}) = busy[d] - 1
          /\ busy[d] > 0
      BY <1>2, <3>2, CountWithout
    <3>4. busy'[e] = busy[d] - 1
      BY <1>3, <2>1, <2>2, <3>3 DEF FlowTypeOK
    <3> QED
      BY <3>1, <3>3, <3>4
  <2>3. CASE e # d
    <3>1. {g \in Running' : device'[g] = e} = {g \in Running : device[g] = e}
      BY <1>1, <1>2, <2>3
    <3>2. busy'[e] = busy[e]
      BY <2>1, <2>3 DEF FlowTypeOK
    <3> QED
      BY <3>1, <3>2 DEF BooksBalance
  <2> QED
    BY <2>2, <2>3
<1> QED
  BY <1>4, <1>5, <1>6, <1>7 DEF BooksBalance

-----------------------------------------------------------------------------
(* Types and stoppers *)

LEMMA InitIInv == FlowInit => FlowIInv
<1> SUFFICES ASSUME FlowInit PROVE FlowIInv
  OBVIOUS
<1>1. FlowTypeOK
  BY ExecutionAssumption DEF FlowInit, FlowTypeOK
<1>2. Running = {}
  BY DEF FlowInit, Running
<1>3. Resources
  <2>1. \A d : {f \in Running : device[f] = d} = {}
    BY <1>2
  <2>2. IsFiniteSet(Running) /\ Cardinality({}) = 0
    BY <1>2, FS_EmptySet
  <2>3. BooksBalance
    BY <1>2, <2>1, <2>2 DEF BooksBalance, FlowInit
  <2> QED
    BY <1>2, <2>2, <2>3 DEF Resources, Equipped, PortsExclusive
<1>4. OneStopper
  BY ExecutionAssumption DEF FlowInit, OneStopper
<1> QED
  BY <1>1, <1>3, <1>4 DEF FlowIInv

\* Pre-empted flows held capacity until now: their stoppers have not started yet.
LEMMA PreemptStops ==
    ASSUME FlowTypeOK, OneStopper, NEW f \in FlowId, NEW V \in SUBSET holding, Admission(f, V),
           holding' \in {holding \ V, (holding \ V) \cup {f}},
           NEW to \in {"receiving", "unstarted"}, pc' = [pc EXCEPT ![f] = to],
           UNCHANGED tries
    PROVE  /\ OneStopper'
           /\ preempted' \subseteq FlowId /\ holding' \subseteq FlowId
           /\ stopper' \in [FlowId -> {"off", "kill", "check", "over"}]
           /\ pc' \in [FlowId -> {"new", "receiving", "sending", "ended", "closing",
                                  "closed", "unstarted"}]
<1>1. /\ preempted' = preempted \cup V
      /\ stopper' = [g \in FlowId |-> IF g \in V /\ device[g] # none THEN "kill" ELSE stopper[g]]
      /\ pc[f] = "new"
  BY DEF Admission, Preempt
<1>2. \A g \in V : stopper[g] = "off" /\ g # f
  BY <1>1 DEF OneStopper, FlowTypeOK
<1>3. ASSUME NEW g \in FlowId
      PROVE  /\ pc'[g] = "new" => g \notin holding' /\ g \notin preempted'
             /\ g \in holding' => g \notin preempted'
             /\ g \notin preempted' => stopper'[g] = "off"
             /\ stopper'[g] # "over" => tries'[g] > 0
  BY <1>1, <1>2 DEF OneStopper, FlowTypeOK
<1>4. OneStopper'
  BY <1>3 DEF OneStopper
<1> QED
  BY <1>1, <1>4 DEF FlowTypeOK

\* The books while an admission starts nothing.
LEMMA NothingStarts ==
    ASSUME FlowIInv, NEW f \in FlowId, pc[f] = "new", pc' = [pc EXCEPT ![f] = "unstarted"],
           UNCHANGED <<device, port, ports, busy>>
    PROVE  Resources'
<1>1. Running' = Running
  BY DEF Running, FlowIInv, FlowTypeOK
<1> QED
  BY <1>1, SameFlows DEF FlowIInv

-----------------------------------------------------------------------------
LEMMA NextIInv == FlowIInv /\ [FlowNext]_flow_vars => FlowIInv'
<1> SUFFICES ASSUME FlowIInv, [FlowNext]_flow_vars PROVE FlowIInv'
  OBVIOUS
<1> USE DEF FlowIInv
<1>1. ASSUME NEW f \in FlowId, NEW V \in SUBSET holding, NEW up \in SUBSET Device,
             AdmitAndStart(f, V, up)
      PROVE  FlowIInv'
  <2>1. Resources'
    BY <1>1, StartTakes
  <2>2. /\ OneStopper'
        /\ preempted' \subseteq FlowId /\ holding' \subseteq FlowId
        /\ stopper' \in [FlowId -> {"off", "kill", "check", "over"}]
        /\ pc' \in [FlowId -> {"new", "receiving", "sending", "ended", "closing",
                               "closed", "unstarted"}]
    BY <1>1, PreemptStops DEF AdmitAndStart
  <2>3. /\ device' \in [FlowId -> Device \cup {none}] /\ port' \in [FlowId -> Port \cup {none}]
        /\ ports' \subseteq Port /\ busy' \in [Device -> Nat]
    BY <1>1 DEF AdmitAndStart, LeastBusy, FirstFree, FlowTypeOK
  <2>4. FlowTypeOK'
    BY <1>1, <2>2, <2>3 DEF AdmitAndStart, FlowTypeOK
  <2> QED
    BY <2>1, <2>2, <2>4
<1>2. ASSUME NEW f \in FlowId, NEW V \in SUBSET holding,
             AdmitWithoutSession(f, V) \/ AdmitWithoutPort(f, V)
      PROVE  FlowIInv'
  <2>1. Resources'
    BY <1>2, NothingStarts DEF AdmitWithoutSession, AdmitWithoutPort, Admission
  <2>2. /\ OneStopper'
        /\ preempted' \subseteq FlowId /\ holding' \subseteq FlowId
        /\ stopper' \in [FlowId -> {"off", "kill", "check", "over"}]
        /\ pc' \in [FlowId -> {"new", "receiving", "sending", "ended", "closing",
                               "closed", "unstarted"}]
    BY <1>2, PreemptStops DEF AdmitWithoutSession, AdmitWithoutPort
  <2>3. FlowTypeOK'
    BY <1>2, <2>2 DEF AdmitWithoutSession, AdmitWithoutPort, FlowTypeOK
  <2> QED
    BY <2>1, <2>2, <2>3
<1>3. ASSUME NEW f \in FlowId, SafetyNet(f)
      PROVE  FlowIInv'
  <2>1. FlowTypeOK' /\ OneStopper'
    BY <1>3 DEF SafetyNet, FlowTypeOK, OneStopper
  <2>2. Resources'
    BY <1>3, SameFlows DEF SafetyNet, Running
  <2> QED
    BY <2>1, <2>2
<1>4. ASSUME NEW f \in FlowId, SenderStarts(f) \/ ReceiverFails(f) \/ ReceiverReports(f) \/ Conclude(f)
      PROVE  FlowIInv'
  <2>1. f \in Running /\ \E to \in Working : pc' = [pc EXCEPT ![f] = to]
    BY <1>4 DEF SenderStarts, ReceiverFails, ReceiverReports, Conclude, Running, Working
  <2>2. Resources'
    BY <1>4, <2>1, GoesOn, SameFlows DEF SenderStarts, ReceiverFails, ReceiverReports, Conclude
  <2>3. FlowTypeOK'
    <3>1. CASE SenderStarts(f)
      BY <3>1 DEF SenderStarts, FlowTypeOK
    <3>2. CASE ReceiverFails(f)
      BY <3>2 DEF ReceiverFails, FlowTypeOK
    <3>3. CASE ReceiverReports(f)
      BY <3>3 DEF ReceiverReports, FlowTypeOK
    <3>4. CASE Conclude(f)
      BY <3>4 DEF Conclude, FlowTypeOK
    <3> QED
      BY <1>4, <3>1, <3>2, <3>3, <3>4
  <2>4. OneStopper'
    BY <1>4, <2>1 DEF SenderStarts, ReceiverFails, ReceiverReports, Conclude, FlowTypeOK, OneStopper, Working
  <2> QED
    BY <2>2, <2>3, <2>4
<1>5. ASSUME NEW f \in FlowId, Close(f)
      PROVE  FlowIInv'
  <2>1. Resources'
    BY <1>5, CloseGivesBack
  <2>2. busy' \in [Device -> Nat]
    <3>1. device[f] \in Device
      BY <1>5 DEF Close, Running, Resources, Equipped
    <3> DEFINE less == IF busy[device[f]] > 0 THEN busy[device[f]] - 1 ELSE 0
    <3>2. less \in Nat
      BY <3>1 DEF FlowTypeOK
    <3>3. busy' = [busy EXCEPT ![device[f]] = less]
      BY <1>5 DEF Close
    <3> QED
      BY <3>2, <3>3 DEF FlowTypeOK
  <2>3. FlowTypeOK'
    BY <1>5, <2>2 DEF Close, FlowTypeOK
  <2>4. OneStopper'
    BY <1>5 DEF Close, FlowTypeOK, OneStopper
  <2> QED
    BY <2>1, <2>3, <2>4
<1>6. ASSUME NEW f \in FlowId, Kill(f) \/ StopFails(f) \/ CheckDone(f)
      PROVE  FlowIInv'
  <2>1. Resources'
    BY <1>6, SameFlows DEF Kill, StopFails, CheckDone, Running
  <2>2. CASE Kill(f)
    BY <2>1, <2>2 DEF Kill, FlowTypeOK, OneStopper
  <2>3. CASE StopFails(f)
    BY <2>1, <2>3 DEF StopFails, FlowTypeOK, OneStopper
  <2>4. CASE CheckDone(f)
    <3>1. tries[f] \in 1 .. MaxTries
      BY <2>4 DEF CheckDone, FlowTypeOK, OneStopper
    <3>2. FlowTypeOK'
      BY <2>4, <3>1, ExecutionAssumption DEF CheckDone, FlowTypeOK
    <3>3. OneStopper'
      BY <2>4, <3>1, ExecutionAssumption DEF CheckDone, FlowTypeOK, OneStopper
    <3> QED
      BY <2>1, <3>2, <3>3
  <2> QED
    BY <1>6, <2>2, <2>3, <2>4
<1>7. CASE UNCHANGED flow_vars
  <2>1. FlowTypeOK' /\ OneStopper'
    BY <1>7 DEF flow_vars, FlowTypeOK, OneStopper
  <2>2. Resources'
    BY <1>7, SameFlows DEF flow_vars, Running
  <2> QED
    BY <2>1, <2>2
<1> QED
  BY <1>1, <1>2, <1>3, <1>4, <1>5, <1>6, <1>7 DEF FlowNext, RunFlow, StopFlow

\* The inductive invariant holds throughout.
THEOREM FlowInvariance == FlowSpec => []FlowIInv
  BY InitIInv, NextIInv, PTL DEF FlowSpec

\* The state of flows and threads is well-typed; no stopper ever runs out of the attempts
\* it counts down, however often its flow is looked for.
THEOREM FlowTypeCorrect == FlowSpec => []FlowTypeOK
  BY FlowInvariance, PTL DEF FlowIInv

\* No two flows under way share a port, for any number of flows, ports and pre-emptions:
\* what a receiver counts was sent for it.
THEOREM PortsTheorem == FlowSpec => []PortsExclusive
  BY FlowInvariance, PTL DEF FlowIInv, Resources

\* A port is taken, and a device busy, exactly for the flows under way, in every
\* interleaving of run_flow, stop_flow, pre-emption and expiry.
THEOREM BooksTheorem == FlowSpec => []BooksBalance
  BY FlowInvariance, PTL DEF FlowIInv, Resources
=============================================================================

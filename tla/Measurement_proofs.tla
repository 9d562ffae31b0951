--------------------------- MODULE Measurement_proofs ---------------------------
(* That the loss a tally reports is what was lost, for any number of devices,   *)
(* packets, epochs and restarts; and that no device falls out of the schedule.  *)
EXTENDS Measurement, FiniteSetTheorems, FunctionTheorems, TLAPS

-----------------------------------------------------------------------------
(* The invariant *)

\* The packets a tally may come across.
Packets(t) == net \cup dropped \cup arrived[t]

\* Whatever an agent that was told to may do, what it has is made once.
Objects ==
    /\ \A d \in Device : devs[d] # none => devs[d].gen \in 1 .. born
    /\ \A d, e \in Device : devs[d] # none /\ devs[e] # none /\ devs[d].gen = devs[e].gen => d = e

\* A packet has its device, epoch and number from the object that sent it.
Numbered ==
    \A t \in Tallies : \A p \in Packets(t) :
        /\ p.gen \in 1 .. born
        /\ \A d \in Device : devs[d] # none /\ devs[d].gen = p.gen =>
              p.dev = d /\ p.epoch = epoch /\ p.seq < devs[d].seq

\* Packets of one object share their key.
OneKey == \A t \in Tallies : \A p, q \in Packets(t) : p.gen = q.gen => KeyOf(p) = KeyOf(q)

\* A packet is under way, or lost, or has arrived.
Disjoint ==
    /\ net \cap dropped = {}
    /\ \A t \in Tallies : arrived[t] \cap (net \cup dropped) = {}

\* What has arrived was sent before what is under way.
Ordered == \A t \in Tallies : \A a \in arrived[t], p \in net : a.gen = p.gen => a.seq < p.seq

\* Of the numbers an object used after one that a tally holds, or may yet hold, none is
\* unaccounted for.
Accounted(t, g, n) == \E r \in Packets(t) : r.gen = g /\ r.seq = n

NoGap ==
    \A t \in Tallies : \A p \in net \cup arrived[t] : \A n \in Nat : p.seq < n =>
        /\ \A q \in net \cup arrived[t] : q.gen = p.gen /\ n < q.seq => Accounted(t, p.gen, n)
        /\ \A d \in Device : devs[d] # none /\ devs[d].gen = p.gen /\ n < devs[d].seq
              => Accounted(t, p.gen, n)

\* An entry of a tally says what has arrived: how much, and between which numbers.
TalliesTrue ==
    \A t \in Tallies, k \in Stream :
        /\ IsFiniteSet(Counted(t, k))
        /\ tally[t][k] = none => Counted(t, k) = {}
        /\ tally[t][k] # none =>
              /\ tally[t][k].received = Cardinality(Counted(t, k))
              /\ \E p \in Counted(t, k) : p.seq = tally[t][k].first
              /\ \E p \in Counted(t, k) : p.seq = tally[t][k].last
              /\ \A p \in Counted(t, k) : tally[t][k].first <= p.seq /\ p.seq <= tally[t][k].last

IInv ==
    /\ TypeOK /\ events \in Nat
    /\ Objects /\ SchedulesKept
    /\ Numbered /\ OneKey /\ Disjoint /\ Ordered /\ NoGap
    /\ TalliesTrue

-----------------------------------------------------------------------------
(* What the invariant says of loss *)

LEMMA PacketsTyped ==
    TypeOK => /\ net \subseteq Packet /\ dropped \subseteq Packet
              /\ \A t \in Tallies : arrived[t] \subseteq Packet /\ Packets(t) \subseteq Packet
  BY DEF TypeOK, Packets

\* Device, epoch, number and object are all there is to a packet.
LEMMA SamePacket ==
    ASSUME NEW p \in Packet, NEW q \in Packet, KeyOf(p) = KeyOf(q), p.seq = q.seq, p.gen = q.gen
    PROVE  p = q
<1>1. p.dev = q.dev /\ p.epoch = q.epoch
  BY DEF KeyOf
<1> QED
  BY <1>1 DEF Packet

\* Every number from the first to the last that arrived is of one packet that arrived or
\* of one that was dropped in between.
LEMMA LossCounted ==
    ASSUME TypeOK, OneKey, Disjoint, Ordered, NoGap, TalliesTrue
    PROVE  LossIsReal
<1> SUFFICES ASSUME NEW t \in Tallies, NEW k \in Heard(tally[t]), OneObject(t, k)
             PROVE  LET s == tally[t][k]
                        gens == {p.gen : p \in Counted(t, k)}
                    IN Span(s) - s.received =
                       Cardinality({p \in dropped : p.gen \in gens /\ s.first < p.seq /\ p.seq < s.last})
  BY DEF LossIsReal
<1> DEFINE s == tally[t][k]
           gens == {p.gen : p \in Counted(t, k)}
           C == Counted(t, k)
           D == {p \in dropped : p.gen \in gens /\ s.first < p.seq /\ p.seq < s.last}
           I == s.first .. s.last
           f == [p \in C \cup D |-> p.seq]
<1>1. k \in Stream /\ s # none
  BY DEF Heard
<1>2. s.first \in Nat /\ s.last \in Nat /\ s.received \in Nat
  BY <1>1 DEF TypeOK, Entry
<1>3. /\ IsFiniteSet(C) /\ s.received = Cardinality(C)
      /\ \A p \in C : s.first <= p.seq /\ p.seq <= s.last
  BY <1>1 DEF TalliesTrue
<1>4. PICK a \in C : a.seq = s.first
  BY <1>1 DEF TalliesTrue
<1>5. PICK b \in C : b.seq = s.last
  BY <1>1 DEF TalliesTrue
<1>6. C \subseteq arrived[t] /\ \A p \in C : p \in Packet /\ KeyOf(p) = k /\ p.gen = a.gen
  BY <1>4, PacketsTyped DEF Counted, OneObject
<1>7. D \subseteq dropped /\ \A p \in D : p \in Packet /\ p.gen = a.gen
  BY <1>6, PacketsTyped
<1>8. C \cap D = {}
  BY <1>6, <1>7 DEF Disjoint
<1>9. s.first <= s.last
  BY <1>3, <1>4
<1>10. f \in Bijection(C \cup D, I)
  <2>1. \A p \in C \cup D : p.seq \in I
    <3>1. \A p \in C \cup D : p.seq \in Nat
      BY <1>6, <1>7 DEF Packet
    <3> QED
      BY <1>2, <1>3, <3>1
  <2>2. \A p, q \in C \cup D : p.seq = q.seq => p = q
    <3> SUFFICES ASSUME NEW p \in C \cup D, NEW q \in C \cup D, p.seq = q.seq PROVE p = q
      OBVIOUS
    <3>1. p \in Packets(t) /\ q \in Packets(t) /\ p \in Packet /\ q \in Packet /\ p.gen = q.gen
      BY <1>6, <1>7 DEF Packets
    <3>2. KeyOf(p) = KeyOf(q)
      BY <3>1 DEF OneKey
    <3> QED
      BY <3>1, <3>2, SamePacket
  <2>3. \A n \in I : \E p \in C \cup D : p.seq = n
    <3> SUFFICES ASSUME NEW n \in I, n # s.first, n # s.last PROVE \E p \in C \cup D : p.seq = n
      BY <1>4, <1>5
    <3>1. n \in Nat /\ s.first < n /\ n < s.last
      BY <1>2
    <3>2. PICK r \in Packets(t) : r.gen = a.gen /\ r.seq = n
      BY <1>4, <1>5, <1>6, <3>1 DEF NoGap, Accounted
    <3>3. r \notin net
      BY <1>2, <1>5, <1>6, <3>1, <3>2 DEF Ordered
    <3>4. CASE r \in dropped
      BY <1>4, <3>1, <3>2, <3>4
    <3>5. CASE r \in arrived[t]
      <4>1. KeyOf(r) = KeyOf(a)
        BY <1>6, <3>2 DEF OneKey, Packets
      <4> QED
        BY <1>6, <3>2, <3>5, <4>1 DEF Counted
    <3> QED
      BY <3>2, <3>3, <3>4, <3>5 DEF Packets
  <2> QED
    BY <2>1, <2>2, <2>3, Fun_IsBij
<1> HIDE DEF s, C, D, I, f, gens
<1>11. IsFiniteSet(I) /\ Cardinality(I) = s.last - s.first + 1
  <2>1. s.first \in Int /\ s.last \in Int /\ ~(s.first > s.last)
    BY <1>2, <1>9
  <2>2. IsFiniteSet(s.first .. s.last)
        /\ Cardinality(s.first .. s.last) = IF s.first > s.last THEN 0 ELSE s.last - s.first + 1
    BY <2>1, FS_Interval
  <2> QED
    BY <2>1, <2>2 DEF I
<1>12. IsFiniteSet(C \cup D) /\ Cardinality(C \cup D) = Cardinality(I)
  <2>1. ExistsBijection(C \cup D, I)
    BY <1>10 DEF ExistsBijection
  <2>2. ExistsBijection(I, C \cup D)
    BY <2>1, Fun_ExistsBijSymmetric
  <2> QED
    BY <2>2, <1>11, FS_Bijection
<1>13. IsFiniteSet(D)
  BY <1>12, FS_Subset
<1>14. Cardinality(C \cup D) = Cardinality(C) + Cardinality(D) - Cardinality(C \cap D)
  BY <1>3, <1>13, FS_Union
<1>15. Cardinality(C \cap D) = 0 /\ Cardinality(C) \in Nat /\ Cardinality(D) \in Nat
  BY <1>3, <1>8, <1>13, FS_EmptySet, FS_CardinalityType
<1>16. (s.last - s.first + 1) - s.received = Cardinality(D)
  BY <1>2, <1>3, <1>11, <1>12, <1>14, <1>15
<1>17. Span(s) - s.received = Cardinality(D)
  <2>1. Span(s) = s.last - s.first + 1
    BY Zenon DEF Span
  <2> QED
    BY <1>16, <2>1, Zenon
<1> QED
  BY <1>17, Zenon DEF s, D, gens

-----------------------------------------------------------------------------
(* The agent *)

LEMMA Smaller ==
    ASSUME NEW a \in Nat, NEW b \in Nat
    PROVE  /\ Min({a, b}) = IF a <= b THEN a ELSE b
           /\ Max({a, b}) = IF a <= b THEN b ELSE a
  BY DEF Min, Max

\* As many numbers as there are new devices, one each.
LEMMA Numbering ==
    ASSUME NEW made \in SUBSET Device
    PROVE  LET number == CHOOSE f \in [made -> 1 .. Cardinality(made)] :
                             \A d, e \in made : f[d] = f[e] => d = e
           IN /\ Cardinality(made) \in Nat
              /\ number \in [made -> 1 .. Cardinality(made)]
              /\ \A d, e \in made : number[d] = number[e] => d = e
<1>1. IsFiniteSet(made)
  BY MeasurementAssumption, FS_Subset
<1>2. Cardinality(made) \in Nat /\ ExistsBijection(1 .. Cardinality(made), made)
  BY <1>1, FS_CardinalityType
<1>3. ExistsBijection(made, 1 .. Cardinality(made))
  BY <1>2, Fun_ExistsBijSymmetric
<1>4. \E f \in [made -> 1 .. Cardinality(made)] : \A d, e \in made : f[d] = f[e] => d = e
  BY <1>3 DEF ExistsBijection, Bijection, Injection, IsInjective
<1> QED
  BY <1>2, <1>4

\* What becomes of the packets' part of the invariant when only the objects change, and
\* those that stay are as they were.
LEMMA ObjectsChange ==
    ASSUME IInv, UNCHANGED <<net, dropped, arrived, tally>>, born' \in Nat, born' >= born,
           \A d \in Device : \/ devs'[d] = none
                             \/ devs'[d] = devs[d] /\ epoch' = epoch
                             \/ devs'[d].gen > born
    PROVE  Numbered' /\ OneKey' /\ Disjoint' /\ Ordered' /\ NoGap' /\ TalliesTrue'
<1>1. \A t \in Tallies : Packets(t)' = Packets(t)
  BY DEF Packets
<1>2. born \in Nat /\ \A t \in Tallies : \A p \in Packets(t) : p.gen \in 1 .. born /\ p.gen \in Nat
  BY DEF IInv, TypeOK, Numbered
<1>3. \A t \in Tallies : \A p \in Packets(t) : \A d \in Device :
          devs'[d] # none /\ devs'[d].gen = p.gen => devs'[d] = devs[d] /\ epoch' = epoch
  BY <1>2
<1>4. Numbered'
  <2> SUFFICES ASSUME NEW t \in Tallies, NEW p \in Packets(t)
               PROVE  /\ p.gen \in 1 .. born'
                      /\ \A d \in Device : devs'[d] # none /\ devs'[d].gen = p.gen =>
                            p.dev = d /\ p.epoch = epoch' /\ p.seq < devs'[d].seq
    BY <1>1 DEF Numbered
  <2> QED
    BY <1>2, <1>3 DEF IInv, Numbered
<1>5. OneKey' /\ Disjoint' /\ Ordered'
  BY <1>1 DEF IInv, OneKey, Disjoint, Ordered
<1>6. NoGap'
  <2>1. \A t \in Tallies : \A g, n : Accounted(t, g, n)' <=> Accounted(t, g, n)
    BY <1>1 DEF Accounted
  <2>2. \A t \in Tallies : \A p \in net \cup arrived[t] : p \in Packets(t)
    BY DEF Packets
  <2> SUFFICES ASSUME NEW t \in Tallies, NEW p \in net \cup arrived[t], NEW n \in Nat, p.seq < n
               PROVE  /\ \A q \in net \cup arrived[t] : q.gen = p.gen /\ n < q.seq => Accounted(t, p.gen, n)
                      /\ \A d \in Device : devs'[d] # none /\ devs'[d].gen = p.gen /\ n < devs'[d].seq
                            => Accounted(t, p.gen, n)
    BY <2>1 DEF NoGap
  <2>3. \A d \in Device : devs'[d] # none /\ devs'[d].gen = p.gen => devs'[d] = devs[d]
    BY <1>3, <2>2
  <2> QED
    BY <2>3 DEF IInv, NoGap
<1>7. TalliesTrue'
  BY DEF IInv, TalliesTrue, Counted
<1> QED
  BY <1>4, <1>5, <1>6, <1>7

\* Scan keeps the invariant.
LEMMA ScanKeeps ==
    ASSUME IInv, Scan
    PROVE  IInv'
<1> DEFINE kept == {d \in Device : devs[d] # none} \ Gone
           new == {d \in Device : Wanted[d] # none} \ kept
<1>1. PICK late \in SUBSET new :
        LET made == new \ late
            number == CHOOSE f \in [made -> 1 .. Cardinality(made)] :
                          \A d, e \in made : f[d] = f[e] => d = e
        IN /\ late # {} => events < MaxEvents
           /\ events' = IF late # {} THEN events + 1 ELSE events
           /\ addr' = [d \in Device |-> IF d \in late THEN none ELSE addr[d]]
           /\ devs' = [d \in Device |->
                          IF d \in made
                          THEN [ip |-> addr[d], seq |-> 0, gen |-> born + number[d]]
                          ELSE IF d \in kept THEN devs[d] ELSE none]
           /\ heap' = [d \in Device |-> heap[d] + IF d \in made THEN 1 ELSE 0]
           /\ born' = born + Cardinality(made)
           /\ UNCHANGED <<override, epoch, net, tally, dropped, arrived>>
  BY DEF Scan
<1> DEFINE made == new \ late
           number == CHOOSE f \in [made -> 1 .. Cardinality(made)] :
                         \A d, e \in made : f[d] = f[e] => d = e
<1>2. made \subseteq Device /\ kept \subseteq Device /\ made \cap kept = {}
  OBVIOUS
<1>3. \A d \in made : addr[d] \in Address
  BY DEF Wanted, IInv, TypeOK
<1>4. \A d \in kept : devs[d] # none
  OBVIOUS
<1> HIDE DEF kept, new, made
<1>5. /\ Cardinality(made) \in Nat /\ number \in [made -> 1 .. Cardinality(made)]
      /\ \A d, e \in made : number[d] = number[e] => d = e
  BY <1>2, Numbering
<1>6. /\ events' = (IF late # {} THEN events + 1 ELSE events) /\ (late # {} => events < MaxEvents)
      /\ addr' = [d \in Device |-> IF d \in late THEN none ELSE addr[d]]
      /\ devs' = [d \in Device |->
                     IF d \in made
                     THEN [ip |-> addr[d], seq |-> 0, gen |-> born + number[d]]
                     ELSE IF d \in kept THEN devs[d] ELSE none]
      /\ heap' = [d \in Device |-> heap[d] + IF d \in made THEN 1 ELSE 0]
      /\ born' = born + Cardinality(made)
      /\ UNCHANGED <<override, epoch, net, tally, dropped, arrived>>
  BY <1>1 DEF made
<1> HIDE DEF number
<1>7. born \in Nat /\ born' \in Nat /\ born' >= born /\ born' = born + Cardinality(made)
  BY <1>5, <1>6 DEF IInv, TypeOK
<1>8. \A d \in made : /\ devs'[d] = [ip |-> addr[d], seq |-> 0, gen |-> born + number[d]]
                      /\ devs'[d].gen = born + number[d] /\ devs'[d].seq = 0 /\ devs'[d] \in Object
                      /\ devs'[d].gen > born /\ devs'[d].gen \in 1 .. born'
  <2> SUFFICES ASSUME NEW d \in made
               PROVE  /\ devs'[d] = [ip |-> addr[d], seq |-> 0, gen |-> born + number[d]]
                      /\ devs'[d].gen = born + number[d] /\ devs'[d].seq = 0 /\ devs'[d] \in Object
                      /\ devs'[d].gen > born /\ devs'[d].gen \in 1 .. born'
    OBVIOUS
  <2>1. devs'[d] = [ip |-> addr[d], seq |-> 0, gen |-> born + number[d]]
    BY <1>2, <1>6
  <2>2. number[d] \in 1 .. Cardinality(made) /\ number[d] \in Nat
    BY <1>5
  <2>3. born + number[d] > born /\ born + number[d] \in 1 .. born' /\ born + number[d] \in Nat
    BY <1>5, <1>7, <2>2
  <2> QED
    BY <1>3, <2>1, <2>3 DEF Object
<1>9. \A d \in kept : devs'[d] = devs[d]
  BY <1>2, <1>6
<1>10. \A d \in Device \ (made \cup kept) : devs'[d] = none
  BY <1>6
<1>11. Objects'
  <2>1. \A d \in kept : devs[d].gen \in 1 .. born /\ devs[d].gen \in 1 .. born' /\ ~(devs[d].gen > born)
    <3>1. \A d \in kept : devs[d].gen \in 1 .. born
      BY <1>2, <1>4 DEF IInv, Objects
    <3> QED
      BY <1>7, <3>1
  <2>2. \A d \in Device : devs'[d] # none => devs'[d].gen \in 1 .. born'
    BY <1>8, <1>9, <1>10, <2>1
  <2>3. ASSUME NEW d \in Device, NEW e \in Device, devs'[d] # none, devs'[e] # none,
               devs'[d].gen = devs'[e].gen
        PROVE  d = e
    <3>1. CASE d \in made /\ e \in made
      <4>1. born + number[d] = born + number[e]
        BY <1>8, <2>3, <3>1
      <4>2. number[d] \in Nat /\ number[e] \in Nat
        BY <1>5, <3>1
      <4>3. \A x, y \in Nat : born + x = born + y => x = y
        BY <1>7
      <4>4. number[d] = number[e]
        BY <4>1, <4>2, <4>3
      <4> QED
        BY <1>5, <3>1, <4>4
    <3>2. CASE d \in kept /\ e \in kept
      BY <1>4, <1>9, <2>3, <3>2 DEF IInv, Objects
    <3>3. CASE d \in made /\ e \in kept
      <4>1. devs'[d].gen > born /\ devs'[e].gen = devs[e].gen /\ ~(devs[e].gen > born)
        BY <1>8, <1>9, <2>1, <3>3
      <4> QED
        BY <2>3, <4>1
    <3>4. CASE d \in kept /\ e \in made
      <4>1. devs'[e].gen > born /\ devs'[d].gen = devs[d].gen /\ ~(devs[d].gen > born)
        BY <1>8, <1>9, <2>1, <3>4
      <4> QED
        BY <2>3, <4>1
    <3> QED
      BY <1>10, <2>3, <3>1, <3>2, <3>3, <3>4
  <2> QED
    BY <2>2, <2>3 DEF Objects
<1>12. SchedulesKept'
  <2>1. \A d \in Device : heap[d] \in Nat /\ heap'[d] = heap[d] + IF d \in made THEN 1 ELSE 0
    BY <1>6 DEF IInv, TypeOK
  <2> QED
    BY <1>4, <1>9, <1>10, <2>1 DEF IInv, SchedulesKept
<1>13. TypeOK' /\ events' \in Nat
  <2>1. devs' \in [Device -> Object \cup {none}] /\ \A d \in Device : devs'[d] # none => devs'[d].seq <= MaxSeq
    <3>1. \A d \in Device : /\ devs'[d] \in Object \cup {none}
                            /\ devs'[d] # none => devs'[d].seq <= MaxSeq
      <4>1. \A d \in kept : devs[d] \in Object /\ devs[d].seq <= MaxSeq
        BY <1>2, <1>4 DEF IInv, TypeOK
      <4>2. \A d \in made : devs'[d] \in Object /\ devs'[d].seq <= MaxSeq
        <5>1. 0 <= MaxSeq
          BY MeasurementAssumption
        <5> QED
          BY <1>8, <5>1, Zenon
      <4> QED
        BY <1>9, <1>10, <4>1, <4>2
    <3>2. devs' = [d \in Device |-> devs'[d]]
      BY <1>6
    <3> QED
      BY <3>1, <3>2
  <2>2. heap' \in [Device -> Nat]
    BY <1>6 DEF IInv, TypeOK
  <2>3. addr' \in [Device -> Address \cup {none}]
    BY <1>6 DEF IInv, TypeOK
  <2>4. events' \in Nat /\ events' \in 0 .. MaxEvents
    BY <1>6, MeasurementAssumption DEF IInv, TypeOK
  <2> QED
    BY <1>6, <1>7, <2>1, <2>2, <2>3, <2>4 DEF IInv, TypeOK
<1>14. Numbered' /\ OneKey' /\ Disjoint' /\ Ordered' /\ NoGap' /\ TalliesTrue'
  BY <1>6, <1>7, <1>8, <1>9, <1>10, ObjectsChange
<1> QED
  BY <1>11, <1>12, <1>13, <1>14 DEF IInv

\* Sending keeps it: the packet is the next of its object, later than all there are.
LEMMA SendKeeps ==
    ASSUME IInv, NEW d \in Device, Send(d)
    PROVE  IInv'
<1> DEFINE p0 == Packet_of(d)
           g == devs[d].gen
<1>1. /\ devs[d] # none /\ devs[d].seq < MaxSeq /\ net' = net \cup {p0}
      /\ devs' = [devs EXCEPT ![d].seq = @ + 1]
      /\ UNCHANGED <<addr, override, epoch, heap, born, tally, dropped, arrived, events>>
  BY DEF Send
<1>2. devs[d] \in Object /\ devs[d].seq \in Nat /\ g \in 1 .. born /\ g \in Nat /\ born \in Nat
  BY <1>1 DEF IInv, TypeOK, Object, Objects
<1>3. /\ p0 = [dev |-> d, epoch |-> epoch, seq |-> devs[d].seq, gen |-> g]
      /\ p0 \in Packet /\ p0.seq = devs[d].seq /\ p0.gen = g /\ p0.dev = d /\ p0.epoch = epoch
  BY <1>2 DEF Packet_of, Packet, IInv, TypeOK
<1>4. /\ devs'[d] \in Object /\ devs'[d].seq = devs[d].seq + 1 /\ devs'[d].gen = g
      /\ devs'[d].ip = devs[d].ip /\ devs'[d] # none
      /\ \A e \in Device : e # d => devs'[e] = devs[e]
  <2>1. devs' = [devs EXCEPT ![d] = [devs[d] EXCEPT !.seq = devs[d].seq + 1]]
    BY <1>1
  <2>2. [devs[d] EXCEPT !.seq = devs[d].seq + 1] \in Object
    BY <1>2 DEF Object
  <2> QED
    BY <1>2, <2>1, <2>2, MeasurementAssumption DEF IInv, TypeOK, Object
<1> HIDE DEF p0
<1>5. \A t \in Tallies : \A p \in Packets(t) :
          p \in Packet /\ (p.gen = g => p.dev = d /\ p.epoch = epoch /\ p.seq < devs[d].seq)
  BY <1>1, PacketsTyped DEF IInv, Numbered
<1>6. \A t \in Tallies : Packets(t)' = Packets(t) \cup {p0} /\ p0 \notin Packets(t)
  <2>1. ~(p0.seq < devs[d].seq)
    BY <1>2, <1>3
  <2> QED
    BY <1>1, <1>3, <1>5, <2>1 DEF Packets
<1>7. TypeOK' /\ events' \in Nat
  <2>1. devs' \in [Device -> Object \cup {none}]
    BY <1>1, <1>4 DEF IInv, TypeOK
  <2>2. \A e \in Device : devs'[e] # none => devs'[e].seq <= MaxSeq
    BY <1>1, <1>2, <1>4, MeasurementAssumption DEF IInv, TypeOK
  <2>3. net' \subseteq Packet
    BY <1>1, <1>3 DEF IInv, TypeOK
  <2> QED
    BY <1>1, <2>1, <2>2, <2>3 DEF IInv, TypeOK
<1>8. Objects'
  BY <1>1, <1>2, <1>4 DEF IInv, Objects
<1>9. SchedulesKept'
  BY <1>1, <1>4 DEF IInv, SchedulesKept
<1>10. Numbered'
  <2> SUFFICES ASSUME NEW t \in Tallies, NEW p \in Packets(t) \cup {p0}
               PROVE  /\ p.gen \in 1 .. born
                      /\ \A e \in Device : devs'[e] # none /\ devs'[e].gen = p.gen =>
                            p.dev = e /\ p.epoch = epoch /\ p.seq < devs'[e].seq
    BY <1>1, <1>6 DEF Numbered
  <2>1. CASE p = p0
    <3>1. \A e \in Device : e # d => ~(devs[e] # none /\ devs[e].gen = g)
      BY <1>1 DEF IInv, Objects
    <3> QED
      BY <1>2, <1>3, <1>4, <2>1, <3>1
  <2>2. CASE p \in Packets(t)
    <3>1. p.seq \in Nat
      BY <1>5, <2>2 DEF Packet
    <3>2. p.gen = g => p.dev = d /\ p.epoch = epoch /\ p.seq < devs'[d].seq
      BY <1>2, <1>4, <1>5, <2>2, <3>1
    <3> QED
      BY <1>4, <2>2, <3>2 DEF IInv, Numbered
  <2> QED
    BY <2>1, <2>2
<1>11. OneKey'
  <2>1. \A t \in Tallies : \A p \in Packets(t) : p.gen = g => KeyOf(p) = KeyOf(p0)
    BY <1>3, <1>5 DEF KeyOf
  <2> QED
    BY <1>3, <1>6, <2>1 DEF IInv, OneKey
<1>12. Disjoint'
  BY <1>1, <1>6 DEF IInv, Disjoint, Packets, Tallies
<1>13. Ordered'
  <2>1. \A t \in Tallies : \A a \in arrived[t] : a.gen = g => a.seq < p0.seq
    BY <1>3, <1>5 DEF Packets
  <2> QED
    BY <1>1, <1>3, <2>1 DEF IInv, Ordered
<1>14. NoGap'
  <2> SUFFICES ASSUME NEW t \in Tallies, NEW p \in net \cup {p0} \cup arrived[t], NEW n \in Nat, p.seq < n
               PROVE  /\ \A q \in net \cup {p0} \cup arrived[t] :
                            q.gen = p.gen /\ n < q.seq => Accounted(t, p.gen, n)'
                      /\ \A e \in Device : devs'[e] # none /\ devs'[e].gen = p.gen /\ n < devs'[e].seq
                            => Accounted(t, p.gen, n)'
    BY <1>1 DEF NoGap
  <2>1. Accounted(t, p.gen, n) => Accounted(t, p.gen, n)'
    BY <1>6 DEF Accounted
  <2>2. CASE p = p0
    <3>1. \A q \in net \cup {p0} \cup arrived[t] : q.gen = g => ~(n < q.seq)
      <4> SUFFICES ASSUME NEW q \in net \cup {p0} \cup arrived[t], q.gen = g PROVE ~(n < q.seq)
        OBVIOUS
      <4>1. q = p0 \/ (q.seq \in Nat /\ q.seq < devs[d].seq)
        BY <1>5 DEF Packets, Packet
      <4> QED
        BY <1>2, <1>3, <2>2, <4>1
    <3>2. \A e \in Device : devs'[e] # none /\ devs'[e].gen = g => ~(n < devs'[e].seq)
      <4>1. ~(n < devs'[d].seq)
        BY <1>2, <1>3, <1>4, <2>2
      <4> QED
        BY <1>1, <1>4, <4>1 DEF IInv, Objects
    <3> QED
      BY <1>3, <2>2, <3>1, <3>2
  <2>3. CASE p \in net \cup arrived[t]
    <3>1. /\ \A q \in net \cup arrived[t] : q.gen = p.gen /\ n < q.seq => Accounted(t, p.gen, n)
          /\ \A e \in Device : devs[e] # none /\ devs[e].gen = p.gen /\ n < devs[e].seq
                => Accounted(t, p.gen, n)
      BY <2>3 DEF IInv, NoGap
    <3>2. p.gen = g /\ n < p0.seq => Accounted(t, p.gen, n)
      BY <1>1, <1>3, <3>1
    <3>3. p.gen = g /\ n = devs[d].seq => Accounted(t, p.gen, n)'
      BY <1>3, <1>6 DEF Accounted
    <3>4. p.gen = g /\ n < devs'[d].seq => n < p0.seq \/ n = devs[d].seq
      BY <1>2, <1>3, <1>4
    <3> QED
      BY <1>3, <1>4, <2>1, <3>1, <3>2, <3>3, <3>4
  <2> QED
    BY <2>2, <2>3
<1>15. TalliesTrue'
  BY <1>1 DEF IInv, TalliesTrue, Counted
<1> QED
  BY <1>7, <1>8, <1>9, <1>10, <1>11, <1>12, <1>13, <1>14, <1>15 DEF IInv

\* A device that is gone leaves the heap.
LEMMA PopStaleKeeps ==
    ASSUME IInv, NEW d \in Device, PopStale(d)
    PROVE  IInv'
<1>1. devs[d] = none /\ heap[d] > 0 /\ heap' = [heap EXCEPT ![d] = @ - 1]
      /\ UNCHANGED <<addr, override, epoch, devs, born, net, tally, dropped, arrived, events>>
  BY DEF PopStale, Due
<1>2. heap' \in [Device -> Nat]
  BY <1>1 DEF IInv, TypeOK
<1>3. TypeOK' /\ Objects' /\ events' \in Nat
  BY <1>1, <1>2 DEF IInv, TypeOK, Objects
<1>4. SchedulesKept'
  BY <1>1 DEF IInv, TypeOK, SchedulesKept
<1>5. \A e \in Device : devs'[e] = none \/ (devs'[e] = devs[e] /\ epoch' = epoch)
  BY <1>1
<1>6. born' \in Nat /\ born' >= born
  BY <1>1 DEF IInv, TypeOK
<1>7. Numbered' /\ OneKey' /\ Disjoint' /\ Ordered' /\ NoGap' /\ TalliesTrue'
  BY <1>1, <1>5, <1>6, ObjectsChange
<1> QED
  BY <1>1, <1>3, <1>4, <1>7 DEF IInv

-----------------------------------------------------------------------------
(* The network and the collector *)

\* No packet is made out of nothing.
LEMMA FewerPackets ==
    ASSUME IInv, UNCHANGED <<epoch, devs, heap, born>>,
           \A t \in Tallies : Packets(t)' \subseteq Packets(t)
    PROVE  Objects' /\ SchedulesKept' /\ Numbered' /\ OneKey'
<1>1. Objects' /\ SchedulesKept'
  BY DEF IInv, Objects, SchedulesKept
<1>2. Numbered'
  BY DEF IInv, Numbered
<1>3. OneKey'
  BY DEF IInv, OneKey
<1> QED
  BY <1>1, <1>2, <1>3

\* Losing a packet keeps it.
LEMMA LoseKeeps ==
    ASSUME IInv, NEW p \in net, Lose(p)
    PROVE  IInv'
<1>1. /\ net' = net \ {p} /\ dropped' = dropped \cup {p}
      /\ UNCHANGED <<addr, override, epoch, devs, heap, born, tally, arrived, events>>
  BY DEF Lose, agent
<1>2. \A t \in Tallies : Packets(t)' = Packets(t)
  BY <1>1 DEF Packets
<1>3. TypeOK' /\ events' \in Nat
  BY <1>1 DEF IInv, TypeOK
<1>4. Objects' /\ SchedulesKept' /\ Numbered' /\ OneKey'
  BY <1>1, <1>2, FewerPackets
<1>5. Disjoint' /\ Ordered'
  BY <1>1 DEF IInv, Disjoint, Ordered
<1>6. NoGap'
  <2>1. \A t \in Tallies : \A g, n : Accounted(t, g, n)' <=> Accounted(t, g, n)
    BY <1>2 DEF Accounted
  <2> QED
    BY <1>1, <2>1 DEF IInv, NoGap
<1>7. TalliesTrue'
  BY <1>1 DEF IInv, TalliesTrue, Counted
<1> QED
  BY <1>3, <1>4, <1>5, <1>6, <1>7 DEF IInv

\* An entry with one packet more.
Longer(s, p) ==
    IF s = none THEN [first |-> p.seq, last |-> p.seq, received |-> 1]
    ELSE [first |-> Min({s.first, p.seq}), last |-> Max({s.last, p.seq}), received |-> s.received + 1]

LEMMA AddTrue ==
    ASSUME IInv, NEW t \in Tallies, NEW p \in Packet, p \notin arrived[t],
           NEW k \in Stream, NEW C, NEW e,
           C = Counted(t, k) \cup {p}, e = Longer(tally[t][k], p)
    PROVE  /\ IsFiniteSet(C) /\ e \in Entry
           /\ e.received = Cardinality(C)
           /\ \E q \in C : q.seq = e.first
           /\ \E q \in C : q.seq = e.last
           /\ \A q \in C : e.first <= q.seq /\ q.seq <= e.last
<1>1. p.seq \in Nat /\ \A q \in Counted(t, k) : q.seq \in Nat
  BY PacketsTyped DEF IInv, Counted, Packet
<1>2. p \notin Counted(t, k) /\ IsFiniteSet(Counted(t, k)) /\ Cardinality(Counted(t, k)) \in Nat
  BY FS_CardinalityType DEF IInv, TalliesTrue, Counted
<1>3. IsFiniteSet(C) /\ Cardinality(C) = Cardinality(Counted(t, k)) + 1
  BY <1>2, FS_AddElement
<1>4. CASE tally[t][k] = none
  <2>1. Counted(t, k) = {} /\ C = {p}
    BY <1>4 DEF IInv, TalliesTrue
  <2>2. Cardinality(C) = 1
    BY <1>3, <2>1, FS_EmptySet
  <2>3. e.first = p.seq /\ e.last = p.seq /\ e.received = 1 /\ e \in Entry
    BY <1>1, <1>4 DEF Entry, Longer
  <2>4. p.seq <= p.seq
    BY <1>1
  <2> QED
    BY <1>3, <2>1, <2>2, <2>3, <2>4
<1>5. CASE tally[t][k] # none
  <2> DEFINE s == tally[t][k]
  <2>1. s \in Entry /\ s.first \in Nat /\ s.last \in Nat /\ s.received \in Nat \ {0}
    BY <1>5 DEF IInv, TypeOK, Entry
  <2>2. /\ s.received = Cardinality(Counted(t, k))
        /\ \E q \in Counted(t, k) : q.seq = s.first
        /\ \E q \in Counted(t, k) : q.seq = s.last
        /\ \A q \in Counted(t, k) : s.first <= q.seq /\ q.seq <= s.last
    BY <1>5 DEF IInv, TalliesTrue
  <2>3. e = [first |-> Min({s.first, p.seq}), last |-> Max({s.last, p.seq}), received |-> s.received + 1]
    BY <1>5 DEF Longer
  <2> HIDE DEF s
  <2>4. /\ e.first = IF s.first <= p.seq THEN s.first ELSE p.seq
        /\ e.last = IF s.last <= p.seq THEN p.seq ELSE s.last
        /\ e.received = s.received + 1
    <3>1. /\ Min({s.first, p.seq}) = IF s.first <= p.seq THEN s.first ELSE p.seq
          /\ Max({s.last, p.seq}) = IF s.last <= p.seq THEN p.seq ELSE s.last
      BY <1>1, <2>1, Smaller
    <3>2. e.first = Min({s.first, p.seq}) /\ e.last = Max({s.last, p.seq}) /\ e.received = s.received + 1
      BY <2>3
    <3> QED
      BY <3>1, <3>2, Zenon
  <2>5. e.received = Cardinality(C)
    BY <1>3, <2>2, <2>4
  <2>6. e \in Entry
    <3>1. e.first \in Nat /\ e.last \in Nat /\ e.received \in Nat \ {0}
      BY <1>1, <2>1, <2>4
    <3> QED
      BY <2>3, <3>1 DEF Entry
  <2>7. (\E q \in C : q.seq = e.first) /\ (\E q \in C : q.seq = e.last)
    BY <2>2, <2>4
  <2>8. \A q \in C : e.first <= q.seq /\ q.seq <= e.last
    <3>1. e.first <= p.seq /\ p.seq <= e.last /\ e.first <= s.first /\ s.last <= e.last
          /\ e.first \in Nat /\ e.last \in Nat
      BY <1>1, <2>1, <2>4
    <3>2. ASSUME NEW q \in Counted(t, k) PROVE e.first <= q.seq /\ q.seq <= e.last
      <4>1. q.seq \in Nat /\ s.first <= q.seq /\ q.seq <= s.last
        BY <1>1, <2>2
      <4> QED
        BY <2>1, <3>1, <4>1
    <3> QED
      BY <3>1, <3>2
  <2> QED
    BY <1>3, <2>5, <2>6, <2>7, <2>8
<1> QED
  BY <1>4, <1>5

\* Receiving one keeps it: none of its object is under way before it, so what
\* arrived is still earlier than what is under way.
LEMMA ReceiveKeeps ==
    ASSUME IInv, NEW p \in net, Receive(p)
    PROVE  IInv'
<1>1. /\ Foremost(p) /\ net' = net \ {p}
      /\ tally' = [t \in Tallies |-> Add(tally[t], p)]
      /\ arrived' = [t \in Tallies |-> arrived[t] \cup {p}]
      /\ UNCHANGED <<addr, override, epoch, devs, heap, born, dropped, events>>
  BY DEF Receive, agent
<1>2. \A t \in Tallies : Packets(t)' = Packets(t) /\ arrived'[t] = arrived[t] \cup {p}
  BY <1>1 DEF Packets
<1>3. p \in Packet /\ p.seq \in Nat /\ KeyOf(p) \in Stream /\ p \notin dropped
      /\ \A t \in Tallies : p \notin arrived[t]
  BY PacketsTyped DEF IInv, Packet, KeyOf, Stream, Disjoint
<1>4. Objects' /\ SchedulesKept' /\ Numbered' /\ OneKey'
  BY <1>1, <1>2, FewerPackets
<1>5. Disjoint'
  BY <1>1, <1>2, <1>3 DEF IInv, Disjoint
<1>6. Ordered'
  <2> SUFFICES ASSUME NEW t \in Tallies, NEW a \in arrived[t] \cup {p}, NEW q \in net \ {p},
                      a.gen = q.gen
               PROVE  a.seq < q.seq
    BY <1>1, <1>2 DEF Ordered
  <2>1. CASE a \in arrived[t]
    BY <2>1 DEF IInv, Ordered
  <2>2. CASE a = p
    <3>1. p.seq <= q.seq /\ q \in Packet /\ q.seq \in Nat
      BY <1>1, <2>2, PacketsTyped DEF IInv, Foremost, Packet
    <3>2. KeyOf(p) = KeyOf(q)
      BY <2>2 DEF IInv, OneKey, Packets
    <3>3. p.seq # q.seq
      BY <1>3, <2>2, <3>1, <3>2, SamePacket
    <3> QED
      BY <1>3, <2>2, <3>1, <3>3
  <2> QED
    BY <2>1, <2>2
<1>7. NoGap'
  <2>1. \A t \in Tallies : \A g, n : Accounted(t, g, n)' <=> Accounted(t, g, n)
    BY <1>2 DEF Accounted
  <2>2. \A t \in Tallies : net' \cup arrived'[t] = net \cup arrived[t]
    BY <1>1, <1>2
  <2> QED
    BY <1>1, <2>1, <2>2 DEF IInv, NoGap
<1>8. \A t \in Tallies, k \in Stream :
          /\ k # KeyOf(p) => tally'[t][k] = tally[t][k] /\ Counted(t, k)' = Counted(t, k)
          /\ k = KeyOf(p) => /\ Counted(t, k)' = Counted(t, k) \cup {p}
                             /\ tally'[t][k] = Longer(tally[t][k], p)
  <2> SUFFICES ASSUME NEW t \in Tallies, NEW k \in Stream
               PROVE  /\ k # KeyOf(p) => tally'[t][k] = tally[t][k] /\ Counted(t, k)' = Counted(t, k)
                      /\ k = KeyOf(p) => /\ Counted(t, k)' = Counted(t, k) \cup {p}
                                         /\ tally'[t][k] = Longer(tally[t][k], p)
    OBVIOUS
  <2>1. Counted(t, k)' = IF k = KeyOf(p) THEN Counted(t, k) \cup {p} ELSE Counted(t, k)
    BY <1>2 DEF Counted
  <2>2. tally'[t] = Add(tally[t], p) /\ tally[t] \in [Stream -> Entry \cup {none}]
    BY <1>1 DEF IInv, TypeOK
  <2> QED
    BY <2>1, <2>2 DEF Add, Longer
<1>9. \A t \in Tallies : LET k == KeyOf(p) IN
          /\ IsFiniteSet(Counted(t, k)') /\ tally'[t][k] \in Entry
          /\ tally'[t][k].received = Cardinality(Counted(t, k)')
          /\ \E q \in Counted(t, k)' : q.seq = tally'[t][k].first
          /\ \E q \in Counted(t, k)' : q.seq = tally'[t][k].last
          /\ \A q \in Counted(t, k)' : tally'[t][k].first <= q.seq /\ q.seq <= tally'[t][k].last
  <2> SUFFICES ASSUME NEW t \in Tallies
               PROVE  LET k == KeyOf(p) IN
                      /\ IsFiniteSet(Counted(t, k)') /\ tally'[t][k] \in Entry
                      /\ tally'[t][k].received = Cardinality(Counted(t, k)')
                      /\ \E q \in Counted(t, k)' : q.seq = tally'[t][k].first
                      /\ \E q \in Counted(t, k)' : q.seq = tally'[t][k].last
                      /\ \A q \in Counted(t, k)' : tally'[t][k].first <= q.seq /\ q.seq <= tally'[t][k].last
    OBVIOUS
  <2> DEFINE k == KeyOf(p)
             C == Counted(t, k)'
             e == tally'[t][k]
  <2>1. k \in Stream /\ p \in Packet /\ p \notin arrived[t] /\ k = KeyOf(p)
    BY <1>3
  <2>2. /\ C = Counted(t, k) \cup {p}
        /\ e = Longer(tally[t][k], p)
    BY <1>8, <2>1, Zenon
  <2> HIDE DEF C, e, k
  <2>3. /\ IsFiniteSet(C) /\ e \in Entry
        /\ e.received = Cardinality(C)
        /\ \E q \in C : q.seq = e.first
        /\ \E q \in C : q.seq = e.last
        /\ \A q \in C : e.first <= q.seq /\ q.seq <= e.last
    BY <2>1, <2>2, AddTrue
  <2> QED
    BY <2>3, Zenon DEF C, e, k
<1>10. TalliesTrue'
  <2>1. \A t \in Tallies : tally'[t][KeyOf(p)] # none
    BY <1>9, MeasurementAssumption
  <2> SUFFICES ASSUME NEW t \in Tallies, NEW k \in Stream
               PROVE  /\ IsFiniteSet(Counted(t, k)')
                      /\ tally'[t][k] = none => Counted(t, k)' = {}
                      /\ tally'[t][k] # none =>
                            /\ tally'[t][k].received = Cardinality(Counted(t, k)')
                            /\ \E q \in Counted(t, k)' : q.seq = tally'[t][k].first
                            /\ \E q \in Counted(t, k)' : q.seq = tally'[t][k].last
                            /\ \A q \in Counted(t, k)' :
                                  tally'[t][k].first <= q.seq /\ q.seq <= tally'[t][k].last
    BY DEF TalliesTrue
  <2>2. CASE k = KeyOf(p)
    BY <1>9, <2>1, <2>2, Zenon
  <2>3. CASE k # KeyOf(p)
    <3>1. Counted(t, k)' = Counted(t, k) /\ tally'[t][k] = tally[t][k]
      BY <1>8, <2>3, Zenon
    <3> QED
      BY <3>1 DEF IInv, TalliesTrue
  <2> QED
    BY <2>2, <2>3
<1>11. TypeOK' /\ events' \in Nat
  <2>1. tally' \in [Tallies -> [Stream -> Entry \cup {none}]]
    <3>1. \A t \in Tallies : tally'[t] \in [Stream -> Entry \cup {none}]
      <4> SUFFICES ASSUME NEW t \in Tallies PROVE tally'[t] \in [Stream -> Entry \cup {none}]
        OBVIOUS
      <4>1. tally[t] \in [Stream -> Entry \cup {none}]
        BY DEF IInv, TypeOK
      <4>2. \A k \in Stream : tally'[t][k] \in Entry \cup {none}
        BY <1>8, <1>9, <4>1
      <4>3. tally'[t] = [k \in Stream |-> tally'[t][k]]
        BY <1>1, <4>1 DEF Add
      <4> QED
        BY <4>2, <4>3
    <3> QED
      BY <1>1, <3>1
  <2>2. arrived' \in [Tallies -> SUBSET Packet]
    BY <1>1, <1>3 DEF IInv, TypeOK
  <2> QED
    BY <1>1, <2>1, <2>2 DEF IInv, TypeOK
<1> QED
  BY <1>4, <1>5, <1>6, <1>7, <1>10, <1>11 DEF IInv

LEMMA EventCounted ==
    ASSUME IInv, Event
    PROVE  events' \in Nat /\ events' \in 0 .. MaxEvents
  BY MeasurementAssumption DEF IInv, TypeOK, Event

LEMMA EmptyTyped == Empty \in [Stream -> Entry \cup {none}] /\ \A k \in Stream : Empty[k] = none
  BY DEF Empty

\* Starting a run keeps it: what the run's tally forgets was sent before all that is
\* under way, so no number after one under way is among it.
LEMMA RunStartKeeps ==
    ASSUME IInv, RunStart
    PROVE  IInv'
<1>1. /\ tally' = [tally EXCEPT !["run"] = Empty]
      /\ arrived' = [arrived EXCEPT !["run"] = {}]
      /\ UNCHANGED <<addr, override, epoch, devs, heap, born, net, dropped>>
      /\ events' \in Nat /\ events' \in 0 .. MaxEvents
  BY EventCounted DEF RunStart, agent
<1>2. \A t \in Tallies : /\ t # "run" => arrived'[t] = arrived[t] /\ tally'[t] = tally[t]
                         /\ t = "run" => arrived'[t] = {} /\ tally'[t] = Empty
  BY <1>1 DEF IInv, TypeOK
<1>3. \A t \in Tallies : /\ Packets(t)' \subseteq Packets(t)
                         /\ t # "run" => Packets(t)' = Packets(t)
  BY <1>1, <1>2 DEF Packets
<1>4. TypeOK'
  <2>1. tally' \in [Tallies -> [Stream -> Entry \cup {none}]]
    BY <1>1, EmptyTyped DEF IInv, TypeOK
  <2>2. arrived' \in [Tallies -> SUBSET Packet]
    BY <1>1 DEF IInv, TypeOK
  <2> QED
    BY <1>1, <2>1, <2>2 DEF IInv, TypeOK
<1>5. Objects' /\ SchedulesKept' /\ Numbered' /\ OneKey'
  BY <1>1, <1>3, FewerPackets
<1>6. Disjoint' /\ Ordered'
  BY <1>1, <1>2 DEF IInv, Disjoint, Ordered
<1>7. NoGap'
  <2> SUFFICES ASSUME NEW t \in Tallies, NEW p \in net \cup arrived'[t], NEW n \in Nat, p.seq < n
               PROVE  /\ \A q \in net \cup arrived'[t] : q.gen = p.gen /\ n < q.seq
                            => Accounted(t, p.gen, n)'
                      /\ \A d \in Device : devs[d] # none /\ devs[d].gen = p.gen /\ n < devs[d].seq
                            => Accounted(t, p.gen, n)'
    BY <1>1 DEF NoGap
  <2>1. Accounted(t, p.gen, n) => Accounted(t, p.gen, n)'
    <3>1. CASE t # "run"
      BY <1>3, <3>1 DEF Accounted
    <3>2. CASE t = "run"
      <4>1. p \in net /\ p.seq \in Nat
        BY <1>2, <3>2, PacketsTyped DEF IInv, Packet
      <4>2. \A r \in arrived[t] : r.gen = p.gen => r.seq < p.seq /\ r.seq \in Nat
        BY <4>1, PacketsTyped DEF IInv, Ordered, Packet
      <4>3. \A r \in arrived[t] : r.gen = p.gen => r.seq # n
        BY <4>1, <4>2
      <4> QED
        BY <1>1, <4>3 DEF Accounted, Packets
    <3> QED
      BY <3>1, <3>2
  <2>2. p \in net \cup arrived[t] /\ net \cup arrived'[t] \subseteq net \cup arrived[t]
    BY <1>2
  <2> QED
    BY <2>1, <2>2 DEF IInv, NoGap
<1>8. TalliesTrue'
  <2> SUFFICES ASSUME NEW t \in Tallies, NEW k \in Stream
               PROVE  /\ IsFiniteSet(Counted(t, k)')
                      /\ tally'[t][k] = none => Counted(t, k)' = {}
                      /\ tally'[t][k] # none =>
                            /\ tally'[t][k].received = Cardinality(Counted(t, k)')
                            /\ \E p \in Counted(t, k)' : p.seq = tally'[t][k].first
                            /\ \E p \in Counted(t, k)' : p.seq = tally'[t][k].last
                            /\ \A p \in Counted(t, k)' :
                                  tally'[t][k].first <= p.seq /\ p.seq <= tally'[t][k].last
    BY DEF TalliesTrue
  <2>1. CASE t # "run"
    <3>1. Counted(t, k)' = Counted(t, k) /\ tally'[t] = tally[t]
      BY <1>2, <2>1 DEF Counted
    <3> QED
      BY <3>1 DEF IInv, TalliesTrue
  <2>2. CASE t = "run"
    <3>1. Counted(t, k)' = {} /\ tally'[t][k] = none
      BY <1>2, <2>2, EmptyTyped DEF Counted
    <3> QED
      BY <3>1, FS_EmptySet
  <2> QED
    BY <2>1, <2>2
<1> QED
  BY <1>1, <1>4, <1>5, <1>6, <1>7, <1>8 DEF IInv

\* A collector that starts afresh keeps it: it holds nothing, and nothing is under way.
LEMMA CollectorRestartKeeps ==
    ASSUME IInv, CollectorRestart
    PROVE  IInv'
<1>1. /\ tally' = [t \in Tallies |-> Empty] /\ arrived' = [t \in Tallies |-> {}]
      /\ dropped' = dropped \cup net /\ net' = {}
      /\ UNCHANGED <<addr, override, epoch, devs, heap, born>>
      /\ events' \in Nat /\ events' \in 0 .. MaxEvents
  BY EventCounted DEF CollectorRestart, agent
<1>2. \A t \in Tallies : arrived'[t] = {} /\ tally'[t] = Empty /\ Packets(t)' \subseteq Packets(t)
  BY <1>1 DEF Packets
<1>3. TypeOK'
  <2>1. tally' \in [Tallies -> [Stream -> Entry \cup {none}]]
    BY <1>1, EmptyTyped
  <2> QED
    BY <1>1, <2>1 DEF IInv, TypeOK
<1>4. Objects' /\ SchedulesKept' /\ Numbered' /\ OneKey'
  BY <1>1, <1>2, FewerPackets
<1>5. Disjoint' /\ Ordered' /\ NoGap'
  BY <1>1, <1>2 DEF Disjoint, Ordered, NoGap
<1>6. TalliesTrue'
  <2>1. \A t \in Tallies, k \in Stream : Counted(t, k)' = {} /\ tally'[t][k] = none
    BY <1>2, EmptyTyped DEF Counted
  <2> QED
    BY <2>1, FS_EmptySet DEF TalliesTrue
<1> QED
  BY <1>1, <1>3, <1>4, <1>5, <1>6 DEF IInv

-----------------------------------------------------------------------------
(* What happens around them *)

\* So does what only the next scan notices.
LEMMA SurroundingsKeep ==
    ASSUME IInv, UNCHANGED <<agent, net, tally, dropped, arrived>>,
           addr' \in [Device -> Address \cup {none}], override' \in {"absent", "off"},
           events' \in Nat, events' \in 0 .. MaxEvents
    PROVE  IInv'
<1>1. UNCHANGED <<epoch, devs, heap, born, net, tally, dropped, arrived>>
  BY DEF agent
<1>2. TypeOK' /\ Objects' /\ SchedulesKept'
  BY <1>1 DEF IInv, TypeOK, Objects, SchedulesKept
<1>3. \A e \in Device : devs'[e] = devs[e] /\ epoch' = epoch
  BY <1>1
<1>4. born' \in Nat /\ born' >= born
  BY <1>1 DEF IInv, TypeOK
<1>5. Numbered' /\ OneKey' /\ Disjoint' /\ Ordered' /\ NoGap' /\ TalliesTrue'
  BY <1>1, <1>3, <1>4, ObjectsChange
<1> QED
  BY <1>2, <1>5 DEF IInv

\* An agent that starts again keeps it: it has no object yet.
LEMMA AgentRestartKeeps ==
    ASSUME IInv, NEW e \in Epoch, AgentRestart(e)
    PROVE  IInv'
<1>1. /\ epoch' = e /\ devs' = [d \in Device |-> none] /\ heap' = [d \in Device |-> 0]
      /\ UNCHANGED <<addr, override, born, net, tally, dropped, arrived>>
      /\ events' \in Nat /\ events' \in 0 .. MaxEvents
  BY EventCounted DEF AgentRestart
<1>2. \A d \in Device : devs'[d] = none
  BY <1>1
<1>3. TypeOK' /\ Objects' /\ SchedulesKept'
  BY <1>1, <1>2 DEF IInv, TypeOK, Objects, SchedulesKept
<1>4. born' \in Nat /\ born' >= born
  BY <1>1 DEF IInv, TypeOK
<1>5. Numbered' /\ OneKey' /\ Disjoint' /\ Ordered' /\ NoGap' /\ TalliesTrue'
  BY <1>1, <1>2, <1>4, ObjectsChange
<1> QED
  BY <1>1, <1>3, <1>5 DEF IInv

-----------------------------------------------------------------------------
(* The theorems *)

\* The invariant holds throughout.
THEOREM Invariance == Spec => []IInv
<1>1. Init => IInv
  <2> SUFFICES ASSUME Init PROVE IInv
    OBVIOUS
  <2>1. \A t \in Tallies, k \in Stream : Counted(t, k) = {} /\ tally[t][k] = none
    BY EmptyTyped DEF Init, Counted
  <2>2. TypeOK /\ events \in Nat
    BY MeasurementAssumption, EmptyTyped DEF Init, TypeOK
  <2>3. Objects /\ SchedulesKept
    BY DEF Init, Objects, SchedulesKept
  <2>4. \A t \in Tallies : Packets(t) = {} /\ arrived[t] = {} /\ net = {}
    BY DEF Init, Packets
  <2>5. Numbered /\ OneKey /\ Ordered /\ NoGap
    BY <2>4 DEF Numbered, OneKey, Ordered, NoGap
  <2>6. Disjoint
    BY <2>4 DEF Init, Disjoint
  <2>7. TalliesTrue
    BY <2>1, FS_EmptySet DEF TalliesTrue
  <2> QED
    BY <2>2, <2>3, <2>5, <2>6, <2>7 DEF IInv
<1>2. IInv /\ [Next]_vars => IInv'
  <2> SUFFICES ASSUME IInv, [Next]_vars PROVE IInv'
    OBVIOUS
  <2>1. CASE UNCHANGED vars
    <3>1. UNCHANGED <<agent, net, tally, dropped, arrived>> /\ UNCHANGED <<addr, override, events>>
      BY <2>1 DEF vars, agent
    <3> QED
      BY <3>1, SurroundingsKeep DEF IInv, TypeOK
  <2>2. CASE Scan
    BY <2>2, ScanKeeps
  <2>3. ASSUME NEW d \in Device, Send(d) PROVE IInv'
    BY <2>3, SendKeeps
  <2>4. ASSUME NEW d \in Device, SendFails(d) PROVE IInv'
    BY <2>1, <2>4 DEF SendFails
  <2>5. ASSUME NEW d \in Device, PopStale(d) PROVE IInv'
    BY <2>5, PopStaleKeeps
  <2>6. ASSUME NEW p \in net, Lose(p) PROVE IInv'
    BY <2>6, LoseKeeps
  <2>7. ASSUME NEW p \in net, Receive(p) PROVE IInv'
    BY <2>7, ReceiveKeeps
  <2>8. CASE RunStart
    BY <2>8, RunStartKeeps
  <2>9. ASSUME NEW d \in Device, NEW a \in Address \cup {none}, SetAddress(d, a) PROVE IInv'
    <3>1. UNCHANGED <<agent, net, tally, dropped, arrived>> /\ UNCHANGED override /\ Event
          /\ addr' \in [Device -> Address \cup {none}]
      BY <2>9 DEF SetAddress, IInv, TypeOK
    <3> QED
      BY <3>1, EventCounted, SurroundingsKeep DEF IInv, TypeOK
  <2>10. ASSUME NEW o \in {"absent", "off"}, SetProfile(o) PROVE IInv'
    <3>1. UNCHANGED <<agent, net, tally, dropped, arrived>> /\ UNCHANGED addr /\ Event
          /\ override' \in {"absent", "off"}
      BY <2>10 DEF SetProfile
    <3> QED
      BY <3>1, EventCounted, SurroundingsKeep DEF IInv, TypeOK
  <2>11. ASSUME NEW e \in Epoch, AgentRestart(e) PROVE IInv'
    BY <2>11, AgentRestartKeeps
  <2>12. CASE CollectorRestart
    BY <2>12, CollectorRestartKeeps
  <2> QED
    BY <2>1, <2>2, <2>3, <2>4, <2>5, <2>6, <2>7, <2>8, <2>9, <2>10, <2>11, <2>12 DEF Next
<1> QED
  BY <1>1, <1>2, PTL DEF Spec

\* The state is well-typed: what traffic_agent.py and kpi_collector.py keep.
THEOREM TypeCorrect == Spec => []TypeOK
  BY Invariance, PTL DEF IInv

\* A device that sends has an entry in the agent's heap, whatever scans, failed sends and
\* stale entries did.
THEOREM SchedulesTheorem == Spec => []SchedulesKept
  BY Invariance, PTL DEF IInv

\* What a tally reports as lost is what was lost: for any number of devices, addresses,
\* epochs, packets and restarts.
THEOREM LossTheorem == Spec => []LossIsReal
<1>1. IInv => LossIsReal
  BY LossCounted DEF IInv
<1> QED
  BY <1>1, Invariance, PTL
=============================================================================

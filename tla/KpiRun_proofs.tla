----------------------------- MODULE KpiRun_proofs -----------------------------
(* What holds of run_kpis.py for any files, jobs, measurements and scorecard.  *)
EXTENDS KpiRun, Sums, SequenceTheorems

-----------------------------------------------------------------------------
(* Plans *)

\* What is counted through: a sequence whose entries have counts.
Counts(p) ==
    /\ Len(p) \in Nat /\ DOMAIN p = 1 .. Len(p)
    /\ \A i \in DOMAIN p : p[i].count \in Nat

LEMMA BeforeIsSum ==
    ASSUME NEW p, Counts(p), NEW i \in 1 .. Len(p) + 1
    PROVE  Before(p, i) = SumOf([j \in DOMAIN p |-> p[j].count], 1 .. i - 1)
<1> DEFINE S == 1 .. i - 1
           g == [j \in DOMAIN p |-> p[j].count]
           Right(h) == h = [s \in SUBSET S |->
                              IF s = {} THEN 0
                              ELSE p[CHOOSE x \in s : TRUE].count + h[s \ {CHOOSE x \in s : TRUE}]]
           iter == CHOOSE h : Right(h)
<1>0. Len(p) \in Nat /\ DOMAIN p = 1 .. Len(p) /\ i - 1 \in Int /\ 1 \in Int
  BY DEF Counts
<1>1. IsFiniteSet(S) /\ S \subseteq DOMAIN p /\ (\A x \in S : g[x] = p[x].count /\ g[x] \in Nat)
  <2>1. IsFiniteSet(S)
    BY <1>0, FS_Interval
  <2>2. S \subseteq DOMAIN p
    BY <1>0
  <2> QED
    BY <2>1, <2>2 DEF Counts
<1>2. ASSUME NEW h PROVE Right(h) <=> Solves(h, g, S)
  <2>1. ASSUME NEW s \in SUBSET S
        PROVE  (IF s = {} THEN 0
                ELSE p[CHOOSE x \in s : TRUE].count + h[s \ {CHOOSE x \in s : TRUE}]) = Sum1(g, h, s)
    <3>1. s # {} => g[Any(s)] = p[Any(s)].count
      BY <1>1, <2>1, AnyIn
    <3> HIDE DEF g
    <3> QED
      BY <3>1 DEF Sum1, Any
  <2> QED
    BY <2>1 DEF Solves
<1>3. \E h : Solves(h, g, S)
  <2>1. IsFiniteSet(S) /\ (\A x \in S : g[x] \in Nat)
    BY <1>1
  <2> HIDE DEF g, S
  <2> QED
    BY <2>1, SumSolves
<1>4. Solves(iter, g, S)
  <2>1. \E h : Right(h)
    <3>1. PICK h : Solves(h, g, S)
      BY <1>3
    <3>2. Right(h)
      BY <1>2, <3>1
    <3> HIDE DEF Right
    <3> QED
      BY <3>2
  <2>2. Right(iter)
    BY <2>1
  <2> HIDE DEF iter
  <2> QED
    BY <1>2, <2>2
<1>5. Before(p, i) = iter[S]
  BY DEF Before, MapThenSumSet, MapThenFoldSet
<1> HIDE DEF iter, g, S
<1>6. iter[S] = SumOf(g, S)
  BY <1>1, <1>4, SolutionIsSum
<1> QED
  BY <1>5, <1>6 DEF g, S

\* Counting begins at 0, and goes on by each entry's count.
LEMMA BeforeCounts ==
    ASSUME NEW p, Counts(p)
    PROVE  /\ Before(p, 1) = 0
           /\ \A i \in 1 .. Len(p) + 1 : Before(p, i) \in Nat
           /\ \A i \in 1 .. Len(p) : Before(p, i + 1) = Before(p, i) + p[i].count
<1> DEFINE g == [j \in DOMAIN p |-> p[j].count]
<1>1. ASSUME NEW i \in 1 .. Len(p) + 1
      PROVE  /\ IsFiniteSet(1 .. i - 1) /\ (\A x \in 1 .. i - 1 : g[x] \in Nat)
             /\ Before(p, i) = SumOf(g, 1 .. i - 1)
  <2>1. i - 1 \in Int /\ 1 \in Int /\ Len(p) \in Nat /\ DOMAIN p = 1 .. Len(p)
    BY DEF Counts
  <2>2. IsFiniteSet(1 .. i - 1)
    BY <2>1, FS_Interval
  <2>3. \A x \in 1 .. i - 1 : g[x] \in Nat
    BY <2>1 DEF Counts
  <2>4. Before(p, i) = SumOf(g, 1 .. i - 1)
    BY BeforeIsSum
  <2> QED
    BY <2>2, <2>3, <2>4
<1>2. \A i \in 1 .. Len(p) + 1 : Before(p, i) \in Nat
  BY <1>1, SumIsNat
<1>3. Before(p, 1) = 0
  <2>1. 1 \in 1 .. Len(p) + 1 /\ 1 .. 1 - 1 = {}
    BY DEF Counts
  <2> QED
    BY <1>1, <2>1, SumEquation
<1>4. ASSUME NEW i \in 1 .. Len(p)
      PROVE  Before(p, i + 1) = Before(p, i) + p[i].count
  <2>1. i \in 1 .. Len(p) + 1 /\ i + 1 \in 1 .. Len(p) + 1 /\ (i + 1) - 1 = i
    BY DEF Counts
  <2>2. i \in 1 .. i /\ (1 .. i) \ {i} = 1 .. i - 1
    OBVIOUS
  <2>3. IsFiniteSet(1 .. i) /\ (\A x \in 1 .. i : g[x] \in Nat)
    BY <1>1, <2>1
  <2>4. SumOf(g, 1 .. i) = g[i] + SumOf(g, 1 .. i - 1)
    BY <2>2, <2>3, SumRemove
  <2>5. Before(p, i + 1) = SumOf(g, 1 .. i) /\ Before(p, i) = SumOf(g, 1 .. i - 1)
    BY <1>1, <2>1
  <2>6. g[i] = p[i].count /\ p[i].count \in Nat /\ Before(p, i) \in Nat
    BY <1>2, <2>1 DEF Counts
  <2> HIDE DEF g
  <2> QED
    BY <2>4, <2>5, <2>6
<1> QED
  BY <1>2, <1>3, <1>4

LEMMA SizeIsNat ==
    ASSUME NEW p, Counts(p)
    PROVE  Size(p) \in Nat
  BY BeforeCounts DEF Size, Counts

\* Each number up to the size falls into an entry.
LEMMA EntryCovers ==
    ASSUME NEW p, Counts(p), NEW n \in 1 .. Size(p)
    PROVE  /\ EntryOf(p, n) \in DOMAIN p
           /\ Before(p, EntryOf(p, n)) < n /\ n <= Before(p, EntryOf(p, n) + 1)
<1> DEFINE Falls(i) == Before(p, i) < n /\ n <= Before(p, i + 1)
<1>0. Len(p) \in Nat /\ DOMAIN p = 1 .. Len(p) /\ Size(p) \in Nat /\ n \in Nat
  BY SizeIsNat DEF Counts
<1>1. \E i \in DOMAIN p : Falls(i)
  <2> SUFFICES ASSUME \A i \in DOMAIN p : ~Falls(i) PROVE FALSE
    OBVIOUS
  <2> DEFINE T == {j \in Nat : j <= Len(p) => Before(p, j + 1) < n}
  <2>1. 0 \in T
    BY BeforeCounts
  <2>2. \A j \in Nat : j \in T => j + 1 \in T
    <3> SUFFICES ASSUME NEW j \in Nat, j \in T PROVE j + 1 \in T
      OBVIOUS
    <3> SUFFICES ASSUME j + 1 <= Len(p) PROVE Before(p, (j + 1) + 1) < n
      OBVIOUS
    <3>1. j + 1 \in DOMAIN p /\ Before(p, j + 1) < n
      BY <1>0
    <3>2. Before(p, (j + 1) + 1) \in Nat
      BY <1>0, BeforeCounts
    <3>3. ~(n <= Before(p, (j + 1) + 1))
      BY <3>1
    <3> QED
      BY <1>0, <3>2, <3>3
  <2> HIDE DEF T
  <2>3. Len(p) \in T
    BY <1>0, <2>1, <2>2, Induction
  <2>4. Before(p, Len(p) + 1) < n
    BY <1>0, <2>3 DEF T
  <2> QED
    BY <1>0, <2>4 DEF Size
<1> QED
  BY <1>1 DEF EntryOf

LEMMA Numbers ==
    /\ DefaultArp \in Nat /\ BroadUes \in Nat /\ StandardUes \in Nat /\ MaxImsi \in Nat
    /\ Default \in Nat /\ Slack \in Nat /\ MaxRuns \in Nat /\ MaxFaults \in Nat
    /\ Rates \subseteq Nat \ {0} /\ Latencies \subseteq Nat \ {0} /\ none \notin Nat
    /\ broad # iot
  BY KpiRunAssumption, FilesAssumption

LEMMA Element ==
    ASSUME NEW S, NEW s \in Seq(S), NEW i \in DOMAIN s
    PROVE  s[i] \in S
  OBVIOUS

\* A plan, or the tiers of a slice, can be counted through.
LEMMA PlanCounts ==
    ASSUME NEW p, p \in Seq(Entry) \/ p \in Seq([count: Nat, arp: Nat])
    PROVE  Counts(p)
<1>1. CASE p \in Seq(Entry)
  <2>1. \A i \in DOMAIN p : p[i] \in Entry
    BY <1>1
  <2> QED
    BY <1>1, <2>1 DEF Counts, Entry
<1>2. CASE p \in Seq([count: Nat, arp: Nat])
  <2>1. \A i \in DOMAIN p : p[i] \in [count: Nat, arp: Nat]
    BY <1>2, Element
  <2> QED
    BY <1>2, <2>1 DEF Counts
<1> QED
  BY <1>1, <1>2

\* The UEs of a plan: each opens a slice of it.
LEMMA LaunchesOf ==
    ASSUME NEW p \in Seq(Entry)
    PROVE  /\ Size(p) \in Nat /\ DOMAIN Launches(p) = 1 .. Size(p)
           /\ IsFiniteSet(DOMAIN Launches(p))
           /\ \A s : RangeOf(p, s) \subseteq 1 .. Size(p) /\ IsFiniteSet(RangeOf(p, s))
           /\ \A n \in 1 .. Size(p) : /\ Launches(p)[n] = p[EntryOf(p, n)].slice
                                      /\ Launches(p)[n] \in {broad, iot}
<1>1. Counts(p) /\ Size(p) \in Nat
  BY PlanCounts, SizeIsNat
<1>2. DOMAIN Launches(p) = 1 .. Size(p)
  BY DEF Launches
<1>3. IsFiniteSet(1 .. Size(p))
  BY <1>1, FS_Interval
<1>4. ASSUME NEW s PROVE RangeOf(p, s) \subseteq 1 .. Size(p) /\ IsFiniteSet(RangeOf(p, s))
  <2>1. RangeOf(p, s) \subseteq 1 .. Size(p)
    BY DEF RangeOf
  <2> QED
    BY <1>3, <2>1, FS_Subset
<1>5. ASSUME NEW n \in 1 .. Size(p)
      PROVE  Launches(p)[n] = p[EntryOf(p, n)].slice /\ Launches(p)[n] \in {broad, iot}
  <2>1. Launches(p)[n] = p[EntryOf(p, n)].slice
    BY DEF Launches
  <2>2. EntryOf(p, n) \in DOMAIN p
    BY <1>1, EntryCovers
  <2>3. p[EntryOf(p, n)] \in Entry
    BY <2>2
  <2> QED
    BY <2>1, <2>3 DEF Entry
<1> QED
  BY <1>1, <1>2, <1>3, <1>4, <1>5

Tiered(tiers) == tiers \in [{broad, iot} -> Seq([count: Nat, arp: Nat])]

\* The priority of a subscriber is that of a tier or the default one.
LEMMA ArpIsNat ==
    ASSUME NEW t \in Seq([count: Nat, arp: Nat]), NEW index \in Nat \ {0}
    PROVE  TierOf(t, index, DefaultArp) \in Nat
<1>1. Counts(t) /\ Size(t) \in Nat
  BY PlanCounts, SizeIsNat
<1>2. CASE index > Size(t)
  BY <1>2, Numbers DEF TierOf
<1>3. CASE ~(index > Size(t))
  <2>1. index \in 1 .. Size(t)
    BY <1>1, <1>3
  <2>3. EntryOf(t, index) \in DOMAIN t
    BY <1>1, <2>1, EntryCovers
  <2>2. t[EntryOf(t, index)] \in [count: Nat, arp: Nat]
    BY <2>3, Element
  <2> QED
    BY <1>3, <2>2 DEF TierOf
<1> QED
  BY <1>2, <1>3

\* The record made of a subscriber names the slice that its UE opens.
LEMMA RecordsOf ==
    ASSUME NEW p \in Seq(Entry), NEW tiers, Tiered(tiers)
    PROVE  /\ DOMAIN Records(p, tiers, DefaultArp) = 1 .. Size(p)
           /\ \A n \in 1 .. Size(p) :
                 /\ Records(p, tiers, DefaultArp)[n] # none
                 /\ Records(p, tiers, DefaultArp)[n].home = Launches(p)[n]
<1>1. DOMAIN Records(p, tiers, DefaultArp) = 1 .. Size(p)
  BY DEF Records
<1>2. ASSUME NEW n \in 1 .. Size(p)
      PROVE  /\ Records(p, tiers, DefaultArp)[n] # none
             /\ Records(p, tiers, DefaultArp)[n].home = Launches(p)[n]
  <2> DEFINE i == EntryOf(p, n)
             index == n - Before(p, i)
             arp == TierOf(tiers[p[i].slice], index, DefaultArp)
  <2>1. Records(p, tiers, DefaultArp)[n] = [home |-> p[i].slice, arp |-> arp]
    BY DEF Records
  <2>2. Counts(p) /\ Size(p) \in Nat
    BY PlanCounts, SizeIsNat
  <2>3. i \in DOMAIN p /\ Before(p, i) < n
    BY <2>2, EntryCovers
  <2>11. i \in 1 .. Len(p) + 1
    BY <2>2, <2>3 DEF Counts
  <2>4. Before(p, i) \in Nat
    BY <2>2, <2>11, BeforeCounts
  <2>5. p[i].slice \in {broad, iot} /\ Launches(p)[n] = p[i].slice
    BY LaunchesOf
  <2> HIDE DEF i
  <2>6. index \in Nat \ {0}
    BY <2>2, <2>3, <2>4
  <2> HIDE DEF index
  <2>7. tiers[p[i].slice] \in Seq([count: Nat, arp: Nat])
    BY <2>5 DEF Tiered
  <2>8. arp \in Nat
    BY <2>6, <2>7, ArpIsNat
  <2> HIDE DEF arp
  <2>9. [home |-> p[i].slice, arp |-> arp] \in [home: {broad, iot}, arp: Nat]
    BY <2>5, <2>8
  <2>10. none \notin [home: {broad, iot}, arp: Nat]
    BY FilesAssumption
  <2> QED
    BY <2>1, <2>5, <2>9, <2>10
<1> QED
  BY <1>1, <1>2

\* The plan of a device sweep: the broadband devices, and then as many others as it says.
LEMMA DevicePlanOf ==
    ASSUME NEW v \in Nat
    PROVE  /\ DevicePlan(v) \in Seq(Entry) /\ Size(DevicePlan(v)) = BroadUes + v
           /\ RangeOf(DevicePlan(v), iot) = BroadUes + 1 .. BroadUes + v
           /\ Cardinality(RangeOf(DevicePlan(v), iot)) = v
<1> DEFINE p == DevicePlan(v)
<1> USE Numbers
<1>1. p \in Seq(Entry) /\ Len(p) = 2 /\ DOMAIN p = 1 .. 2
  BY DEF DevicePlan, Entry
<1>2. /\ p[1].slice = broad /\ p[1].count = BroadUes
      /\ p[2].slice = iot /\ p[2].count = v
  BY DEF DevicePlan
<1> HIDE DEF p
<1>3. Counts(p)
  BY <1>1, PlanCounts
<1>9. /\ Before(p, 1) = 0
      /\ \A i \in 1 .. 2 : Before(p, i + 1) = Before(p, i) + p[i].count
  BY <1>1, <1>3, BeforeCounts
<1>4. Before(p, 1) = 0 /\ Before(p, 1 + 1) = BroadUes /\ Before(p, 2 + 1) = BroadUes + v
  <2>1. Before(p, 1 + 1) = 0 + BroadUes
    BY <1>2, <1>9
  <2>2. Before(p, 2 + 1) = Before(p, 1 + 1) + v
    BY <1>2, <1>9
  <2> QED
    BY <1>9, <2>1, <2>2
<1>5. Size(p) = BroadUes + v
  BY <1>1, <1>4 DEF Size
<1>6. ASSUME NEW n \in 1 .. Size(p)
      PROVE  Launches(p)[n] = iot <=> n > BroadUes
  <2>1. EntryOf(p, n) \in {1, 2} /\ Before(p, EntryOf(p, n)) < n /\ n <= Before(p, EntryOf(p, n) + 1)
    BY <1>1, <1>3, EntryCovers
  <2>2. Launches(p)[n] = p[EntryOf(p, n)].slice
    BY <1>1, LaunchesOf
  <2>3. CASE EntryOf(p, n) = 1
    <3>1. n <= BroadUes
      BY <1>4, <2>1, <2>3
    <3> QED
      BY <1>2, <1>5, <2>2, <2>3, <3>1
  <2>4. CASE EntryOf(p, n) = 2
    <3>1. BroadUes < n
      BY <1>4, <2>1, <2>4
    <3> QED
      BY <1>2, <1>5, <2>2, <2>4, <3>1
  <2> QED
    BY <2>1, <2>3, <2>4
<1>7. RangeOf(p, iot) = BroadUes + 1 .. BroadUes + v
  BY <1>5, <1>6 DEF RangeOf
<1>8. Cardinality(BroadUes + 1 .. BroadUes + v) = v
  BY FS_Interval
<1> QED
  BY <1>1, <1>5, <1>7, <1>8 DEF p

\* Of two numbers the larger one.
LEMMA MaxOfTwo ==
    ASSUME NEW x \in Nat, NEW y \in Nat
    PROVE  Max({x, y}) = IF x >= y THEN x ELSE y
  BY DEF Max

-----------------------------------------------------------------------------
(* The inductive invariant *)

JobSet == [kind: Kinds, values: Seq(Nat) \ {<<>>}]

\* The numbers of devices that a job goes through are within Imsi.
Fits(kind, vs) == kind = "mmtc_devices" => \A v \in DOMAIN vs : BroadUes + vs[v] <= MaxImsi

\* Where the program is says which job it is at, and that values are left of it.
Control ==
    /\ todo \in Seq(JobSet) /\ values \in Seq(Nat)
    /\ \A i \in DOMAIN todo : Fits(todo[i].kind, todo[i].values)
    /\ pc \notin {"idle", "next"} => todo # <<>> /\ Fits(Job.kind, values)
    /\ pc \in {"fresh", "profile", "switch", "provision", "override", "restart", "measure"} =>
          values # <<>>
    /\ pc = "fresh" => Job.kind = "standard"
    /\ pc \in {"profile", "switch", "reset", "unswitch"} => Job.kind = "mmtc_interval"
    /\ pc \in {"provision", "override", "restart", "delete", "remove", "restore"} =>
          Job.kind = "mmtc_devices"
    /\ pc \in {"idle", "next", "fresh", "profile", "switch", "reset", "unswitch", "provision",
              "override", "restart", "delete", "remove", "restore", "measure", "end"}

\* The stack is what the files, an override or nothing started.
Stack ==
    /\ files \in FileSets /\ Consistent(files.plan, files.want, files.tiers)
    /\ db = [n \in Imsi |-> db[n]]
    /\ override \in Nat \cup {none} /\ profile \in Nat \cup {none}
    /\ slowest \in Nat /\ prev \in Nat
    /\ IsFiniteSet(DOMAIN launched) /\ attached \subseteq DOMAIN launched

At(kind) == pc \notin {"idle", "next"} /\ Job.kind = kind

\* Since the interval was set, the devices that are not at it yet were not above the one before.
Switching ==
    At("mmtc_interval") =>
        /\ pc \in {"switch", "measure"} => profile = Head(values)
        /\ calm => /\ pc = "profile" => slowest <= prev
                   /\ pc = "switch" => slowest <= prev \/ slowest = profile
                   /\ pc = "measure" => slowest = profile

\* From the provisioning on, the first of the subscribers are those of the plan.
Provided(plan) == \A n \in DOMAIN Records(plan, files.tiers, DefaultArp) :
                      db[n] = Records(plan, files.tiers, DefaultArp)[n]
Attaching ==
    At("mmtc_devices") =>
        /\ pc \in {"override", "restart", "measure"} => Provided(DevicePlan(Head(values)))
        /\ pc \in {"restart", "measure"} => override = Head(values)
        /\ pc = "measure" => launched = Launches(DevicePlan(Head(values)))

\* What is standard at each point, as long as nothing failed unseen: all of it between the
\* jobs and in those that change nothing; all but the profile; the profile only; and, on the
\* way back, what the clean-up has put right so far.
Launching == override = none /\ db = Standard(files) /\ up /\ launched = Launches(files.plan)
Trimmed == \A n \in Imsi : n > StandardUes => db[n] = none
Standing ==
    ~unrestored =>
        /\ (\/ pc \in {"idle", "next", "fresh", "profile", "switch", "reset", "unswitch", "end"}
            \/ pc = "measure" /\ Job.kind # "mmtc_devices") => Launching
        /\ (\/ pc \in {"idle", "next", "fresh", "unswitch", "end", "provision", "override", "restart",
                      "delete", "remove", "restore"}
            \/ pc = "measure" /\ Job.kind # "mmtc_interval") => profile = none
        /\ pc \in {"remove", "restore"} => Trimmed
        /\ pc = "restore" => override = none
        /\ pc # "idle" => StandardUes <= Size(files.want)

\* Rows that say what was so.
Row == [kind: Kinds, value: Nat, provisioned: Nat, ran: Nat, provided: BOOLEAN, calm: BOOLEAN,
        slowest: Nat, fastest: Nat]
Right ==
    {r \in Row : /\ r.kind = "mmtc_devices" =>
                        r.ran = r.value /\ r.provisioned = r.value /\ r.provided
                 /\ r.kind = "mmtc_interval" /\ r.calm =>
                        r.slowest = r.value /\ r.fastest = r.value}
Written == records \in Seq(Right) /\ calm \in BOOLEAN

\* A score is that of what was measured.
Vector(m) == m \in [latency: Latencies \cup {none}, p5: Rates \cup {none}, reg: Nat \cup {none}]
ScoredAs == card = none \/ (Vector(card.measured) /\ card.overall = Overall(Defs, card.measured))

IInv == Control /\ Stack /\ Switching /\ Attaching /\ Standing /\ Written /\ ScoredAs

-----------------------------------------------------------------------------
(* It is inductive *)

\* Files that check_plan() accepts count the same devices, and records can be made of them.
LEMMA FilesOf ==
    ASSUME Stack
    PROVE  /\ files.plan = files.want /\ files.want \in Seq(Entry) /\ Tiered(files.tiers)
           /\ Size(files.want) \in Nat /\ Size(files.want) <= MaxImsi
<1>1. files.plan \in Seq(Entry) /\ files.want \in Seq(Entry) /\ Size(files.want) <= MaxImsi
      /\ Tiered(files.tiers)
  BY FilesAssumption DEF Stack, Tiered
<1>2. Len(files.plan) = Len(files.want)
      /\ \A i \in DOMAIN files.plan : files.plan[i].slice = files.want[i].slice
                                        /\ files.plan[i].count = files.want[i].count
  BY DEF Stack, Consistent
<1> DEFINE p == files.plan
           w == files.want
<1> HIDE DEF p, w
<1>3. p \in Seq(Entry) /\ w \in Seq(Entry) /\ Len(p) = Len(w)
      /\ \A i \in DOMAIN p : p[i].slice = w[i].slice /\ p[i].count = w[i].count
  BY <1>1, <1>2 DEF p, w
<1>4. DOMAIN p = DOMAIN w /\ p = [i \in DOMAIN p |-> p[i]] /\ w = [i \in DOMAIN w |-> w[i]]
  BY <1>3
<1>5. ASSUME NEW i \in DOMAIN p PROVE p[i] = w[i]
  <2>1. p[i] \in Entry /\ w[i] \in Entry
    BY <1>3, <1>4, Element
  <2> QED
    BY <1>3, <2>1 DEF Entry
<1>6. p = w
  BY <1>4, <1>5
<1> QED
  BY <1>1, <1>6, LaunchesOf DEF p, w

\* What is left of the values fits as they did.
LEMMA TailOf ==
    ASSUME NEW kind, NEW vs \in Seq(Nat), vs # <<>>, Fits(kind, vs)
    PROVE  /\ Head(vs) \in Nat /\ Tail(vs) \in Seq(Nat) /\ Fits(kind, Tail(vs))
           /\ (kind = "mmtc_devices" => BroadUes + Head(vs) <= MaxImsi)
           /\ (Len(vs) > 1 => Tail(vs) # <<>>)
<1>1. Head(vs) \in Nat /\ Tail(vs) \in Seq(Nat) /\ Head(vs) = vs[1] /\ 1 \in DOMAIN vs
  OBVIOUS
<1>2. \A v \in DOMAIN Tail(vs) : v + 1 \in DOMAIN vs /\ Tail(vs)[v] = vs[v + 1]
  OBVIOUS
<1>3. Len(vs) > 1 => Tail(vs) # <<>>
  <2> DEFINE n == Len(vs)
             m == Len(Tail(vs))
  <2>3. m = n - 1 /\ n \in Nat
    BY HeadTailProperties
  <2> HIDE DEF n, m
  <2>1. n > 1 => m # 0
    BY <2>3
  <2>2. Len(<<>>) = 0
    OBVIOUS
  <2> QED
    BY <2>1, <2>2, Zenon DEF n, m
<1> QED
  BY <1>1, <1>2, <1>3 DEF Fits

\* The job the program is at.
LEMMA JobOf ==
    ASSUME Control, todo # <<>>
    PROVE  /\ Job \in JobSet /\ Job.kind \in Kinds
           /\ Job.values \in Seq(Nat) /\ Job.values # <<>> /\ Fits(Job.kind, Job.values)
           /\ Tail(todo) \in Seq(JobSet)
           /\ \A i \in DOMAIN Tail(todo) : Fits(Tail(todo)[i].kind, Tail(todo)[i].values)
<1>1. todo \in Seq(JobSet) /\ 1 \in DOMAIN todo /\ Head(todo) = todo[1]
  BY DEF Control
<1>2. Job \in JobSet /\ Fits(Job.kind, Job.values)
  BY <1>1, Element DEF Control, Job
<1>3. Tail(todo) \in Seq(JobSet)
  BY <1>1
<1>4. \A i \in DOMAIN Tail(todo) : i + 1 \in DOMAIN todo /\ Tail(todo)[i] = todo[i + 1]
  BY <1>1
<1>5. \A i \in DOMAIN Tail(todo) : Fits(Tail(todo)[i].kind, Tail(todo)[i].values)
  BY <1>4 DEF Control
<1> QED
  BY <1>2, <1>3, <1>5 DEF JobSet

\* Where a step leaves the program fits the job it is at.
LEMMA ControlNext ==
    ASSUME Control, Next
    PROVE  Control'
<1> USE DEF Job
<1>1. CASE Begin
  <2>1. todo' \in Seq(JobSet) /\ \A i \in DOMAIN todo' : Fits(todo'[i].kind, todo'[i].values)
    BY <1>1, JobsAssumption DEF Begin, Fits, JobSet
  <2> QED
    BY <1>1, <2>1 DEF Begin, Control
<1>2. CASE Next_job
  <2>1. CASE todo = <<>>
    BY <1>2, <2>1 DEF Next_job, Control
  <2>2. CASE todo # <<>>
    BY <1>2, <2>2, JobOf DEF Next_job, Control, Start, Kinds
  <2> QED
    BY <2>1, <2>2
<1>3. CASE End
  <2>1. todo # <<>>
    BY <1>3 DEF End, Control
  <2>2. CASE raised
    BY <1>3, <2>2 DEF End, Control
  <2>3. CASE ~raised
    BY <1>3, <2>1, <2>3, JobOf DEF End, Control
  <2> QED
    BY <2>2, <2>3
<1>4. CASE Fresh
  BY <1>4 DEF Fresh, Control, Raise, CleanUp
<1>5. CASE Measure
  <2>1. values # <<>> /\ todo # <<>> /\ Fits(Job.kind, values) /\ values \in Seq(Nat) /\ Job.kind \in Kinds
    BY <1>5, JobOf DEF Measure, Control
  <2>2. values' = Tail(values) /\ todo' = todo
        /\ pc' = IF Len(values) > 1 THEN Start(Job.kind) ELSE CleanUp(Job.kind)
    BY <1>5 DEF Measure
  <2>3. Tail(values) \in Seq(Nat) /\ Fits(Job.kind, Tail(values)) /\ (Len(values) > 1 => Tail(values) # <<>>)
    BY <2>1, TailOf
  <2> QED
    BY <2>1, <2>2, <2>3 DEF Control, Start, CleanUp, Kinds
<1>6. CASE MeasureFails
  BY <1>6, JobOf DEF MeasureFails, Raise, Control, CleanUp, Kinds
<1>7. CASE SetProfile
  BY <1>7 DEF SetProfile, Raise, Control, CleanUp
<1>8. CASE Switch
  BY <1>8 DEF Switch, program, Control
<1>9. CASE Reset
  BY <1>9 DEF Reset, program, Control
<1>10. CASE ProvisionDevices
  BY <1>10 DEF ProvisionDevices, Raise, Control, CleanUp
<1>11. CASE WriteOverride
  BY <1>11 DEF WriteOverride, Raise, Control, CleanUp
<1>12. CASE Restart
  BY <1>12 DEF Restart, Raise, Control, CleanUp
<1>13. CASE Delete
  BY <1>13 DEF Delete, program, Control
<1>14. CASE Remove
  BY <1>14 DEF Remove, program, Control
<1>15. CASE Restore
  BY <1>15 DEF Restore, Control
<1>16. CASE Kill
  BY <1>16 DEF Kill, Control
<1>17. CASE StartByHand
  BY <1>17 DEF StartByHand, program, Control
<1>18. CASE Settle
  BY <1>18 DEF Settle, program, Control
<1> QED
  BY <1>1, <1>2, <1>3, <1>4, <1>5, <1>6, <1>7, <1>8, <1>9, <1>10, <1>11, <1>12, <1>13, <1>14,
     <1>15, <1>16, <1>17, <1>18 DEF Next

\* The interval in force, and those of the devices, are numbers.
LEMMA IntervalIsNat ==
    ASSUME Stack
    PROVE  Interval \in Nat /\ (profile # none => Interval = profile)
  BY Numbers DEF Stack, Interval

LEMMA LongestIsNat ==
    ASSUME NEW x \in Nat, NEW p \in Nat \cup {none}
    PROVE  Max({x, IF p = none THEN Default ELSE p}) \in Nat
  BY Numbers, MaxOfTwo

\* What a plan now is: that of the files or that of a sweep.
LEMMA PlanNowIs ==
    ASSUME Stack
    PROVE  PlanNow \in Seq(Entry) /\ (override = none => PlanNow = files.plan)
           /\ (override # none => PlanNow = DevicePlan(override))
  BY FilesOf, DevicePlanOf DEF Stack, PlanNow

\* UEs launched anew: a finite number, those attached among them.
LEMMA RelaunchOf ==
    ASSUME Stack, NEW subs, Relaunch(subs)
    PROVE  /\ up' = TRUE /\ launched' = Launches(PlanNow) /\ IsFiniteSet(DOMAIN launched')
           /\ attached' \subseteq DOMAIN launched' /\ slowest' \in Nat
<1>1. launched' = Launches(PlanNow) /\ up' = TRUE /\ slowest' = Interval
  BY DEF Relaunch, Interval
<1>2. attached' \subseteq DOMAIN Launches(PlanNow)
  BY DEF Relaunch, Registrable
<1>3. IsFiniteSet(DOMAIN Launches(PlanNow))
  BY PlanNowIs, LaunchesOf
<1> QED
  BY <1>1, <1>2, <1>3, IntervalIsNat

\* So of start_ues.sh, which leaves records for every number of Imsi or none.
LEMMA StartsUesOf ==
    ASSUME Stack, StartsUes
    PROVE  /\ db' = [n \in Imsi |-> db'[n]] /\ Provision(files.want)
           /\ UNCHANGED <<override, profile>>
           /\ up' = TRUE /\ launched' = Launches(PlanNow) /\ IsFiniteSet(DOMAIN launched')
           /\ attached' \subseteq DOMAIN launched' /\ slowest' \in Nat
  BY RelaunchOf DEF StartsUes, Provision, ProvisionFirst

LEMMA RestartFailsOf ==
    ASSUME Stack, RestartFails
    PROVE  /\ IsFiniteSet(DOMAIN launched') /\ attached' \subseteq DOMAIN launched'
           /\ slowest' = slowest
<1>1. DOMAIN <<>> = {} /\ IsFiniteSet({})
  BY FS_EmptySet
<1> QED
  BY <1>1 DEF RestartFails, Stack

LEMMA StartFailsOf ==
    ASSUME Stack, StartFails
    PROVE  /\ db' = [n \in Imsi |-> db'[n]]
           /\ UNCHANGED <<override, profile>>
           /\ IsFiniteSet(DOMAIN launched') /\ attached' \subseteq DOMAIN launched'
           /\ slowest' \in Nat
<1>1. db' = [n \in Imsi |-> db'[n]] /\ UNCHANGED <<override, profile>>
  BY DEF StartFails, ProvisionFails, Provision, ProvisionFirst
<1>2. CASE UNCHANGED <<up, launched, attached, slowest>>
  BY <1>1, <1>2 DEF Stack
<1>3. CASE RestartFails
  BY <1>1, <1>3, RestartFailsOf DEF Stack
<1> QED
  BY <1>1, <1>2, <1>3 DEF StartFails

LEMMA StackNext ==
    ASSUME Stack, Control, Next
    PROVE  Stack'
<1> USE Numbers
<1>1. CASE Begin
  BY <1>1 DEF Begin, stack, Stack
<1>2. CASE Next_job
  BY <1>2 DEF Next_job, stack, Stack
<1>3. CASE End
  BY <1>3 DEF End, stack, Stack
<1>4. CASE Fresh
  <2>1. files' = files /\ prev' = prev
    BY <1>4 DEF Fresh
  <2>2. CASE StartsUes
    BY <2>1, <2>2, StartsUesOf DEF Stack
  <2>3. CASE StartFails
    BY <2>1, <2>3, StartFailsOf DEF Stack
  <2>4. CASE UNCHANGED stack
    BY <2>1, <2>4 DEF Stack, stack
  <2> QED
    BY <1>4, <2>2, <2>3, <2>4 DEF Fresh
<1>5. CASE Measure
  <2>1. Head(values) \in Nat
    BY <1>5, TailOf DEF Measure, Control
  <2>2. files' = files /\ UNCHANGED stack /\ prev' \in {Head(values), prev}
    BY <1>5 DEF Measure
  <2> QED
    BY <2>1, <2>2 DEF stack, Stack
<1>6. CASE MeasureFails
  BY <1>6 DEF MeasureFails, stack, Stack
<1>7. CASE SetProfile
  <2>1. Head(values) \in Nat
    BY <1>7, TailOf DEF SetProfile, Control
  <2>2. profile' \in Nat \cup {none}
    BY <1>7, <2>1 DEF SetProfile, Stack
  <2>3. slowest' \in Nat
    BY <1>7, <2>2, LongestIsNat DEF SetProfile, Stack
  <2> QED
    BY <1>7, <2>2, <2>3 DEF SetProfile, Stack
<1>8. CASE Switch
  <2>1. slowest' \in Nat
    BY <1>8, IntervalIsNat DEF Switch, Stack
  <2> QED
    BY <1>8, <2>1 DEF Switch, program, Stack
<1>9. CASE Reset
  <2>1. profile' \in Nat \cup {none}
    BY <1>9 DEF Reset, Stack
  <2>2. slowest' \in Nat
    BY <1>9, <2>1, LongestIsNat DEF Reset, Stack
  <2> QED
    BY <1>9, <2>1, <2>2 DEF Reset, program, Stack
<1>10. CASE ProvisionDevices
  <2>1. db' = [n \in Imsi |-> db'[n]]
    BY <1>10 DEF ProvisionDevices, Provision, ProvisionFails, ProvisionFirst, Stack
  <2> QED
    BY <1>10, <2>1 DEF ProvisionDevices, Stack
<1>11. CASE WriteOverride
  <2>1. Head(values) \in Nat
    BY <1>11, TailOf DEF WriteOverride, Control
  <2> QED
    BY <1>11, <2>1 DEF WriteOverride, Stack
<1>12. CASE Restart
  <2>1. UNCHANGED <<files, db, override, profile, prev>>
    BY <1>12 DEF Restart
  <2>2. CASE Relaunch(db)
    BY <2>1, <2>2, RelaunchOf DEF Stack
  <2>3. CASE RestartFails
    BY <2>1, <2>3, RestartFailsOf DEF Stack
  <2> QED
    BY <1>12, <2>2, <2>3 DEF Restart
<1>13. CASE Delete
  <2>1. db' = [n \in Imsi |-> db'[n]]
    BY <1>13 DEF Delete, Stack
  <2> QED
    BY <1>13, <2>1 DEF Delete, program, Stack
<1>14. CASE Remove
  BY <1>14 DEF Remove, program, Stack
<1>15. CASE Restore
  <2>1. files' = files /\ prev' = prev
    BY <1>15 DEF Restore
  <2>2. CASE StartsUes
    BY <2>1, <2>2, StartsUesOf DEF Stack
  <2>3. CASE StartFails
    BY <2>1, <2>3, StartFailsOf DEF Stack
  <2>4. CASE UNCHANGED stack
    BY <2>1, <2>4 DEF Stack, stack
  <2> QED
    BY <1>15, <2>2, <2>3, <2>4 DEF Restore
<1>16. CASE Kill
  BY <1>16 DEF Kill, stack, Stack
<1>17. CASE StartByHand
  BY <1>17, StartsUesOf DEF StartByHand, program, Stack
<1>18. CASE Settle
  BY <1>18, IntervalIsNat DEF Settle, program, Stack
<1> QED
  BY <1>1, <1>2, <1>3, <1>4, <1>5, <1>6, <1>7, <1>8, <1>9, <1>10, <1>11, <1>12, <1>13, <1>14,
     <1>15, <1>16, <1>17, <1>18 DEF Next

LEMMA SwitchingNext ==
    ASSUME Switching, Stack, Control, Next
    PROVE  Switching'
<1> USE Numbers DEF Job, At
<1>1. CASE Begin
  BY <1>1 DEF Begin, Switching
<1>2. CASE Next_job
  <2>1. CASE todo = <<>>
    BY <1>2, <2>1 DEF Next_job, Switching
  <2>2. CASE todo # <<>>
    <3>1. calm' = (slowest <= Default) /\ prev' = Default /\ slowest' = slowest
          /\ pc' = Start(Job.kind) /\ todo' = todo
      BY <1>2, <2>2 DEF Next_job, stack
    <3>2. calm' => slowest' <= prev'
      BY <3>1, Zenon
    <3> QED
      BY <3>1, <3>2 DEF Start, Switching
  <2> QED
    BY <2>1, <2>2
<1>3. CASE End
  BY <1>3 DEF End, Switching
<1>4. CASE Fresh
  BY <1>4 DEF Fresh, Raise, CleanUp, Control, Switching
<1>5. CASE Measure
  <2> SUFFICES ASSUME Job.kind = "mmtc_interval" PROVE Switching'
    BY <1>5 DEF Measure, Switching
  <2>1. pc' \in {"profile", "reset"} /\ prev' = Head(values) /\ slowest' = slowest /\ calm' = calm
    BY <1>5 DEF Measure, Start, CleanUp, stack
  <2>2. calm => slowest = Head(values)
    BY <1>5 DEF Measure, Switching
  <2>3. slowest \in Nat
    BY DEF Stack
  <2>4. calm' /\ pc' = "profile" => slowest' <= prev'
    BY <2>1, <2>2, <2>3
  <2> QED
    BY <2>1, <2>4 DEF Switching
<1>6. CASE MeasureFails
  BY <1>6 DEF MeasureFails, Raise, CleanUp, Switching
<1>7. CASE SetProfile
  <2>1. Head(values) \in Nat /\ Job.kind = "mmtc_interval" /\ slowest \in Nat /\ prev \in Nat
    BY <1>7, TailOf DEF SetProfile, Control, Stack
  <2>2. calm => slowest <= prev
    BY <1>7, <2>1 DEF SetProfile, Switching
  <2>3. UNCHANGED <<calm, todo, values, prev>>
    BY <1>7 DEF SetProfile
  <2>4. CASE profile' = Head(values) /\ pc' = "switch"
    <3>1. slowest' = Max({slowest, profile'})
      BY <1>7, <2>1, <2>4 DEF SetProfile
    <3>2. slowest' = IF slowest >= profile' THEN slowest ELSE profile'
      BY <2>1, <2>4, <3>1, MaxOfTwo
    <3> QED
      BY <2>2, <2>3, <2>4, <3>2 DEF Switching
  <2>5. CASE Raise
    BY <2>1, <2>5 DEF Raise, CleanUp, Switching
  <2> QED
    BY <1>7, <2>4, <2>5 DEF SetProfile
<1>8. CASE Switch
  <2>1. UNCHANGED <<calm, todo, values, prev, profile>>
    BY <1>8 DEF Switch, program
  <2>2. CASE pc = "switch"
    <3>1. Job.kind = "mmtc_interval" /\ pc' = "measure" /\ profile = Head(values)
      BY <1>8, <2>2 DEF Switch, Control, Switching
    <3>2. Interval = profile
      <4>1. Head(values) \in Nat
        BY <2>2, TailOf DEF Control
      <4> QED
        BY <3>1, <4>1, IntervalIsNat
    <3>3. slowest' = IF prev + Slack >= slowest THEN profile ELSE slowest
      BY <1>8, <3>2 DEF Switch, Waits
    <3>4. calm => slowest <= prev \/ slowest = profile
      BY <2>2, <3>1 DEF Switching
    <3>5. calm => slowest' = profile
      BY <3>3, <3>4 DEF Stack
    <3> QED
      BY <2>1, <3>1, <3>5 DEF Switching
  <2>3. CASE pc = "unswitch"
    BY <1>8, <2>3 DEF Switch, Switching
  <2> QED
    BY <1>8, <2>2, <2>3 DEF Switch
<1>9. CASE Reset
  BY <1>9 DEF Reset, Switching
<1>10. CASE ProvisionDevices
  BY <1>10 DEF ProvisionDevices, Raise, CleanUp, Control, Switching
<1>11. CASE WriteOverride
  BY <1>11 DEF WriteOverride, Raise, CleanUp, Control, Switching
<1>12. CASE Restart
  BY <1>12 DEF Restart, Raise, CleanUp, Control, Switching
<1>13. CASE Delete
  BY <1>13 DEF Delete, Switching
<1>14. CASE Remove
  BY <1>14 DEF Remove, Switching
<1>15. CASE Restore
  BY <1>15 DEF Restore, Switching
<1>16. CASE Kill
  BY <1>16 DEF Kill, Switching
<1>17. CASE StartByHand
  BY <1>17 DEF StartByHand, Switching
<1>18. CASE Settle
  BY <1>18 DEF Settle, Switching
<1> QED
  BY <1>1, <1>2, <1>3, <1>4, <1>5, <1>6, <1>7, <1>8, <1>9, <1>10, <1>11, <1>12, <1>13, <1>14,
     <1>15, <1>16, <1>17, <1>18 DEF Next

LEMMA AttachingNext ==
    ASSUME Attaching, Stack, Control, Next
    PROVE  Attaching'
<1> USE DEF Job, At
<1>1. CASE Begin
  BY <1>1 DEF Begin, Attaching
<1>2. CASE Next_job
  BY <1>2 DEF Next_job, Start, Attaching
<1>3. CASE End
  BY <1>3 DEF End, Attaching
<1>4. CASE Fresh
  BY <1>4 DEF Fresh, Raise, CleanUp, Control, Attaching
<1>5. CASE Measure
  BY <1>5 DEF Measure, Start, CleanUp, Attaching
<1>6. CASE MeasureFails
  BY <1>6 DEF MeasureFails, Raise, CleanUp, Attaching
<1>7. CASE SetProfile
  BY <1>7 DEF SetProfile, Raise, CleanUp, Control, Attaching
<1>8. CASE Switch
  BY <1>8 DEF Switch, program, Control, Attaching
<1>9. CASE Reset
  BY <1>9 DEF Reset, Attaching
<1>10. CASE ProvisionDevices
  <2>1. pc = "provision" /\ UNCHANGED <<todo, values, files>> /\ Job.kind = "mmtc_devices"
    BY <1>10 DEF ProvisionDevices, Control
  <2>2. CASE pc' = "override" /\ Provision(DevicePlan(Head(values)))
    <3> DEFINE p == DevicePlan(Head(values))
               made == Records(p, files.tiers, DefaultArp)
    <3>1. Head(values) \in Nat /\ BroadUes + Head(values) <= MaxImsi
      BY <2>1, TailOf DEF Control
    <3>2. p \in Seq(Entry) /\ Size(p) = BroadUes + Head(values)
      BY <3>1, DevicePlanOf
    <3>3. DOMAIN made = 1 .. Size(p)
      BY <3>2, FilesOf, RecordsOf
    <3>4. DOMAIN made \subseteq Imsi /\ \A n \in DOMAIN made : n <= Size(p)
      BY <3>1, <3>2, <3>3, Numbers DEF Imsi
    <3>5. db' = [n \in Imsi |-> IF n \in DOMAIN made /\ n <= Size(p) THEN made[n] ELSE db[n]]
      BY <2>2 DEF Provision, ProvisionFirst
    <3> HIDE DEF made
    <3>6. \A n \in DOMAIN made : db'[n] = made[n]
      BY <3>4, <3>5
    <3> HIDE DEF p
    <3>7. Provided(DevicePlan(Head(values)))'
      BY <2>1, <3>6 DEF Provided, made, p
    <3> QED
      BY <2>1, <2>2, <3>7 DEF Attaching
  <2>3. CASE pc' = CleanUp(Job.kind)
    BY <2>1, <2>3 DEF CleanUp, Attaching
  <2> QED
    BY <1>10, <2>2, <2>3 DEF ProvisionDevices, Raise
<1>11. CASE WriteOverride
  <2>1. pc = "override" /\ UNCHANGED <<todo, values, files, db>> /\ Job.kind = "mmtc_devices"
    BY <1>11 DEF WriteOverride, Control
  <2>2. CASE pc' = "restart" /\ override' = Head(values)
    BY <2>1, <2>2 DEF Attaching, Provided
  <2>3. CASE Raise
    BY <2>1, <2>3 DEF Raise, CleanUp, Attaching
  <2> QED
    BY <1>11, <2>2, <2>3 DEF WriteOverride
<1>12. CASE Restart
  <2>1. pc = "restart" /\ UNCHANGED <<todo, values, files, db, override>> /\ Job.kind = "mmtc_devices"
    BY <1>12 DEF Restart, Control
  <2>2. CASE pc' = "measure" /\ Relaunch(db)
    <3>1. override = Head(values) /\ Head(values) \in Nat
      BY <2>1, TailOf DEF Attaching, Control
    <3>2. launched' = Launches(DevicePlan(Head(values)))
      BY <2>2, <3>1, PlanNowIs, Numbers DEF Relaunch
    <3> QED
      BY <2>1, <2>2, <3>1, <3>2 DEF Attaching, Provided
  <2>3. CASE Raise
    BY <2>1, <2>3 DEF Raise, CleanUp, Attaching
  <2> QED
    BY <1>12, <2>2, <2>3 DEF Restart
<1>13. CASE Delete
  BY <1>13 DEF Delete, Attaching
<1>14. CASE Remove
  BY <1>14 DEF Remove, Attaching
<1>15. CASE Restore
  BY <1>15 DEF Restore, Attaching
<1>16. CASE Kill
  BY <1>16 DEF Kill, Attaching
<1>17. CASE StartByHand
  BY <1>17 DEF StartByHand, Attaching
<1>18. CASE Settle
  BY <1>18 DEF Settle, Attaching
<1> QED
  BY <1>1, <1>2, <1>3, <1>4, <1>5, <1>6, <1>7, <1>8, <1>9, <1>10, <1>11, <1>12, <1>13, <1>14,
     <1>15, <1>16, <1>17, <1>18 DEF Next

\* With nobody else in the database, what start_ues.sh provisions is the standard one.
LEMMA ProvisionedIsStandard ==
    ASSUME Stack, Provision(files.want), \A n \in Imsi : n > Size(files.want) => db[n] = none
    PROVE  db' = Standard(files)
<1> DEFINE made == Records(files.want, files.tiers, DefaultArp)
           size == Size(files.want)
<1>1. DOMAIN made = 1 .. size /\ size \in Nat
  BY FilesOf, RecordsOf
<1>2. db' = [n \in Imsi |-> IF n \in DOMAIN made /\ n <= size THEN made[n] ELSE db[n]]
  BY DEF Provision, ProvisionFirst
<1>3. Standard(files) = [n \in Imsi |-> IF n \in DOMAIN made THEN made[n] ELSE none]
  BY DEF Standard
<1> HIDE DEF made
<1>4. ASSUME NEW n \in Imsi
      PROVE  (IF n \in DOMAIN made /\ n <= size THEN made[n] ELSE db[n])
               = IF n \in DOMAIN made THEN made[n] ELSE none
  BY <1>1, <1>4, Numbers DEF Imsi
<1> QED
  BY <1>2, <1>3, <1>4

LEMMA StandardEnds ==
    ASSUME Stack
    PROVE  \A n \in Imsi : n > Size(files.want) => Standard(files)[n] = none
<1> DEFINE made == Records(files.want, files.tiers, DefaultArp)
<1>1. DOMAIN made = 1 .. Size(files.want) /\ Size(files.want) \in Nat
  BY FilesOf, RecordsOf
<1>2. Standard(files) = [n \in Imsi |-> IF n \in DOMAIN made THEN made[n] ELSE none]
  BY DEF Standard
<1> HIDE DEF made
<1> QED
  BY <1>1, <1>2, Numbers DEF Imsi

\* start_ues.sh without an override starts the standard stack, from the standard one and from
\* one with nobody beyond the standard number.
LEMMA StartsStandard ==
    ASSUME Stack, StartsUes, override = none,
           \/ db = Standard(files)
           \/ Trimmed /\ StandardUes <= Size(files.want)
    PROVE  /\ override' = none /\ db' = Standard(files) /\ up' /\ launched' = Launches(files.plan)
           /\ profile' = profile
<1>1. \A n \in Imsi : n > Size(files.want) => db[n] = none
  <2>1. CASE db = Standard(files)
    BY <2>1, StandardEnds
  <2>2. CASE Trimmed /\ StandardUes <= Size(files.want)
    BY <2>2, FilesOf, Numbers DEF Trimmed, Imsi
  <2> QED
    BY <2>1, <2>2
<1>2. Provision(files.want) /\ launched' = Launches(PlanNow) /\ up' = TRUE
      /\ override' = override /\ profile' = profile
  BY StartsUesOf
<1>3. PlanNow = files.plan
  BY PlanNowIs
<1> QED
  BY <1>1, <1>2, <1>3, ProvisionedIsStandard

\* A run begins with at least the standard number of UEs attached, so the files have as many.
LEMMA EnoughUes ==
    ASSUME Stack, launched = Launches(files.plan), Cardinality(attached) >= StandardUes
    PROVE  StandardUes <= Size(files.want)
<1>1. files.plan = files.want /\ files.want \in Seq(Entry) /\ Size(files.want) \in Nat
  BY FilesOf
<1>2. attached \subseteq 1 .. Size(files.want)
  BY <1>1, LaunchesOf DEF Stack
<1>3. IsFiniteSet(1 .. Size(files.want)) /\ Cardinality(1 .. Size(files.want)) = Size(files.want)
  BY <1>1, FS_Interval
<1>4. Cardinality(attached) <= Size(files.want) /\ Cardinality(attached) \in Nat
  BY <1>2, <1>3, FS_Subset, FS_CardinalityType
<1> QED
  BY <1>1, <1>4, Numbers

LEMMA StandingNext ==
    ASSUME Standing, Stack, Control, Next
    PROVE  Standing'
<1> SUFFICES ASSUME ~unrestored' PROVE Standing'
  BY DEF Standing
<1> USE DEF Job, Launching
<1>1. CASE Begin
  <2>1. UNCHANGED <<files, override, db, up, launched, profile, unrestored>> /\ pc = "idle" /\ pc' = "next"
    BY <1>1 DEF Begin, stack
  <2>2. StandardUes <= Size(files.want)
    BY <1>1, <2>1, EnoughUes DEF Begin, Standing
  <2> QED
    BY <2>1, <2>2 DEF Standing
<1>2. CASE Next_job
  <2>1. UNCHANGED <<files, override, db, up, launched, profile, unrestored, todo>> /\ pc = "next"
    BY <1>2 DEF Next_job, stack
  <2>2. Launching /\ profile = none /\ StandardUes <= Size(files.want)
    BY <2>1 DEF Standing
  <2>3. \/ pc' = "idle"
        \/ pc' \in {"fresh", "profile", "provision"}
        \/ pc' = "measure" /\ Job.kind = "embb_ues"
    BY <1>2, JobOf DEF Next_job, Start, Kinds
  <2> QED
    BY <2>1, <2>2, <2>3 DEF Standing
<1>3. CASE End
  BY <1>3 DEF End, stack, Standing
<1>4. CASE Fresh
  <2>1. pc = "fresh" /\ files' = files /\ ~unrestored /\ todo' = todo /\ Job.kind = "standard"
    BY <1>4 DEF Fresh, Unseen, Control
  <2>2. Launching /\ profile = none /\ StandardUes <= Size(files.want)
    BY <2>1 DEF Standing
  <2>3. pc' \in {"measure", "end"}
    BY <1>4, <2>1 DEF Fresh, Raise, CleanUp
  <2>4. StartsUes
    BY <1>4, <2>2 DEF Fresh, Unseen
  <2>5. Launching' /\ profile' = none
    BY <2>1, <2>2, <2>4, StartsStandard
  <2> QED
    BY <2>1, <2>2, <2>3, <2>5 DEF Standing
<1>5. CASE Measure
  <2>1. UNCHANGED <<files, override, db, up, launched, profile, unrestored, todo>> /\ pc = "measure"
        /\ pc' \in {Start(Job.kind), CleanUp(Job.kind)} /\ todo # <<>>
    BY <1>5 DEF Measure, stack, Control
  <2>2. Job.kind \in Kinds
    BY <2>1, JobOf
  <2>3. CASE Job.kind = "mmtc_devices"
    BY <2>1, <2>3 DEF Standing, Start, CleanUp
  <2>4. CASE Job.kind = "mmtc_interval"
    BY <2>1, <2>4 DEF Standing, Start, CleanUp
  <2>5. CASE Job.kind = "standard"
    BY <2>1, <2>5 DEF Standing, Start, CleanUp
  <2>6. CASE Job.kind = "embb_ues"
    BY <2>1, <2>6 DEF Standing, Start, CleanUp
  <2> QED
    BY <2>2, <2>3, <2>4, <2>5, <2>6 DEF Kinds
<1>6. CASE MeasureFails
  <2>1. UNCHANGED <<files, override, db, up, launched, profile, unrestored, todo>> /\ pc = "measure"
        /\ pc' = CleanUp(Job.kind) /\ todo # <<>>
    BY <1>6 DEF MeasureFails, Raise, stack, Control
  <2>2. Job.kind \in Kinds
    BY <2>1, JobOf
  <2>3. CASE Job.kind = "mmtc_devices"
    BY <2>1, <2>3 DEF Standing, CleanUp
  <2>4. CASE Job.kind = "mmtc_interval"
    BY <2>1, <2>4 DEF Standing, CleanUp
  <2>5. CASE Job.kind \in {"standard", "embb_ues"}
    BY <2>1, <2>5 DEF Standing, CleanUp
  <2> QED
    BY <2>2, <2>3, <2>4, <2>5 DEF Kinds
<1>7. CASE SetProfile
  BY <1>7 DEF SetProfile, Raise, CleanUp, Control, Standing
<1>8. CASE Switch
  BY <1>8 DEF Switch, program, Control, Standing
<1>9. CASE Reset
  BY <1>9 DEF Reset, program, Standing
<1>10. CASE ProvisionDevices
  BY <1>10 DEF ProvisionDevices, Raise, CleanUp, Control, Standing
<1>11. CASE WriteOverride
  BY <1>11 DEF WriteOverride, Raise, CleanUp, Control, Standing
<1>12. CASE Restart
  BY <1>12 DEF Restart, Raise, CleanUp, Control, Standing
<1>13. CASE Delete
  <2>1. pc = "delete" /\ pc' = "remove" /\ UNCHANGED <<files, override, profile, todo>> /\ ~unrestored
    BY <1>13 DEF Delete, program, Unseen
  <2>2. db' = [n \in Imsi |-> IF n > StandardUes THEN none ELSE db[n]]
    BY <1>13 DEF Delete, Unseen
  <2>3. Trimmed'
    BY <2>2 DEF Trimmed
  <2> QED
    BY <2>1, <2>3 DEF Standing
<1>14. CASE Remove
  BY <1>14 DEF Remove, Unseen, program, Trimmed, Standing
<1>15. CASE Restore
  <2>1. pc = "restore" /\ pc' = "end" /\ files' = files /\ todo' = todo /\ ~unrestored
    BY <1>15 DEF Restore, Unseen
  <2>2. override = none /\ profile = none /\ Trimmed /\ StandardUes <= Size(files.want)
    BY <2>1 DEF Standing
  <2>3. StartsUes
    BY <1>15 DEF Restore, Unseen
  <2>4. Launching' /\ profile' = none
    BY <2>1, <2>2, <2>3, StartsStandard
  <2> QED
    BY <2>1, <2>2, <2>4 DEF Standing
<1>16. CASE Kill
  BY <1>16 DEF Kill, Standing
<1>17. CASE StartByHand
  <2>1. pc = "idle" /\ UNCHANGED <<files, pc, unrestored>> /\ StartsUes
    BY <1>17 DEF StartByHand
  <2>2. Launching' /\ profile' = none
    BY <2>1, StartsStandard DEF Standing
  <2> QED
    BY <2>1, <2>2 DEF Standing
<1>18. CASE Settle
  BY <1>18 DEF Settle, program, Standing
<1> QED
  BY <1>1, <1>2, <1>3, <1>4, <1>5, <1>6, <1>7, <1>8, <1>9, <1>10, <1>11, <1>12, <1>13, <1>14,
     <1>15, <1>16, <1>17, <1>18 DEF Next

\* A row of the device sweep is written with its devices running, and each in its record.
LEMMA DevicesMeasured ==
    ASSUME Attaching, Stack, Control, pc = "measure", Job.kind = "mmtc_devices"
    PROVE  /\ Instance.ran = Head(values) /\ Instance.provisioned = Head(values)
           /\ Instance.provided
<1> DEFINE v == Head(values)
           p == DevicePlan(v)
<1>1. v \in Nat /\ BroadUes + v <= MaxImsi
  BY TailOf DEF Control
<1>2. Provided(p) /\ override = v /\ launched = Launches(p)
  BY DEF Attaching, At
<1> HIDE DEF v
<1>3. p \in Seq(Entry) /\ Size(p) = BroadUes + v /\ Cardinality(RangeOf(p, iot)) = v
  BY <1>1, DevicePlanOf
<1>4. PlanNow = p
  BY <1>1, <1>2, PlanNowIs, Numbers
<1>5. {n \in DOMAIN launched : launched[n] = iot} = RangeOf(p, iot)
  BY <1>2, <1>3, LaunchesOf DEF RangeOf
<1>6. ASSUME NEW n \in DOMAIN launched
      PROVE  n \in Registrable(launched, db)
  <2>1. n \in 1 .. Size(p) /\ n \in Imsi
    BY <1>1, <1>2, <1>3, LaunchesOf, Numbers DEF Imsi
  <2> HIDE DEF p
  <2> DEFINE r == Records(p, files.tiers, DefaultArp)
  <2>2. Tiered(files.tiers)
    BY FilesOf
  <2>3. DOMAIN r = 1 .. Size(p) /\ r[n] # none /\ r[n].home = Launches(p)[n]
    BY <1>3, <2>1, <2>2, RecordsOf
  <2>4. \A i \in DOMAIN r : db[i] = r[i]
    BY <1>2, Zenon DEF Provided
  <2> HIDE DEF r
  <2>5. db[n] = r[n]
    BY <2>1, <2>3, <2>4
  <2>6. db[n] # none /\ db[n].home = launched[n]
    BY <1>2, <2>3, <2>5
  <2> QED
    BY <2>1, <2>6 DEF Registrable
<1> HIDE DEF p
<1>7. DOMAIN launched \subseteq Registrable(launched, db)
  BY <1>6
<1>8. /\ Instance.ran = Cardinality({n \in DOMAIN launched : launched[n] = iot})
      /\ Instance.provisioned = Cardinality(RangeOf(PlanNow, iot))
      /\ Instance.provided = (DOMAIN launched \subseteq Registrable(launched, db))
  BY DEF Instance
<1>9. Instance.provided
  BY <1>7, <1>8, Zenon
<1> QED
  BY <1>3, <1>4, <1>5, <1>8, <1>9 DEF v

\* What is written of an instance is of the right types, and right.
LEMMA InstanceRight ==
    ASSUME Switching, Attaching, Stack, Control, calm \in BOOLEAN, pc = "measure"
    PROVE  Instance \in Right
<1> DEFINE provided == DOMAIN launched \subseteq Registrable(launched, db)
           ran == {n \in DOMAIN launched : launched[n] = iot}
<1>1. Job.kind \in Kinds /\ Head(values) \in Nat
  BY TailOf, JobOf DEF Control
<1>2. Cardinality(RangeOf(PlanNow, iot)) \in Nat
  BY PlanNowIs, LaunchesOf, FS_CardinalityType
<1>3. Cardinality(ran) \in Nat
  <2>1. ran \subseteq DOMAIN launched
    OBVIOUS
  <2>2. IsFiniteSet(ran)
    BY <2>1, FS_Subset DEF Stack
  <2> HIDE DEF ran
  <2> QED
    BY <2>2, FS_CardinalityType
<1>4. slowest \in Nat /\ Interval \in Nat
  BY IntervalIsNat DEF Stack
<1>5. provided \in BOOLEAN
  BY Zenon
<1>6. Instance = [kind |-> Job.kind, value |-> Head(values),
                  provisioned |-> Cardinality(RangeOf(PlanNow, iot)), ran |-> Cardinality(ran),
                  provided |-> provided, calm |-> calm, slowest |-> slowest, fastest |-> Interval]
  BY DEF Instance
<1> HIDE DEF provided, ran
<1>7. Instance \in Row
  BY <1>1, <1>2, <1>3, <1>4, <1>5, <1>6 DEF Row
<1>8. Instance.kind = "mmtc_devices" =>
        Instance.ran = Instance.value /\ Instance.provisioned = Instance.value /\ Instance.provided
  <2>1. Instance.kind = Job.kind /\ Instance.value = Head(values)
    BY <1>6
  <2> QED
    BY <2>1, DevicesMeasured
<1>9. Instance.kind = "mmtc_interval" /\ Instance.calm =>
        Instance.slowest = Instance.value /\ Instance.fastest = Instance.value
  <2> SUFFICES ASSUME Instance.kind = "mmtc_interval", Instance.calm
               PROVE  slowest = Head(values) /\ Interval = Head(values)
    BY <1>6
  <2>1. Job.kind = "mmtc_interval"
    BY <1>6
  <2>2. calm
    BY <1>6, Zenon
  <2>3. profile = Head(values) /\ slowest = profile
    BY <2>1, <2>2 DEF Switching, At
  <2> QED
    BY <1>1, <2>3, IntervalIsNat, Numbers
<1> QED
  BY <1>7, <1>8, <1>9 DEF Right

LEMMA WrittenNext ==
    ASSUME Written, Switching, Attaching, Stack, Control, Next
    PROVE  Written'
<1>1. CASE Begin
  <2>1. records' \in {<<>>, records} /\ <<>> \in Seq(Right)
    BY <1>1 DEF Begin
  <2>2. calm' = calm
    BY <1>1 DEF Begin
  <2> QED
    BY <2>1, <2>2, Zenon DEF Written
<1>2. CASE Next_job
  <2>1. records' = records
    BY <1>2 DEF Next_job
  <2> DEFINE soon == slowest <= Default
  <2>3. calm' = calm \/ calm' = soon
    BY <1>2, Zenon DEF Next_job
  <2>4. slowest \in Nat /\ Default \in Nat
    BY Numbers DEF Stack
  <2>5. soon \in BOOLEAN
    BY <2>4, SMT
  <2> HIDE DEF soon
  <2>2. calm' \in BOOLEAN
    BY <2>3, <2>5, Zenon DEF Written
  <2> QED
    BY <2>1, <2>2 DEF Written
<1>3. CASE Measure
  <2>1. Instance \in Right
    BY <1>3, InstanceRight DEF Measure, Written
  <2>2. records' = Append(records, Instance) /\ calm' = calm
    BY <1>3 DEF Measure
  <2> HIDE DEF Right
  <2>3. records' \in Seq(Right)
    BY <2>1, <2>2 DEF Written
  <2> QED
    BY <2>2, <2>3 DEF Written
<1>4. CASE End \/ Fresh \/ MeasureFails \/ SetProfile \/ ProvisionDevices \/ WriteOverride
           \/ Restart \/ Restore \/ Kill
  BY <1>4 DEF End, Fresh, MeasureFails, SetProfile, ProvisionDevices, WriteOverride, Restart,
              Restore, Kill, Written
<1>5. CASE Switch \/ Reset \/ Delete \/ Remove \/ StartByHand \/ Settle
  BY <1>5 DEF Switch, Reset, Delete, Remove, StartByHand, Settle, program, Written
<1> QED
  BY <1>1, <1>2, <1>3, <1>4, <1>5 DEF Next

-----------------------------------------------------------------------------
(* Scores *)

\* What division of natural numbers, rounded down, is.
LEMMA Divided ==
    ASSUME NEW a \in Nat, NEW d \in Nat \ {0}
    PROVE  a \div d \in Nat /\ d * (a \div d) <= a /\ a < d * (a \div d) + d
  OBVIOUS

\* As many times d as b has at least as many as a has.
LEMMA DividesMore ==
    ASSUME NEW a \in Nat, NEW b \in Nat, NEW d \in Nat \ {0}, a <= b
    PROVE  a \div d <= b \div d
  OBVIOUS

LEMMA DividedByLess ==
    ASSUME NEW a \in Nat, NEW d \in Nat \ {0}, NEW e \in Nat \ {0}, d <= e
    PROVE  a \div e <= a \div d
  OBVIOUS

LEMMA PartOfThousand ==
    ASSUME NEW a \in Nat, NEW d \in Nat \ {0}, a <= d
    PROVE  (1000 * a) \div d \in Nat /\ (1000 * a) \div d <= 1000
  OBVIOUS

LEMMA TimesMore ==
    ASSUME NEW w \in Nat, NEW x \in Nat, NEW y \in Nat, x <= y
    PROVE  w * x \in Nat /\ w * y \in Nat /\ w * x <= w * y
  OBVIOUS

\* The least of the flows is one of them.
LEMMA MinOf ==
    ASSUME NEW S \in SUBSET Nat, S # {}
    PROVE  Min(S) \in S
<1> DEFINE T == {n \in Nat : (\E x \in S : x <= n) => \E x \in S : \A y \in S : x <= y}
<1>1. 0 \in T
  OBVIOUS
<1>2. \A n \in Nat : n \in T => n + 1 \in T
  <2> SUFFICES ASSUME NEW n \in Nat, n \in T PROVE n + 1 \in T
    OBVIOUS
  <2> SUFFICES ASSUME NEW x \in S, x <= n + 1 PROVE \E z \in S : \A y \in S : z <= y
    OBVIOUS
  <2>1. CASE \E z \in S : z <= n
    BY <2>1
  <2>2. CASE ~\E z \in S : z <= n
    <3>1. \A y \in S : x <= y
      BY <2>2
    <3> QED
      BY <3>1
  <2> QED
    BY <2>1, <2>2
<1>3. PICK n \in S : TRUE
  OBVIOUS
<1> HIDE DEF T
<1>4. n \in T
  BY <1>1, <1>2, Induction
<1>5. \E x \in S : \A y \in S : x <= y
  BY <1>4 DEF T
<1> QED
  BY <1>5 DEF Min

LEMMA SuccessIsNat ==
    ASSUME Stack, NEW failed \in SUBSET (RangeOf(PlanNow, iot) \ attached)
    PROVE  RegistrationSuccess(failed) \in Nat \cup {none}
<1> DEFINE succeeded == attached \cap RangeOf(PlanNow, iot)
           a == Cardinality(succeeded)
           b == Cardinality(failed)
<1>1. IsFiniteSet(RangeOf(PlanNow, iot))
  BY PlanNowIs, LaunchesOf
<1>2. a \in Nat /\ b \in Nat
  <2>1. succeeded \subseteq RangeOf(PlanNow, iot) /\ failed \subseteq RangeOf(PlanNow, iot)
    OBVIOUS
  <2>2. IsFiniteSet(succeeded) /\ IsFiniteSet(failed)
    BY <1>1, <2>1, FS_Subset
  <2> QED
    BY <2>2, FS_CardinalityType
<1>3. RegistrationSuccess(failed) = IF a + b = 0 THEN none ELSE (1000 * a) \div (a + b)
  BY DEF RegistrationSuccess
<1> HIDE DEF a, b
<1>4. a + b # 0 => (1000 * a) \div (a + b) \in Nat
  BY <1>2
<1> QED
  BY <1>3, <1>4

LEMMA MeasuredIsVector ==
    ASSUME Stack, NEW latency \in Latencies \cup {none}, NEW flows \in SUBSET Rates,
           NEW failed \in SUBSET (RangeOf(PlanNow, iot) \ attached)
    PROVE  Vector(Measured(latency, flows, failed))
<1>1. P5(flows) \in Rates \cup {none}
  <2>1. CASE flows = {}
    BY <2>1 DEF P5
  <2>2. CASE flows # {}
    <3>1. flows \in SUBSET Nat
      BY Numbers
    <3> QED
      BY <2>2, <3>1, MinOf DEF P5
  <2> QED
    BY <2>1, <2>2
<1>2. RegistrationSuccess(failed) \in Nat \cup {none}
  BY SuccessIsNat
<1> QED
  BY <1>1, <1>2 DEF Measured, Vector

LEMMA ScoredAsNext ==
    ASSUME ScoredAs, Stack, Next
    PROVE  ScoredAs'
<1>1. CASE Measure
  <2>1. PICK latency \in Latencies \cup {none}, flows \in SUBSET Rates,
             failed \in SUBSET (RangeOf(PlanNow, iot) \ attached) :
             card' = [measured |-> Measured(latency, flows, failed),
                      overall |-> Overall(Defs, Measured(latency, flows, failed))]
    BY <1>1 DEF Measure
  <2>2. Vector(Measured(latency, flows, failed))
    BY MeasuredIsVector
  <2> QED
    BY <2>1, <2>2 DEF ScoredAs, Vector
<1>2. CASE End \/ Kill
  BY <1>2 DEF End, Kill, ScoredAs
<1>3. CASE Begin \/ Next_job \/ Fresh \/ MeasureFails \/ SetProfile \/ Switch \/ Reset
           \/ ProvisionDevices \/ WriteOverride \/ Restart
  <2>1. card' = card
    BY <1>3 DEF Begin, Next_job, Fresh, MeasureFails, SetProfile, Switch, Reset,
                ProvisionDevices, WriteOverride, Restart
  <2> QED
    BY <2>1 DEF ScoredAs, Vector
<1>4. CASE Delete \/ Remove \/ Restore \/ StartByHand \/ Settle
  <2>1. card' = card
    BY <1>4 DEF Delete, Remove, Restore, StartByHand, Settle
  <2> QED
    BY <2>1 DEF ScoredAs, Vector
<1> QED
  BY <1>1, <1>2, <1>3, <1>4 DEF Next

-----------------------------------------------------------------------------
(* The invariant holds *)

LEMMA InitIInv ==
    ASSUME Init
    PROVE  IInv
<1> USE Numbers
<1>1. files \in FileSets /\ Consistent(files.plan, files.want, files.tiers)
  BY DEF Init
<1>2. files.plan \in Seq(Entry)
  BY <1>1, FilesAssumption
<1>3. Control
  BY DEF Init, Control
<1>4. Stack
  <2>1. db = [n \in Imsi |-> db[n]]
    BY DEF Init, Standard
  <2>2. IsFiniteSet(DOMAIN launched) /\ attached \subseteq DOMAIN launched
    BY <1>2, LaunchesOf DEF Init
  <2> QED
    BY <1>1, <2>1, <2>2 DEF Init, Stack
<1>5. Switching /\ Attaching
  BY DEF Init, Switching, Attaching, At
<1>6. Standing
  BY DEF Init, Standing, Launching
<1>7. Written /\ ScoredAs
  BY DEF Init, Written, ScoredAs
<1> QED
  BY <1>3, <1>4, <1>5, <1>6, <1>7 DEF IInv

\* Each step keeps it.
LEMMA NextIInv ==
    ASSUME IInv, [Next]_vars
    PROVE  IInv'
<1>1. CASE Next
  BY <1>1, ControlNext, StackNext, SwitchingNext, AttachingNext, StandingNext, WrittenNext,
     ScoredAsNext DEF IInv
<1>2. CASE UNCHANGED vars
  <2> USE <1>2 DEF vars, Job
  <2>1. Control'
    BY DEF IInv, Control
  <2>2. Stack'
    BY DEF IInv, Stack
  <2>3. Switching'
    BY DEF IInv, Switching, At
  <2>4. Attaching'
    BY DEF IInv, Attaching, At, Provided
  <2>5. Standing'
    BY DEF IInv, Standing, Launching, Trimmed
  <2>6. Written' /\ ScoredAs'
    BY DEF IInv, Written, ScoredAs, Vector
  <2> QED
    BY <2>1, <2>2, <2>3, <2>4, <2>5, <2>6 DEF IInv
<1> QED
  BY <1>1, <1>2

\* In every reachable state the program is where its job and the stack it has prepared say, the
\* stack is as standard as the steps since it was last standard leave it, and what has been
\* written down is right (main(), sweep(), attach_mmtc(), restore_standard(), instance()).
THEOREM Invariance == Spec => []IInv
<1>1. Init => IInv
  BY InitIInv
<1>2. IInv /\ [Next]_vars => IInv'
  BY NextIInv
<1> QED
  BY <1>1, <1>2, PTL DEF Spec

\* A row of the device sweep in the report is about as many devices as its label says.
THEOREM DevicesRight == Spec => []DevicesAsLabelled
<1>1. IInv => DevicesAsLabelled
  <2> SUFFICES ASSUME IInv, NEW i \in DOMAIN records, records[i].kind = "mmtc_devices"
               PROVE  /\ records[i].ran = records[i].value
                      /\ records[i].provisioned = records[i].value /\ records[i].provided
    BY DEF DevicesAsLabelled, Reported
  <2>1. records[i] \in Right
    BY Element DEF IInv, Written
  <2> QED
    BY <2>1 DEF Right
<1> QED
  BY <1>1, Invariance, PTL

\* A row of the interval sweep that began calm has all devices at the interval it says: sleeping
\* for the interval before and the slack is long enough for each device to switch.
THEOREM IntervalRight == Spec => []IntervalAsLabelled
<1>1. IInv => IntervalAsLabelled
  <2> SUFFICES ASSUME IInv, NEW i \in DOMAIN records, records[i].kind = "mmtc_interval",
                      records[i].calm
               PROVE  /\ records[i].slowest = records[i].value
                      /\ records[i].fastest = records[i].value
    BY DEF IntervalAsLabelled, Reported
  <2>1. records[i] \in Right
    BY Element DEF IInv, Written
  <2> QED
    BY <2>1 DEF Right
<1> QED
  BY <1>1, Invariance, PTL

\* After a run, whatever raised an exception in it, the stack is the standard one, unless a
\* command of start_ues.sh or of the clean-up failed unseen or the program was killed.
THEOREM StandardAgain == Spec => []Restored
<1>1. IInv => Restored
  <2> SUFFICES ASSUME IInv, pc = "idle", ~unrestored
               PROVE  /\ db = Standard(files) /\ override = none /\ profile = none
                      /\ up /\ launched = Launches(files.plan)
                      /\ \A n \in DOMAIN launched : db[n].home = launched[n]
    BY DEF Restored
  <2>1. Launching /\ profile = none
    BY DEF IInv, Standing
  <2>2. files.plan = files.want /\ files.want \in Seq(Entry) /\ Tiered(files.tiers)
        /\ Size(files.want) \in Nat /\ Size(files.want) <= MaxImsi
    BY FilesOf DEF IInv
  <2>3. ASSUME NEW n \in DOMAIN launched PROVE db[n].home = launched[n]
    <3>1. n \in 1 .. Size(files.want) /\ launched = Launches(files.want)
      BY <2>1, <2>2, LaunchesOf DEF Launching
    <3>2. n \in Imsi
      BY <2>2, <3>1, Numbers DEF Imsi
    <3>3. /\ DOMAIN Records(files.want, files.tiers, DefaultArp) = 1 .. Size(files.want)
          /\ Records(files.want, files.tiers, DefaultArp)[n].home = Launches(files.want)[n]
      BY <2>2, <3>1, RecordsOf
    <3>4. db[n] = Records(files.want, files.tiers, DefaultArp)[n]
      BY <2>1, <3>1, <3>2, <3>3 DEF Launching, Standard
    <3> QED
      BY <3>1, <3>3, <3>4
  <2> QED
    BY <2>1, <2>3 DEF Launching
<1> QED
  BY <1>1, Invariance, PTL

-----------------------------------------------------------------------------
(* What is no worse in any KPI is no lower in score *)

Kpi == [measure: {"latency", "p5", "reg"}, better: {"lower", "higher"},
        target: Nat \cup {none}, weight: Nat]

\* A KPI's score, and that of something no worse in it.
LEMMA KpiCompares ==
    ASSUME NEW k \in Kpi, NEW a \in Nat \cup {none}, NEW b \in Nat \cup {none},
           NoWorse(k, a, b), ScoreKpi(k, b) # none
    PROVE  /\ ScoreKpi(k, a) \in Nat /\ ScoreKpi(k, b) \in Nat
           /\ ScoreKpi(k, b) <= ScoreKpi(k, a)
<1> DEFINE t == k.target
<1>1. b # none /\ t # none
  BY DEF ScoreKpi
<1>2. a \in Nat /\ b \in Nat /\ t \in Nat /\ none \notin Nat
  BY <1>1, Numbers DEF NoWorse, Kpi
<1>3. CASE k.better = "lower"
  <2>1. a <= b
    BY <1>3 DEF NoWorse
  <2>2. ASSUME NEW m \in Nat
        PROVE  ScoreKpi(k, m) = IF m <= t THEN 1000 ELSE (1000 * t) \div m
    BY <1>1, <1>2, <1>3, <2>2 DEF ScoreKpi, Met
  <2>3. ScoreKpi(k, a) = (IF a <= t THEN 1000 ELSE (1000 * t) \div a)
        /\ ScoreKpi(k, b) = (IF b <= t THEN 1000 ELSE (1000 * t) \div b)
    BY <1>2, <2>1, <2>2
  <2> HIDE DEF t
  <2>4. ~(b <= t) => (1000 * t) \div b \in Nat /\ (1000 * t) \div b <= 1000
    BY <1>2, <2>1, PartOfThousand
  <2>5. ~(a <= t) => (1000 * t) \div a \in Nat /\ (1000 * t) \div b <= (1000 * t) \div a
    <3> SUFFICES ASSUME ~(a <= t) PROVE (1000 * t) \div a \in Nat
                                         /\ (1000 * t) \div b <= (1000 * t) \div a
      OBVIOUS
    <3> DEFINE n == 1000 * t
    <3>1. n \in Nat /\ a \in Nat \ {0} /\ b \in Nat \ {0}
      BY <1>2, <2>1
    <3> HIDE DEF n
    <3>2. n \div a \in Nat /\ n \div b <= n \div a
      BY <2>1, <3>1, Divided, DividedByLess
    <3> QED
      BY <3>2 DEF n
  <2> QED
    BY <1>2, <2>1, <2>3, <2>4, <2>5
<1>4. CASE k.better # "lower"
  <2>1. b <= a
    BY <1>2, <1>4 DEF NoWorse
  <2>2. ASSUME NEW m \in Nat
        PROVE  ScoreKpi(k, m) = IF t <= m THEN 1000 ELSE (1000 * m) \div t
    BY <1>1, <1>2, <1>4, <2>2 DEF ScoreKpi, Met
  <2>3. ScoreKpi(k, a) = (IF t <= a THEN 1000 ELSE (1000 * a) \div t)
        /\ ScoreKpi(k, b) = (IF t <= b THEN 1000 ELSE (1000 * b) \div t)
    BY <1>2, <2>2
  <2> HIDE DEF t
  <2>4. ~(t <= b) => (1000 * b) \div t \in Nat /\ (1000 * b) \div t <= 1000
    BY <1>2, PartOfThousand
  <2>5. ~(t <= a) => (1000 * a) \div t \in Nat /\ (1000 * b) \div t <= (1000 * a) \div t
    <3>1. 1000 * a \in Nat /\ 1000 * b \in Nat /\ 1000 * b <= 1000 * a
      BY <1>2, <2>1
    <3> QED
      BY <1>2, <3>1, Divided, DividesMore
  <2> QED
    BY <1>2, <2>1, <2>3, <2>4, <2>5
<1> QED
  BY <1>3, <1>4

\* A slice's score is a sum over its scored KPIs.
LEMMA SliceScoreIsSum ==
    ASSUME NEW kpis, IsFiniteSet(kpis), kpis \subseteq Kpi, NEW m,
           \A k \in Scored(kpis) : ScoreKpi(k, m[k.measure]) \in Nat
    PROVE  SliceScore(kpis, m) =
              SumOf([k \in Scored(kpis) |-> k.weight * ScoreKpi(k, m[k.measure])], Scored(kpis))
                  \div 100
<1> DEFINE S == Scored(kpis)
           g == [k \in S |-> k.weight * ScoreKpi(k, m[k.measure])]
           It(h) == h = [s \in SUBSET S |->
                           IF s = {} THEN 0
                           ELSE (CHOOSE x \in s : TRUE).weight
                                   * ScoreKpi(CHOOSE x \in s : TRUE, m[(CHOOSE x \in s : TRUE).measure])
                                + h[s \ {CHOOSE x \in s : TRUE}]]
           iter == CHOOSE h : It(h)
<1>1. /\ IsFiniteSet(S) /\ \A k \in S : k.weight \in Nat
      /\ \A k \in S : g[k] = k.weight * ScoreKpi(k, m[k.measure]) /\ g[k] \in Nat
  <2>1. IsFiniteSet(S)
    BY FS_Subset DEF Scored
  <2>2. ASSUME NEW k \in S PROVE k.weight \in Nat /\ ScoreKpi(k, m[k.measure]) \in Nat
    BY DEF Scored, Kpi
  <2>3. ASSUME NEW k \in S
        PROVE  g[k] = k.weight * ScoreKpi(k, m[k.measure]) /\ g[k] \in Nat
    BY <2>2
  <2> QED
    BY <2>1, <2>2, <2>3
<1>2. ASSUME NEW h PROVE It(h) <=> Solves(h, g, S)
  <2>1. ASSUME NEW s \in SUBSET S
        PROVE  (IF s = {} THEN 0
                ELSE (CHOOSE x \in s : TRUE).weight
                        * ScoreKpi(CHOOSE x \in s : TRUE, m[(CHOOSE x \in s : TRUE).measure])
                     + h[s \ {CHOOSE x \in s : TRUE}]) = Sum1(g, h, s)
    <3>1. s # {} => g[Any(s)] = Any(s).weight * ScoreKpi(Any(s), m[Any(s).measure])
      BY <1>1, <2>1, AnyIn
    <3> HIDE DEF g
    <3> QED
      BY <3>1 DEF Sum1, Any
  <2> QED
    BY <2>1 DEF Solves
<1>3. \E h : Solves(h, g, S)
  <2>1. IsFiniteSet(S) /\ (\A x \in S : g[x] \in Nat)
    BY <1>1
  <2> HIDE DEF g, S
  <2> QED
    BY <2>1, SumSolves
<1>4. Solves(iter, g, S)
  <2>1. \E h : It(h)
    <3>1. PICK h : Solves(h, g, S)
      BY <1>3
    <3>2. It(h)
      BY <1>2, <3>1
    <3> HIDE DEF It
    <3> QED
      BY <3>2
  <2>2. It(iter)
    BY <2>1
  <2> HIDE DEF iter
  <2> QED
    BY <1>2, <2>2
<1>5. ~\E k \in S : ScoreKpi(k, m[k.measure]) = none
  BY Numbers
<1>6. SliceScore(kpis, m) = iter[S] \div 100
  BY <1>5 DEF SliceScore, MapThenSumSet, MapThenFoldSet
<1> HIDE DEF iter
<1>7. iter[S] = SumOf(g, S)
  <2> HIDE DEF g, S
  <2> QED
    BY <1>1, <1>4, SolutionIsSum
<1> QED
  BY <1>6, <1>7

\* A slice's score, and that of something no worse in its scored KPIs.
LEMMA SliceCompares ==
    ASSUME NEW kpis, IsFiniteSet(kpis), kpis \subseteq Kpi, NEW a, Vector(a), NEW b, Vector(b),
           \A k \in Scored(kpis) : NoWorse(k, a[k.measure], b[k.measure]),
           SliceScore(kpis, b) # none
    PROVE  /\ SliceScore(kpis, a) \in Nat /\ SliceScore(kpis, b) \in Nat
           /\ SliceScore(kpis, b) <= SliceScore(kpis, a)
<1> DEFINE S == Scored(kpis)
           part(m) == [k \in S |-> k.weight * ScoreKpi(k, m[k.measure])]
<1>1. IsFiniteSet(S) /\ S \subseteq kpis
  BY FS_Subset DEF Scored
<1>2. \A k \in S : ScoreKpi(k, b[k.measure]) # none
  BY DEF SliceScore
<1>3. ASSUME NEW k \in S
      PROVE  /\ k.weight \in Nat
             /\ ScoreKpi(k, a[k.measure]) \in Nat /\ ScoreKpi(k, b[k.measure]) \in Nat
             /\ ScoreKpi(k, b[k.measure]) <= ScoreKpi(k, a[k.measure])
  <2>1. k \in Kpi
    BY <1>1
  <2>2. a[k.measure] \in Nat \cup {none} /\ b[k.measure] \in Nat \cup {none}
    BY <2>1, Numbers DEF Vector, Kpi
  <2> QED
    BY <1>2, <2>1, <2>2, KpiCompares DEF Kpi
<1>4. ASSUME NEW k \in S
      PROVE  part(a)[k] \in Nat /\ part(b)[k] \in Nat /\ part(b)[k] <= part(a)[k]
  <2> DEFINE w == k.weight
             x == ScoreKpi(k, b[k.measure])
             y == ScoreKpi(k, a[k.measure])
  <2>1. part(a)[k] = w * y /\ part(b)[k] = w * x
    OBVIOUS
  <2>2. w \in Nat /\ x \in Nat /\ y \in Nat /\ x <= y
    BY <1>3
  <2> HIDE DEF w, x, y, part
  <2> QED
    BY <2>1, <2>2, TimesMore
<1>5. /\ SliceScore(kpis, a) = SumOf(part(a), S) \div 100
      /\ SliceScore(kpis, b) = SumOf(part(b), S) \div 100
  BY <1>3, SliceScoreIsSum
<1> HIDE DEF part, S
<1>6. SumOf(part(a), S) \in Nat /\ SumOf(part(b), S) \in Nat
  BY <1>1, <1>4, SumIsNat
<1>7. SumOf(part(b), S) <= SumOf(part(a), S)
  BY <1>1, <1>4, SumMonotone
<1>8. 100 \in Nat \ {0}
  OBVIOUS
<1> QED
  BY <1>5, <1>6, <1>7, <1>8, Divided, DividesMore

\* The overall score is a sum over the slices.
LEMMA OverallIsSum ==
    ASSUME NEW m, \A s \in DOMAIN Defs : SliceScore(Defs[s], m) \in Nat
    PROVE  Overall(Defs, m) = SumOf([s \in DOMAIN Defs |-> SliceScore(Defs[s], m)], DOMAIN Defs)
                                 \div Cardinality(DOMAIN Defs)
<1> DEFINE S == DOMAIN Defs
           g == [s \in S |-> SliceScore(Defs[s], m)]
           It(h) == h = [s \in SUBSET S |->
                           IF s = {} THEN 0
                           ELSE SliceScore(Defs[CHOOSE x \in s : TRUE], m)
                                + h[s \ {CHOOSE x \in s : TRUE}]]
           iter == CHOOSE h : It(h)
<1>1. IsFiniteSet(S) /\ \A s \in S : g[s] = SliceScore(Defs[s], m) /\ g[s] \in Nat
  BY ScorecardAssumption
<1>2. ASSUME NEW h PROVE It(h) <=> Solves(h, g, S)
  <2>1. ASSUME NEW s \in SUBSET S
        PROVE  (IF s = {} THEN 0
                ELSE SliceScore(Defs[CHOOSE x \in s : TRUE], m)
                     + h[s \ {CHOOSE x \in s : TRUE}]) = Sum1(g, h, s)
    <3>1. s # {} => g[Any(s)] = SliceScore(Defs[Any(s)], m)
      BY <1>1, <2>1, AnyIn
    <3> HIDE DEF g
    <3> QED
      BY <3>1 DEF Sum1, Any
  <2> QED
    BY <2>1 DEF Solves
<1>3. \E h : Solves(h, g, S)
  <2>1. IsFiniteSet(S) /\ (\A x \in S : g[x] \in Nat)
    BY <1>1
  <2> HIDE DEF g, S
  <2> QED
    BY <2>1, SumSolves
<1>4. Solves(iter, g, S)
  <2>1. \E h : It(h)
    <3>1. PICK h : Solves(h, g, S)
      BY <1>3
    <3> HIDE DEF It, g, S
    <3>2. It(h)
      BY <1>2, <3>1
    <3> QED
      BY <3>2
  <2>2. It(iter)
    BY <2>1
  <2> HIDE DEF iter
  <2> QED
    BY <1>2, <2>2
<1>5. ~\E s \in S : SliceScore(Defs[s], m) = none
  BY Numbers
<1>6. Overall(Defs, m) = iter[S] \div Cardinality(S)
  BY <1>5 DEF Overall, MapThenSumSet, MapThenFoldSet
<1> HIDE DEF iter
<1>7. iter[S] = SumOf(g, S)
  <2> HIDE DEF g, S
  <2> QED
    BY <1>1, <1>4, SolutionIsSum
<1> QED
  BY <1>6, <1>7

LEMMA OverallCompares ==
    ASSUME NEW a, Vector(a), NEW b, Vector(b), Overall(Defs, b) # none,
           \A s \in DOMAIN Defs : \A k \in Scored(Defs[s]) :
              NoWorse(k, a[k.measure], b[k.measure])
    PROVE  /\ Overall(Defs, a) \in Nat /\ Overall(Defs, b) \in Nat
           /\ Overall(Defs, b) <= Overall(Defs, a)
<1> DEFINE S == DOMAIN Defs
           of(m) == [s \in S |-> SliceScore(Defs[s], m)]
           n == Cardinality(S)
<1>1. IsFiniteSet(S) /\ n \in Nat \ {0}
  BY ScorecardAssumption, FS_CardinalityType, FS_EmptySet
<1>2. \A s \in S : SliceScore(Defs[s], b) # none
  BY DEF Overall
<1>3. ASSUME NEW s \in S
      PROVE  /\ SliceScore(Defs[s], a) \in Nat /\ SliceScore(Defs[s], b) \in Nat
             /\ SliceScore(Defs[s], b) <= SliceScore(Defs[s], a)
  <2>1. IsFiniteSet(Defs[s]) /\ Defs[s] \subseteq Kpi
    BY ScorecardAssumption DEF Kpi
  <2> QED
    BY <1>2, <2>1, SliceCompares
<1>4. ASSUME NEW s \in S
      PROVE  of(a)[s] \in Nat /\ of(b)[s] \in Nat /\ of(b)[s] <= of(a)[s]
  BY <1>3
<1>5. Overall(Defs, a) = SumOf(of(a), S) \div n /\ Overall(Defs, b) = SumOf(of(b), S) \div n
  BY <1>3, OverallIsSum
<1> HIDE DEF of, S, n
<1>6. SumOf(of(a), S) \in Nat /\ SumOf(of(b), S) \in Nat
  BY <1>1, <1>4, SumIsNat
<1>7. SumOf(of(b), S) <= SumOf(of(a), S)
  BY <1>1, <1>4, SumMonotone
<1> QED
  BY <1>1, <1>5, <1>6, <1>7, Divided, DividesMore

\* In the scorecard, an instance that is no worse in any scored KPI than the one written last is
\* no lower in its overall score (score_kpi(), score()).
THEOREM ScoresAreOrdered == Spec => []ScoresCompare
<1>1. IInv => ScoresCompare
  <2> SUFFICES ASSUME IInv, card # none, card.overall # none, NEW other \in Vectors,
                      \A s \in DOMAIN Defs : \A k \in Scored(Defs[s]) :
                         NoWorse(k, other[k.measure], card.measured[k.measure])
               PROVE  Overall(Defs, other) >= card.overall
    BY DEF ScoresCompare
  <2> DEFINE m == card.measured
  <2>1. Vector(m) /\ card.overall = Overall(Defs, m)
    BY DEF IInv, ScoredAs
  <2>2. Vector(other)
    BY DEF Vectors, Vector
  <2>3. /\ Overall(Defs, other) \in Nat /\ Overall(Defs, m) \in Nat
        /\ Overall(Defs, m) <= Overall(Defs, other)
    <3> HIDE DEF m
    <3>1. \A s \in DOMAIN Defs : \A k \in Scored(Defs[s]) :
             NoWorse(k, other[k.measure], m[k.measure])
      BY DEF m
    <3>2. Overall(Defs, m) # none
      BY <2>1 DEF m
    <3> QED
      BY <2>1, <2>2, <3>1, <3>2, OverallCompares
  <2> QED
    BY <2>1, <2>3
<1> QED
  BY <1>1, Invariance, PTL
===============================================================================

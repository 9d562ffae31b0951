------------------------------- MODULE MCKpiRun -------------------------------
(* Two broadband devices of different priority and one IoT device; sweeps of two values each.
   Of the file sets, two are consistent: the standard one, and one with an IoT device more. *)
EXTENDS KpiRun

Plan(a, c) == <<[slice |-> broad, count |-> a], [slice |-> iot, count |-> c]>>
Swapped == <<[slice |-> iot, count |-> 1], [slice |-> broad, count |-> 2]>>
Tiers(a) == [s \in {broad, iot} |-> IF s = broad /\ a > 0 THEN <<[count |-> 1, arp |-> 1],
                                                   [count |-> a - 1, arp |-> 2]>> ELSE <<>>]
MCFileSets ==
    {[plan |-> Plan(2, 1), want |-> Plan(2, 1), tiers |-> Tiers(2)],
     [plan |-> Plan(2, 2), want |-> Plan(2, 2), tiers |-> Tiers(0)],
     [plan |-> Plan(2, 1), want |-> Swapped, tiers |-> Tiers(2)],
     [plan |-> Plan(2, 1), want |-> Plan(2, 1), tiers |-> Tiers(3)]}

MCJobs ==
    {<<[kind |-> "standard", values |-> <<0>>], [kind |-> "embb_ues", values |-> <<0, 2>>]>>,
     <<[kind |-> "mmtc_interval", values |-> <<30, 1>>]>>,
     <<[kind |-> "mmtc_interval", values |-> <<1, 30>>]>>,
     <<[kind |-> "mmtc_devices", values |-> <<1, 3>>]>>}

MCDefs == [s \in {broad, iot} |->
    IF s = broad
    THEN {[measure |-> "p5", better |-> "higher", target |-> 50, weight |-> 100]}
    ELSE {[measure |-> "reg", better |-> "higher", target |-> 990, weight |-> 60],
          [measure |-> "latency", better |-> "lower", target |-> 10, weight |-> 40]}]
=============================================================================

------------------------------ MODULE Subscribers ------------------------------
(***************************************************************************)
(* Who the n-th IMSI is, in each program that has to know: the subscriber  *)
(* records provision_subscribers.py writes, the UEs plan() of ue-lib.sh    *)
(* launches, the ranges ue_plan() of run_kpis.py reads back.  Nothing but  *)
(* counting from the first IMSI in slice order keeps them together, and    *)
(* check_plan() of check_open5gs_slices.py is what compares the files.     *)
(*                                                                         *)
(* A plan is a sequence of [slice, count]; IMSIs are numbered from 1.      *)
(***************************************************************************)
EXTENDS Naturals, Sequences, FiniteSetsExt

Before(plan, i) == LET count(j) == plan[j].count IN MapThenSumSet(count, 1 .. i - 1)

Size(plan) == Before(plan, Len(plan) + 1)

\* The entry the n-th IMSI falls into.
EntryOf(plan, n) == CHOOSE i \in DOMAIN plan : Before(plan, i) < n /\ n <= Before(plan, i + 1)

\* plan() of ue-lib.sh: the slice that each UE opens.
Launches(plan) == [n \in 1 .. Size(plan) |-> plan[EntryOf(plan, n)].slice]

\* ue_plan(): the IMSIs of a slice.
RangeOf(plan, slice) == {n \in 1 .. Size(plan) : Launches(plan)[n] = slice}

-----------------------------------------------------------------------------
(* provision_subscribers.py *)

\* with_tier(): the tiers of a slice, [count, arp], in the order of its own subscribers.
TierOf(tiers, index, default) ==
    IF index > Size(tiers) THEN default ELSE tiers[EntryOf(tiers, index)].arp

\* build_script() refuses tiers that do not cover the slice's subscribers.
TiersCover(want, tiers) ==
    \A i \in DOMAIN want : LET t == tiers[want[i].slice]
                           IN t = <<>> \/ Size(t) = want[i].count

\* The subscribers, home slice and priority, that O5GS_UES = want and the tiers make.
Records(want, tiers, default) ==
    [n \in 1 .. Size(want) |->
        LET i == EntryOf(want, n)
            index == n - Before(want, i)
        IN [home |-> want[i].slice, arp |-> TierOf(tiers[want[i].slice], index, default)]]

-----------------------------------------------------------------------------
(* check_plan(): UE_PLAN of the compose file against slices.env.  The gateways and the probe's
   pools it compares too are not modelled. *)

Consistent(plan, want, tiers) ==
    /\ Len(plan) = Len(want)
    /\ \A i \in DOMAIN plan : plan[i].slice = want[i].slice /\ plan[i].count = want[i].count
    /\ TiersCover(want, tiers)
=============================================================================

----------------------------- MODULE MCAdmission -----------------------------
(* A two-slice deployment after deployments/slices.env, scaled down: eMBB   *)
(* serves video, URLLC serves blog and control and keeps a reserve for      *)
(* control.  `home` is an eMBB subscriber also permitted on URLLC (the      *)
(* slice's default ARP); `std` and `crit` are URLLC's two tiers.            *)
EXTENDS Admission, TLC

CONSTANTS embb, urllc, video, blog, control, home, std, crit

MCSlice == {embb, urllc}
MCClass == {video, blog, control}
MCSubscriber == {home, std, crit}
MCCapacity == embb :> 2 @@ urllc :> 3
MCLatency == embb :> 300 @@ urllc :> 10
MCDemands == {<<home, video, 2>>, <<home, blog, 1>>, <<std, control, 1>>,
              <<crit, control, 2>>, <<std, blog, 1>>, <<crit, blog, 1>>}
MCMaxLatency == video :> 300 @@ blog :> 20 @@ control :> 10
MCPermitted == home :> MCSlice @@ std :> {urllc} @@ crit :> {urllc}
MCFloor == embb :> 1 @@ urllc :> 0
MCReserve == embb :> 0 @@ urllc :> 1
MCValue == video :> 1 @@ blog :> 2 @@ control :> 10

ARP(p, may, vuln) == [priority |-> p, may_preempt |-> may, preemptable |-> vuln]
MCArp ==
    home :> (embb :> ARP(8, FALSE, TRUE) @@ urllc :> ARP(2, TRUE, TRUE)) @@
    std :> (embb :> ARP(8, FALSE, TRUE) @@ urllc :> ARP(2, FALSE, TRUE)) @@
    crit :> (embb :> ARP(8, FALSE, TRUE) @@ urllc :> ARP(1, TRUE, FALSE))

\* The price rises from the lowest value to the highest with the load.
MCPrice(used, lim) == IF 3 * used < lim THEN 1 ELSE IF 3 * used < 2 * lim THEN 2 ELSE 10

MCLoads == {embb :> 0 @@ urllc :> 0, embb :> 1 @@ urllc :> 2}
=============================================================================

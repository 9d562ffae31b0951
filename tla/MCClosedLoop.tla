----------------------------- MODULE MCClosedLoop -----------------------------
(* A class that any slice would do for, and mMTC is the cheapest: one demand in the window is
   less than a hundredth of a Mbps, two are one. *)
EXTENDS ClosedLoop

CONSTANTS sensor, mMTC, eMBB

MCRate == [c \in {sensor} |-> 8]
MCLatency == [c \in {sensor} |-> 1000]
MCSlices == [s \in {mMTC, eMBB} |-> IF s = mMTC THEN [latency |-> 1000, capacity |-> 10]
                                               ELSE [latency |-> 300, capacity |-> 500]]
MCTakes == [k \in {"activate", "deactivate", "scale"} |-> IF k = "scale" THEN 1 ELSE 2]
=============================================================================

-------------------------------- MODULE Sizing --------------------------------
(***************************************************************************)
(* kr_size(): the search for a capacity that meets the blocking target, as *)
(* the steps of its two loops.                                             *)
(***************************************************************************)
EXTENDS Planning

CONSTANTS
    Erlangs, Sizes,   \* offered loads, and demand sizes in hundredths of a Mbps
    MaxClasses,
    Targets,          \* blocking targets [num, den]
    limit_units       \* where doubling stops

ASSUME SizingAssumption ==
    /\ Erlangs \subseteq Nat \ {0} /\ Sizes \subseteq Nat \ {0}
    /\ IsFiniteSet(Erlangs) /\ IsFiniteSet(Sizes)
    /\ \A t \in Targets : t.num \in Nat \ {0} /\ t.den \in Nat /\ t.num < t.den
    /\ {MaxClasses, limit_units} \subseteq Nat \ {0}

VARIABLES loads, target, lo, hi, phase
sizing_vars == <<loads, target, lo, hi, phase>>

Loads == {l \in UNION {kSubset(k, [erlangs: Erlangs, size: Sizes]) : k \in 1 .. MaxClasses} :
             \A x, y \in l : x.size = y.size => x = y}

classes == Classes(loads)
Largest == Max({c.units : c \in classes})

SizingInit ==
    /\ loads \in Loads /\ target \in Targets
    /\ lo = Largest /\ hi = Largest
    /\ phase = "double"

Double ==
    /\ phase = "double"
    /\ IF ~Meets(classes, hi, target) /\ hi < limit_units
       THEN hi' = 2 * hi /\ UNCHANGED phase
       ELSE phase' = "bisect" /\ UNCHANGED hi
    /\ UNCHANGED <<loads, target, lo>>

\* (mutant: the half that failed is kept)
BisectKeeping ==
    /\ phase = "bisect"
    /\ LET mid == (lo + hi) \div 2
       IN CASE lo >= hi -> phase' = "done" /\ UNCHANGED <<lo, hi>>
            [] lo < hi /\ Meets(classes, mid, target) -> hi' = mid /\ UNCHANGED <<lo, phase>>
            [] OTHER -> lo' = mid /\ UNCHANGED <<hi, phase>>
    /\ UNCHANGED <<loads, target>>

Bisect ==
    /\ phase = "bisect"
    /\ LET mid == (lo + hi) \div 2
       IN CASE lo >= hi -> phase' = "done" /\ UNCHANGED <<lo, hi>>
            [] lo < hi /\ Meets(classes, mid, target) -> hi' = mid /\ UNCHANGED <<lo, phase>>
            [] OTHER -> lo' = mid + 1 /\ UNCHANGED <<hi, phase>>
    /\ UNCHANGED <<loads, target>>

SizingNext == Double \/ Bisect
SizingSpec == SizingInit /\ [][SizingNext]_sizing_vars /\ WF_sizing_vars(SizingNext)

-----------------------------------------------------------------------------
(* Properties *)

\* The loss system itself: how many demands of each class are served at once.  The weight
\* of a state is the product of erlangs^n / n! over the classes, here times C!.
Power(a) == LET p[n \in Nat] == IF n = 0 THEN 1 ELSE a * p[n - 1] IN p
ProductOf(g) == LET times(x, y) == x * y IN FoldFunction(times, 1, g)

Busy(n) == SumFunction([c \in DOMAIN n |-> n[c] * c.units])
Served(K, C) == {n \in [K -> 0 .. C] : Busy(n) <= C}
Orders(n) == ProductOf([c \in DOMAIN n |-> Factorial[n[c]]])
Offered(n) == ProductOf([c \in DOMAIN n |-> Power(c.erlangs)[n[c]]])
Weight(n, C) == (Factorial[C] \div Orders(n)) * Offered(n)
LossMeets(K, C, bound) ==
    LET weight == [n \in Served(K, C) |-> Weight(n, C)]
        blocks(c) == {n \in Served(K, C) : Busy(n) + c.units > C}
    IN \A c \in K : bound.den * SumFunctionOnSet(weight, blocks(c)) <= bound.num * SumFunction(weight)

BlockingMet(C) == LossMeets(classes, C, target)

\* Every upper end the search passes through, and the size it ends with, keeps the blocking
\* of every class under the target, by the loss system's own definition and not by the
\* recursion, unless doubling stopped at its limit; what lies just below the lower end does not.
Bracketed ==
    phase # "double" =>
        /\ hi >= limit_units \/ BlockingMet(hi)
        /\ lo = Largest \/ ~BlockingMet(lo - 1)
        /\ lo <= hi

\* The search ends.
Ends == <>(phase = "done")
=============================================================================

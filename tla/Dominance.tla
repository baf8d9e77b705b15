----------------------------- MODULE Dominance -----------------------------
(***************************************************************************)
(* lab/evolve/evolve.py's Pareto relation: dominates(), over the records   *)
(* of designs measured.  All objectives are minimised; speed and speed32   *)
(* within SPEED_TOL percent, memory within MEM_TOL kilobytes, are a tie.   *)
(***************************************************************************)
EXTENDS Integers

CONSTANTS SPEED_TOL,                \* percent (2); exact, not in floating point
          MEM_TOL,                  \* kilobytes (8)
          TWO_WIDTHS                \* --widths 8,4: speed32 is an objective

ASSUME ToleranceAssumption ==
    SPEED_TOL \in 0 .. 100 /\ MEM_TOL \in Nat /\ TWO_WIDTHS \in BOOLEAN

Record == [speed : Nat \ {0}, total : Nat, rss : Nat, speed32 : Nat \ {0}]

(* No worse, and better, beyond the tolerance. *)
NoSlower(s, t) == s * 100 <= t * (100 + SPEED_TOL)
Faster(s, t)   == s * 100 < t * (100 - SPEED_TOL)
NoLarger(m, k) == m <= k + MEM_TOL
Smaller(m, k)  == m < k - MEM_TOL

(* Not the code: the total is compared only where it is better. *)
DominatesLarger(a, b) ==
    /\ NoSlower(a.speed, b.speed) /\ NoLarger(a.rss, b.rss)
    /\ TWO_WIDTHS => NoSlower(a.speed32, b.speed32)
    /\ \/ Faster(a.speed, b.speed) \/ a.total < b.total \/ Smaller(a.rss, b.rss)
       \/ TWO_WIDTHS /\ Faster(a.speed32, b.speed32)

Dominates(a, b) ==
    /\ NoSlower(a.speed, b.speed) /\ a.total <= b.total /\ NoLarger(a.rss, b.rss)
    /\ TWO_WIDTHS => NoSlower(a.speed32, b.speed32)
    /\ \/ Faster(a.speed, b.speed) \/ a.total < b.total \/ Smaller(a.rss, b.rss)
       \/ TWO_WIDTHS /\ Faster(a.speed32, b.speed32)
=============================================================================

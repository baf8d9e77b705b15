------------------------------- MODULE Pareto ------------------------------
(***************************************************************************)
(* The two ways lab/evolve/evolve.py has to the front of a list of         *)
(* designs, over the same records: fronts(), which rank() breeds by, and   *)
(* first_front(), which the reports and --carry take.                      *)
(***************************************************************************)
EXTENDS FirstFront, Sequences, FiniteSets

ASSUME ListAssumption == IsFiniteSet(Ids) /\ Ids \subseteq Nat /\ Measured \subseteq Record

VARIABLES n, F, stage               \* fronts(): Fronts' n, F and pc

Peeling == INSTANCE Fronts WITH pc <- stage

ParetoVars == <<vars, n, F, stage>>

ParetoInit == Init /\ Peeling!Init

ParetoNext ==
    \/ Peeling!Next /\ UNCHANGED <<todo, arch, out, unchecked, pc>>
    \/ stage = "done" /\ Next /\ UNCHANGED <<n, F, stage>>

ParetoSpec == ParetoInit /\ [][ParetoNext]_ParetoVars
-----------------------------------------------------------------------------
(* fronts() sorts: it drops no design and places none twice, ranks each    *)
(* after all that dominate it, but in a ring, and with one width leaves    *)
(* nothing over for the last front (evolve.py:1515, 1601-1625).            *)
FrontsSort == Peeling!FrontsSort

(* first_front is "fronts(ids, R)[0] - the same designs" (evolve.py:1660),   *)
(* where not every design has a dominator.                                 *)
SameAsFronts ==
    pc = "done" /\ Undominated # {} => out = {F[1][k] : k \in DOMAIN F[1]}
=============================================================================

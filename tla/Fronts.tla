------------------------------- MODULE Fronts ------------------------------
(***************************************************************************)
(* fronts(ids, R) of lab/evolve/evolve.py: the designs peeled into fronts. *)
(* Who dominates whom is counted once; each front takes one from the       *)
(* counts of those it dominates, and those left with none are the next.   *)
(***************************************************************************)
EXTENDS Dominance, Sequences, FiniteSets, SequencesExt

CONSTANTS Ids,                      \* the designs, numbered as they come in the list
          Measured                  \* the records they can have

VARIABLES R,                        \* the records
          n,                        \* of each design, the dominators not placed yet
          F,                        \* the fronts
          pc                        \* count, peel, done

vars == <<R, n, F, pc>>

Dom(a, b) == Dominates(R[a], R[b])

(* A set as a sequence: SetToSortSeq, said so that proofs can look into it.  *)
(* AsListed: in the order of ids.                                          *)
InOrder(S, before) ==
    CHOOSE s \in [1 .. Cardinality(S) -> S] :
        \A i, j \in 1 .. Cardinality(S) : i < j => <<s[i], s[j]>> \in before
AsListed == {p \in Ids \X Ids : p[1] < p[2]}

(* The pair loop: of two that dominate each other only the first counts.    *)
Counted(x, y) == x # y /\ Dom(x, y)
Init ==
    /\ R \in [Ids -> Measured]
    /\ n = [y \in Ids |-> 0] /\ F = <<>>
    /\ pc = "count"

Dominators(y) == {x \in Ids : x # y /\ Dom(x, y) /\ ~Dom(y, x)}

Count ==
    /\ pc = "count"
    /\ n' = [y \in Ids |-> Cardinality(Dominators(y))]
    /\ F' = <<InOrder({y \in Ids : n'[y] = 0}, AsListed)>>
    /\ pc' = "peel"
    /\ UNCHANGED R

(* A front's own order: by the design of the front before that freed it. *)
Freed(front) ==
    LET hits(y)  == {k \in DOMAIN front : Counted(front[k], y)}
        freed    == {y \in Ids : hits(y) # {} /\ n[y] = Cardinality(hits(y))}
        last(y)  == Max(hits(y))
        sooner   == {p \in freed \X freed : last(p[1]) < last(p[2]) \/ (last(p[1]) = last(p[2]) /\ p[1] < p[2])}
    IN  InOrder(freed, sooner)

(* Not the code: a design joins the next front at its first dominator. *)
PeelEarly ==
    /\ pc = "peel" /\ Last(F) # <<>>
    /\ LET front == Last(F)
           hit   == {y \in Ids : n[y] > 0 /\ \E k \in DOMAIN front : Counted(front[k], y)}
       IN  /\ n' = [y \in Ids |-> IF y \in hit THEN 0 ELSE n[y]]
           /\ F' = Append(F, InOrder(hit, AsListed))
    /\ UNCHANGED <<R, pc>>

Peel ==
    /\ pc = "peel" /\ Last(F) # <<>>
    /\ n' = [y \in Ids |-> n[y] - Cardinality({k \in DOMAIN Last(F) : Counted(Last(F)[k], y)})]
    /\ F' = Append(F, Freed(Last(F)))
    /\ UNCHANGED <<R, pc>>

Placed == UNION {Range(F[k]) : k \in DOMAIN F}

(* The empty front goes; what a cycle kept from every front comes last. *)
Finish ==
    /\ pc = "peel" /\ Last(F) = <<>>
    /\ LET left == InOrder(Ids \ Placed, AsListed)
       IN  F' = Front(F) \o (IF left = <<>> THEN <<>> ELSE <<left>>)
    /\ pc' = "done"
    /\ UNCHANGED <<R, n>>

Next == Count \/ Peel \/ Finish
-----------------------------------------------------------------------------
(* No design is dropped unseen, and none placed twice (evolve.py:1621). *)
EachOnce == pc = "done" => \A i \in Ids :
                Cardinality({p \in (1 .. Len(F)) \X (1 .. Cardinality(Ids)) :
                                p[2] \in DOMAIN F[p[1]] /\ F[p[1]][p[2]] = i}) = 1

(* Every design is ranked after all that dominate it, but for those of a    *)
(* ring, which are last.                                                   *)
RankedByDominance ==
    pc = "done" => \A k \in DOMAIN F : \A y \in Range(F[k]), x \in Ids :
       Dom(x, y) => \/ \E j \in 1 .. k - 1 : x \in Range(F[j])
                    \/ k = Len(F) /\ x \in Range(F[k])

(* "the relation has no cycles and the fronts below still sort"             *)
(* (evolve.py:1515), written of one width: among designs alike at 32 bits   *)
(* no tolerance makes a ring, and nothing is left over for the last front.  *)
NoCyclesAtOneWidth ==
    /\ pc = "peel" /\ Last(F) = <<>>
    /\ \A x, y \in Ids : R[x].speed32 = R[y].speed32
    => Placed = Ids

(* The fronts are an order of all the designs by dominance.                *)
FrontsSort == EachOnce /\ RankedByDominance /\ NoCyclesAtOneWidth
=============================================================================

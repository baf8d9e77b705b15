--------------------------- MODULE Pareto_proofs ---------------------------
(***************************************************************************)
(* The two ways to a front: first_front() returns exactly the designs no   *)
(* other dominates, fronts() sorts all designs by dominance, and the two   *)
(* agree, whatever the designs, their records and the tolerances.          *)
(* Dominance is nowhere taken to be transitive: the scan keeps a dominator *)
(* of every design it leaves out somewhere among the designs, and the      *)
(* check looks there.                                                      *)
(*                                                                         *)
(* And who lives on after a generation: every family and the knee, and, in *)
(* the attic, every gene value (Selection).  And what they are judged by: a *)
(* design's record is its own, and who is stopped would not have been on   *)
(* the front: whatever the designs, what becomes of them, the workers and  *)
(* the size of a generation (Trial).                                       *)
(***************************************************************************)
EXTENDS Pareto, Selection, Trial, FiniteSetTheorems, TLAPS

(* A design of more total dominates nothing: what the check passes over.    *)
LEMMA NoMoreTotal ==
    ASSUME NEW a, NEW b, Dominates(a, b)
    PROVE  a.total <= b.total
BY DEF Dominates

(* Within the tolerance both ways is a tie: of s and t, s is not faster     *)
(* where t is no slower.                                                   *)
LEMMA FasterIsSlower ==
    ASSUME NEW s \in Nat \ {0}, NEW t \in Nat \ {0}, Faster(s, t)
    PROVE  ~NoSlower(t, s)
<1> DEFINE P == SPEED_TOL
<1>1. P \in Int /\ 0 <= P /\ P <= 100
  BY ToleranceAssumption
<1>2. SUFFICES ASSUME t * 100 <= s * (100 + P) PROVE FALSE
  BY DEF NoSlower
<1>3. s * 100 < t * (100 - P)
  BY DEF Faster
<1> HIDE DEF P
<1>4. (s * 100) * 100 < (t * 100) * (100 - P)
  BY <1>1, <1>3
<1>5. (t * 100) * (100 - P) <= (s * (100 + P)) * (100 - P)
  BY <1>1, <1>2
<1>6. (s * (100 + P)) * (100 - P) = (s * 100) * 100 - s * (P * P)
  BY <1>1
<1>7. s * (P * P) >= 0
  BY <1>1
<1>8. QED
  <2>1. s * (P * P) \in Int /\ (s * 100) * 100 \in Int /\ (t * 100) * (100 - P) \in Int
    BY <1>1
  <2>2. QED
    BY <1>4, <1>5, <1>6, <1>7, <2>1

(* No two designs dominate each other, so that fronts() counts every        *)
(* dominator although its pair loop looks at the second only where the     *)
(* first is none (evolve.py:1610).                                         *)
THEOREM Asymmetric ==
    ASSUME NEW a \in Record, NEW b \in Record, Dominates(a, b)
    PROVE  ~Dominates(b, a)
<1>1. /\ a.speed \in Nat \ {0} /\ b.speed \in Nat \ {0}
      /\ a.speed32 \in Nat \ {0} /\ b.speed32 \in Nat \ {0}
      /\ a.total \in Nat /\ b.total \in Nat /\ a.rss \in Nat /\ b.rss \in Nat
  BY DEF Record
<1>2. CASE Faster(a.speed, b.speed)
  BY <1>1, <1>2, FasterIsSlower DEF Dominates
<1>3. CASE a.total < b.total
  BY <1>1, <1>3 DEF Dominates
<1>4. CASE Smaller(a.rss, b.rss)
  BY <1>1, <1>4, ToleranceAssumption DEF Dominates, Smaller, NoLarger
<1>5. CASE TWO_WIDTHS /\ Faster(a.speed32, b.speed32)
  BY <1>1, <1>5, FasterIsSlower DEF Dominates
<1>6. QED
  BY <1>2, <1>3, <1>4, <1>5 DEF Dominates
-----------------------------------------------------------------------------
HasDominator(b) == \E a \in Ids : a # b /\ Dom(a, b)

(* Whatever the scan left out has a dominator; whatever the check decided   *)
(* is decided rightly.                                                     *)
LeftOut == \A i \in Ids \ (todo \cup arch) : HasDominator(i)
Decided == pc # "scan" => \A b \in arch \ unchecked : b \in out <=> ~HasDominator(b)
Stages  == /\ pc = "scan" => out = {} /\ unchecked = {}
           /\ pc # "scan" => todo = {}
           /\ pc = "done" => unchecked = {}

Inv == TypeOK /\ ArchiveApart /\ LeftOut /\ Decided /\ Stages

LEMMA Initially == Init => Inv
BY DEF Init, Inv, TypeOK, ArchiveApart, LeftOut, Decided, Stages

LEMMA SkipKeeps ==
    ASSUME Inv, NEW i \in Ids, Skip(i)
    PROVE  Inv'
<1> USE DEF Inv, Skip, Scanned
<1>1. TypeOK'
  BY DEF TypeOK
<1>2. ArchiveApart'
  BY DEF ArchiveApart, Dom
<1>3. LeftOut'
  <2>1. HasDominator(i)
    BY DEF HasDominator, TypeOK
  <2>2. \A j \in Ids : HasDominator(j)' <=> HasDominator(j)
    BY DEF HasDominator, Dom
  <2>3. QED
    BY <2>1, <2>2 DEF LeftOut
<1>4. Decided' /\ Stages'
  BY DEF Decided, Stages
<1>5. QED
  BY <1>1, <1>2, <1>3, <1>4

LEMMA ArchiveKeeps ==
    ASSUME Inv, NEW i \in Ids, Archive(i)
    PROVE  Inv'
<1> USE DEF Inv, Archive, Scanned
<1>1. TypeOK'
  BY DEF TypeOK, Stages
<1>2. ArchiveApart'
  BY DEF ArchiveApart, Dom
<1>3. LeftOut'
  <2>1. \A j \in arch : Dom(i, j) => HasDominator(j)
    BY DEF HasDominator, TypeOK
  <2>2. \A j \in Ids : HasDominator(j)' <=> HasDominator(j)
    BY DEF HasDominator, Dom
  <2>3. QED
    BY <2>1, <2>2 DEF LeftOut
<1>4. Decided' /\ Stages'
  BY DEF Decided, Stages
<1>5. QED
  BY <1>1, <1>2, <1>3, <1>4

LEMMA CheckKeeps ==
    ASSUME Inv, NEW b \in Ids, Check(b)
    PROVE  Inv'
<1> USE DEF Inv, Check
<1>1. TypeOK'
  BY DEF TypeOK
<1>2. ArchiveApart'
  BY DEF ArchiveApart, Dom
<1>3. \A j \in Ids : HasDominator(j)' <=> HasDominator(j)
  BY DEF HasDominator, Dom
<1>4. LeftOut' /\ Stages'
  BY <1>3 DEF LeftOut, Stages
<1>5. Decided'
  <2>1. b \in out' <=> ~HasDominator(b)
    <3>1. b \notin out
      BY DEF TypeOK
    <3>2. \A a \in Ids : Dom(a, b) => R[a].total <= R[b].total
      BY NoMoreTotal DEF Dom
    <3>3. QED
      BY <3>1, <3>2 DEF HasDominator
  <2>2. \A j \in Ids : j # b => (j \in out' <=> j \in out)
    OBVIOUS
  <2>3. QED
    BY <1>3, <2>1, <2>2 DEF Decided, TypeOK
<1>6. QED
  BY <1>1, <1>2, <1>4, <1>5

LEMMA TurnsKeep ==
    ASSUME Inv, EndScan \/ EndCheck \/ UNCHANGED vars
    PROVE  Inv'
<1> USE DEF Inv, EndScan, EndCheck, vars
<1>1. TypeOK'
  BY DEF TypeOK, Stages
<1>2. ArchiveApart'
  BY DEF ArchiveApart, Dom
<1>3. \A j \in Ids : HasDominator(j)' <=> HasDominator(j)
  BY DEF HasDominator, Dom
<1>4. LeftOut' /\ Stages'
  BY <1>3 DEF LeftOut, Stages
<1>5. Decided'
  BY <1>3 DEF Decided, Stages, TypeOK
<1>6. QED
  BY <1>1, <1>2, <1>4, <1>5

THEOREM Inductive == Spec => []Inv
<1>1. Inv /\ [Next]_vars => Inv'
  BY SkipKeeps, ArchiveKeeps, CheckKeeps, TurnsKeep DEF Next
<1>2. QED
  BY Initially, <1>1, PTL DEF Spec

(* The records, the scan and the archive keep their types and places.       *)
THEOREM TypeCorrect == Spec => []TypeOK
BY Inductive, PTL DEF Inv

(* No member of the archive dominates another.                              *)
THEOREM ArchiveApartAlways == Spec => []ArchiveApart
BY Inductive, PTL DEF Inv

LEMMA ReturnsUndominated == Inv => OnlyUndominated
<1>1. SUFFICES ASSUME Inv, pc = "done", NEW b \in Ids
               PROVE  b \in out <=> ~HasDominator(b)
  BY DEF OnlyUndominated, Undominated, HasDominator, Inv, TypeOK
<1>2. CASE b \in arch
  BY <1>1, <1>2 DEF Inv, Decided, Stages
<1>3. CASE b \notin arch
  BY <1>1, <1>3 DEF Inv, LeftOut, Stages, TypeOK
<1>4. QED
  BY <1>2, <1>3

(* first_front() is the designs nothing dominates: a design left out has a  *)
(* dominator, be it itself left out, and a design returned has none.       *)
THEOREM OnlyUndominatedAlways == Spec => []OnlyUndominated
BY Inductive, ReturnsUndominated, PTL
-----------------------------------------------------------------------------
(* InOrder: a finite set as a sequence. *)
StrictOrder(S, before) ==
    /\ \A x \in S : <<x, x>> \notin before
    /\ \A x, y, z \in S : <<x, y>> \in before /\ <<y, z>> \in before => <<x, z>> \in before
    /\ \A x, y \in S : x # y => <<x, y>> \in before \/ <<y, x>> \in before

(* A sequence has each of a set's elements once.                            *)
Lists(s, S) ==
    /\ s \in Seq(S)
    /\ \A i, j \in DOMAIN s : s[i] = s[j] => i = j
    /\ \A y \in S : \E i \in DOMAIN s : s[i] = y

LEMMA RanksDiffer ==
    ASSUME NEW S, NEW before, IsFiniteSet(S), StrictOrder(S, before),
           NEW x \in S, NEW y \in S, <<x, y>> \in before
    PROVE  Cardinality({z \in S : <<z, x>> \in before}) < Cardinality({z \in S : <<z, y>> \in before})
<1> DEFINE X == {z \in S : <<z, x>> \in before}
           Y == {z \in S : <<z, y>> \in before}
<1>1. X \in SUBSET Y /\ x \in Y /\ x \notin X
  BY DEF StrictOrder
<1>2. IsFiniteSet(Y)
  BY FS_Subset
<1> HIDE DEF X, Y
<1>3. IsFiniteSet(X) /\ Cardinality(X) <= Cardinality(Y) /\ Cardinality(X) # Cardinality(Y)
  BY <1>1, <1>2, FS_Subset
<1>4. Cardinality(X) \in Nat /\ Cardinality(Y) \in Nat
  BY <1>2, <1>3, FS_CardinalityType
<1>5. Cardinality(X) < Cardinality(Y)
  BY <1>3, <1>4
<1> QED
  BY <1>5 DEF X, Y

(* As many places as elements, and no two elements of one rank: each place  *)
(* has its element, and these are in order.                                *)
LEMMA InOrderExists ==
    ASSUME NEW S, NEW before, IsFiniteSet(S), StrictOrder(S, before)
    PROVE  \E s \in [1 .. Cardinality(S) -> S] :
               \A i, j \in 1 .. Cardinality(S) : i < j => <<s[i], s[j]>> \in before
<1> DEFINE c == Cardinality(S)
           rank == [y \in S |-> Cardinality({z \in S : <<z, y>> \in before})]
           place == [y \in S |-> rank[y] + 1]
<1>1. c \in Nat /\ IsFiniteSet(1 .. c) /\ Cardinality(1 .. c) = c
  BY FS_CardinalityType, FS_Interval
<1>2. \A y \in S : rank[y] \in Nat /\ rank[y] + 1 \in 1 .. c
  <2>1. TAKE y \in S
  <2> DEFINE Y == {z \in S : <<z, y>> \in before}
  <2>2. Y \in SUBSET S /\ Y # S
    BY DEF StrictOrder
  <2> HIDE DEF Y
  <2>3. IsFiniteSet(Y) /\ Cardinality(Y) <= c /\ Cardinality(Y) # c
    BY <2>2, FS_Subset
  <2>4. Cardinality(Y) \in Nat
    BY <2>3, FS_CardinalityType
  <2>5. Cardinality(Y) + 1 \in 1 .. c
    BY <1>1, <2>3, <2>4
  <2>6. rank[y] = Cardinality(Y)
    BY DEF Y
  <2> HIDE DEF rank
  <2> QED
    BY <2>4, <2>5, <2>6
<1>3. \A x, y \in S : <<x, y>> \in before => rank[x] < rank[y]
  BY RanksDiffer
<1> HIDE DEF rank
<1>4. \A x, y \in S : rank[x] = rank[y] => x = y
  <2>1. SUFFICES ASSUME NEW x \in S, NEW y \in S, x # y
                 PROVE  rank[x] # rank[y]
    OBVIOUS
  <2>2. <<x, y>> \in before \/ <<y, x>> \in before
    BY <2>1 DEF StrictOrder
  <2> QED
    BY <1>2, <1>3, <2>2
<1>5. \A y \in S : place[y] = rank[y] + 1 /\ place[y] \in 1 .. c
  BY <1>2
<1>6. place \in [S -> 1 .. c]
  BY <1>2
<1> HIDE DEF c, place
<1>7. place \in Injection(S, 1 .. c)
  <2>1. \A x, y \in S : place[x] = place[y] => x = y
    BY <1>2, <1>4, <1>5
  <2> QED
    BY <1>6, <2>1 DEF Injection, IsInjective
<1>8. place \in Surjection(S, 1 .. c)
  BY <1>1, <1>7, FS_Injection DEF c
<1>9. \A k \in 1 .. c : \E y \in S : place[y] = k
  BY <1>8 DEF Surjection
<1> DEFINE s == [k \in 1 .. c |-> CHOOSE y \in S : place[y] = k]
<1>10. \A k \in 1 .. c : s[k] \in S /\ place[s[k]] = k
  BY <1>9
<1>11. s \in [1 .. c -> S]
  BY <1>10
<1> HIDE DEF s
<1>12. ASSUME NEW i \in 1 .. c, NEW j \in 1 .. c, i < j
       PROVE  <<s[i], s[j]>> \in before
  <2>1. s[i] \in S /\ s[j] \in S /\ place[s[i]] = i /\ place[s[j]] = j
    BY <1>10
  <2>2. rank[s[i]] < rank[s[j]] /\ rank[s[i]] \in Nat /\ rank[s[j]] \in Nat
    BY <1>2, <1>5, <1>12, <2>1
  <2>3. s[i] # s[j] /\ <<s[j], s[i]>> \notin before
    BY <1>3, <2>1, <2>2
  <2> QED
    BY <2>1, <2>3 DEF StrictOrder
<1> QED
  BY <1>11, <1>12 DEF c

(* The fronts' Cardinality, an instance's, is Cardinality. *)
LEMMA SameSize ==
    ASSUME NEW S
    PROVE  Peeling!Cardinality(S) = Cardinality(S)
BY DEF Peeling!Cardinality, Cardinality

LEMMA InOrderLists ==
    ASSUME NEW S, NEW before, IsFiniteSet(S), StrictOrder(S, before)
    PROVE  Lists(Peeling!InOrder(S, before), S)
<1> DEFINE c == Cardinality(S)
           s == Peeling!InOrder(S, before)
<1>1. c \in Nat /\ IsFiniteSet(1 .. c) /\ Cardinality(1 .. c) = c
  BY FS_CardinalityType, FS_Interval
<1>2. s \in [1 .. c -> S] /\ \A i, j \in 1 .. c : i < j => <<s[i], s[j]>> \in before
  <2>1. Peeling!Cardinality(S) = c
    BY SameSize
  <2>2. \E t \in [1 .. Peeling!Cardinality(S) -> S] :
            \A i, j \in 1 .. Peeling!Cardinality(S) : i < j => <<t[i], t[j]>> \in before
    BY <2>1, InOrderExists
  <2>3. /\ s \in [1 .. Peeling!Cardinality(S) -> S]
        /\ \A i, j \in 1 .. Peeling!Cardinality(S) : i < j => <<s[i], s[j]>> \in before
    BY <2>2 DEF Peeling!InOrder
  <2> HIDE DEF c, s
  <2> QED
    BY <2>1, <2>3
<1> HIDE DEF s
<1>3. \A i, j \in 1 .. c : s[i] = s[j] => i = j
  <2>1. SUFFICES ASSUME NEW i \in 1 .. c, NEW j \in 1 .. c, i < j
                 PROVE  s[i] # s[j]
    BY <1>1
  <2> QED
    BY <1>2, <2>1 DEF StrictOrder
<1>4. s \in Injection(1 .. c, S)
  BY <1>2, <1>3 DEF Injection, IsInjective
<1>5. s \in Surjection(1 .. c, S)
  BY <1>1, <1>4, FS_Injection
<1> HIDE DEF c
<1>6. s \in Seq(S) /\ DOMAIN s = 1 .. c
  BY <1>1, <1>2
<1> QED
  BY <1>3, <1>5, <1>6 DEF Lists, Surjection, s

LEMMA AsListedOrders ==
    ASSUME NEW S \in SUBSET Ids
    PROVE  IsFiniteSet(S) /\ StrictOrder(S, Peeling!AsListed)
<1>1. IsFiniteSet(S)
  BY ListAssumption, FS_Subset
<1>2. \A x \in S : x \in Nat /\ x \in Ids
  BY ListAssumption
<1>3. \A x, y \in S : <<x, y>> \in Peeling!AsListed <=> x < y
  BY <1>2 DEF Peeling!AsListed
<1> QED
  BY <1>1, <1>2, <1>3 DEF StrictOrder
-----------------------------------------------------------------------------
(* fronts(): who dominates whom. *)
DomOf(y) == {x \in Ids : Dom(x, y)}

LEMMA OneDominates ==
    ASSUME R \in [Ids -> Measured], NEW x \in Ids, NEW y \in Ids
    PROVE  Dom(x, y) => ~Dom(y, x)
<1>1. R[x] \in Record /\ R[y] \in Record
  BY ListAssumption
<1> QED
  BY <1>1, Asymmetric DEF Dom

(* What the pair loop counts is dominance: it is asymmetric. *)
LEMMA PairLoop ==
    ASSUME R \in [Ids -> Measured], NEW y \in Ids
    PROVE  /\ \A x \in Ids : Peeling!Counted(x, y) <=> x \in DomOf(y)
           /\ Peeling!Dominators(y) = DomOf(y)
<1>1. \A x \in Ids, z \in Ids : Peeling!Dom(x, z) <=> Dom(x, z)
  BY DEF Peeling!Dom, Dom, Peeling!Dominates, Dominates, Peeling!NoSlower, NoSlower, Peeling!Faster, Faster,
         Peeling!NoLarger, NoLarger, Peeling!Smaller, Smaller
<1>2. \A x \in Ids : Dom(x, y) => x # y /\ ~Dom(y, x)
  BY OneDominates
<1> QED
  BY <1>1, <1>2 DEF Peeling!Counted, Peeling!Dominators, DomOf

(* Fronts: who is in the first m of them. *)
In(G, m, y)   == \E k \in 1 .. m : \E i \in DOMAIN G[k] : G[k][i] = y
Members(G, m) == {y \in Ids : In(G, m, y)}

(* Each at most once; and each after its dominators. *)
Once(G) == \A k, l \in DOMAIN G : \A i \in DOMAIN G[k], j \in DOMAIN G[l] : G[k][i] = G[l][j] => k = l /\ i = j
After(G) == \A k \in DOMAIN G : \A i \in DOMAIN G[k], x \in Ids : Dom(x, G[k][i]) => In(G, k - 1, x)

WithFront(H, G, s) ==
    /\ H \in Seq(Seq(Ids)) /\ Len(H) = Len(G) + 1
    /\ DOMAIN H = 1 .. Len(G) + 1 /\ DOMAIN G = 1 .. Len(G)
    /\ \A k \in 1 .. Len(G) : H[k] = G[k]
    /\ H[Len(G) + 1] = s
    /\ \A m \in 0 .. Len(G) : \A y : In(H, m, y) <=> In(G, m, y)
    /\ \A y : In(H, Len(G) + 1, y) <=> In(G, Len(G), y) \/ \E i \in DOMAIN s : s[i] = y

LEMMA Appended ==
    ASSUME NEW G \in Seq(Seq(Ids)), NEW s \in Seq(Ids)
    PROVE  WithFront(Append(G, s), G, s)
<1> DEFINE H == Append(G, s)
<1>1. Len(G) \in Nat
  OBVIOUS
<1>2. /\ H \in Seq(Seq(Ids)) /\ Len(H) = Len(G) + 1
      /\ DOMAIN H = 1 .. Len(G) + 1 /\ DOMAIN G = 1 .. Len(G)
      /\ \A k \in 1 .. Len(G) : H[k] = G[k]
      /\ H[Len(G) + 1] = s
  OBVIOUS
<1> HIDE DEF H
<1>3. \A m \in 0 .. Len(G) : \A k \in 1 .. m : H[k] = G[k]
  BY <1>1, <1>2
<1>4. \A m \in 0 .. Len(G) : \A y : In(H, m, y) <=> In(G, m, y)
  BY <1>3 DEF In
<1>5. \A k : k \in 1 .. Len(G) + 1 <=> k \in 1 .. Len(G) \/ k = Len(G) + 1
  BY <1>1
<1>6. \A y : In(H, Len(G) + 1, y) <=> In(G, Len(G), y) \/ \E i \in DOMAIN s : s[i] = y
  BY <1>2, <1>5 DEF In
<1> QED
  BY <1>2, <1>4, <1>6 DEF H, WithFront

(* Another front, of designs not in those before. *)
LEMMA OnceAppended ==
    ASSUME NEW G \in Seq(Seq(Ids)), NEW s, NEW S \in SUBSET Ids, Once(G), Lists(s, S),
           \A y \in S : ~In(G, Len(G), y)
    PROVE  Once(Append(G, s))
<1> DEFINE H == Append(G, s)
<1>1. s \in Seq(Ids) /\ \A i \in DOMAIN s : s[i] \in S
  BY DEF Lists
<1>2. Len(G) \in Nat /\ DOMAIN G = 1 .. Len(G)
  OBVIOUS
<1>3. /\ DOMAIN H = 1 .. Len(G) + 1 /\ H[Len(G) + 1] = s
      /\ \A k \in 1 .. Len(G) : H[k] = G[k]
  <2>1. WithFront(H, G, s)
    BY <1>1, Appended
  <2> QED
    BY <2>1 DEF WithFront
<1> HIDE DEF H
<1>4. \A k \in 1 .. Len(G) : \A i \in DOMAIN G[k], j \in DOMAIN s : G[k][i] # s[j]
  BY <1>1 DEF In
<1>5. SUFFICES ASSUME NEW k \in DOMAIN H, NEW l \in DOMAIN H, NEW i \in DOMAIN H[k], NEW j \in DOMAIN H[l],
                      H[k][i] = H[l][j]
               PROVE  k = l /\ i = j
  BY DEF Once, H
<1>6. /\ k \in 1 .. Len(G) \/ k = Len(G) + 1
      /\ l \in 1 .. Len(G) \/ l = Len(G) + 1
  BY <1>2, <1>3
<1>7. CASE k \in 1 .. Len(G) /\ l \in 1 .. Len(G)
  <2>1. k \in DOMAIN G /\ l \in DOMAIN G /\ H[k] = G[k] /\ H[l] = G[l]
    BY <1>2, <1>3, <1>7
  <2> QED
    BY <1>5, <2>1 DEF Once
<1>8. CASE k \in 1 .. Len(G) /\ l = Len(G) + 1
  <2>1. H[k] = G[k] /\ H[l] = s
    BY <1>3, <1>8
  <2> QED
    BY <1>4, <1>5, <1>8, <2>1
<1>9. CASE k = Len(G) + 1 /\ l \in 1 .. Len(G)
  <2>1. H[k] = s /\ H[l] = G[l]
    BY <1>3, <1>9
  <2> QED
    BY <1>4, <1>5, <1>9, <2>1
<1>10. CASE k = Len(G) + 1 /\ l = Len(G) + 1
  BY <1>3, <1>5, <1>10 DEF Lists
<1> QED
  BY <1>6, <1>7, <1>8, <1>9, <1>10

(* Another front, of designs whose dominators are all in those before. *)
LEMMA AfterAppended ==
    ASSUME NEW G \in Seq(Seq(Ids)), NEW s, NEW S \in SUBSET Ids, After(G), Lists(s, S),
           \A y \in S : DomOf(y) \subseteq Members(G, Len(G))
    PROVE  After(Append(G, s))
<1> DEFINE H == Append(G, s)
<1>1. s \in Seq(Ids) /\ \A i \in DOMAIN s : s[i] \in S
  BY DEF Lists
<1>2. Len(G) \in Nat /\ DOMAIN G = 1 .. Len(G)
  OBVIOUS
<1>3. /\ DOMAIN H = 1 .. Len(G) + 1 /\ H[Len(G) + 1] = s
      /\ \A k \in 1 .. Len(G) : H[k] = G[k]
      /\ \A m \in 0 .. Len(G) : \A y : In(H, m, y) <=> In(G, m, y)
  <2>1. WithFront(H, G, s)
    BY <1>1, Appended
  <2> QED
    BY <2>1 DEF WithFront
<1> HIDE DEF H
<1>4. SUFFICES ASSUME NEW k \in DOMAIN H, NEW i \in DOMAIN H[k], NEW x \in Ids, Dom(x, H[k][i])
               PROVE  In(H, k - 1, x)
  BY DEF After, H
<1>5. CASE k \in 1 .. Len(G)
  <2>1. In(G, k - 1, x)
    BY <1>2, <1>3, <1>4, <1>5 DEF After
  <2>2. k - 1 \in 0 .. Len(G)
    BY <1>2, <1>5
  <2> QED
    BY <1>3, <2>1, <2>2
<1>6. CASE k = Len(G) + 1
  <2>1. s[i] \in S /\ x \in DomOf(s[i])
    BY <1>1, <1>3, <1>4, <1>6 DEF DomOf
  <2>2. In(G, Len(G), x)
    BY <2>1 DEF Members
  <2>3. k - 1 = Len(G) /\ k - 1 \in 0 .. Len(G)
    BY <1>2, <1>6
  <2> QED
    BY <1>3, <2>2, <2>3
<1> QED
  BY <1>2, <1>3, <1>4, <1>5, <1>6

(* The places of a list that hold members of a set are as many as these. *)
LEMMA AsManyPlaces ==
    ASSUME NEW S, IsFiniteSet(S), NEW s, NEW T, Lists(s, T)
    PROVE  Cardinality({k \in DOMAIN s : s[k] \in S}) = Cardinality(S \cap T)
<1> DEFINE K == {k \in DOMAIN s : s[k] \in S}
           f == [k \in K |-> s[k]]
<1>1. \A k \in DOMAIN s : s[k] \in T
  BY DEF Lists
<1>2. f \in [K -> S \cap T]
  BY <1>1
<1>3. \A i, j \in K : f[i] = f[j] => i = j
  BY DEF Lists
<1>4. \A y \in S \cap T : \E k \in K : f[k] = y
  <2>1. TAKE y \in S \cap T
  <2>2. PICK k \in DOMAIN s : s[k] = y
    BY DEF Lists
  <2> QED
    BY <2>1, <2>2
<1> HIDE DEF K, f
<1>5. f \in Injection(K, S \cap T) /\ f \in Surjection(K, S \cap T)
  BY <1>2, <1>3, <1>4 DEF Injection, Surjection, IsInjective
<1>6. IsFiniteSet(S \cap T)
  BY FS_Subset
<1>7. IsFiniteSet(K) /\ Cardinality(K) = Cardinality(S \cap T)
  BY <1>5, <1>6, FS_Injection
<1> QED
  BY <1>7 DEF K

(* What fronts() has when it comes to another front. *)
Counts  == \A y \in Ids : n[y] = Cardinality(DomOf(y) \ Members(F, Len(F) - 1))
Emptied == \A y \in Ids : In(F, Len(F), y) <=> DomOf(y) \subseteq Members(F, Len(F) - 1)
LastListed == F # <<>> /\ \E S \in SUBSET Ids : Lists(F[Len(F)], S)
PeelFine ==
    /\ R \in [Ids -> Measured] /\ F \in Seq(Seq(Ids)) /\ n \in [Ids -> Nat]
    /\ Once(F) /\ After(F) /\ Counts /\ Emptied /\ LastListed

LEMMA LastFront ==
    ASSUME F \in Seq(Seq(Ids)), LastListed, Once(F)
    PROVE  /\ Len(F) \in Nat \ {0} /\ Peeling!Last(F) = F[Len(F)]
           /\ \E S \in SUBSET Ids : /\ Lists(F[Len(F)], S)
                                    /\ \A y \in S : ~In(F, Len(F) - 1, y)
                                    /\ \A y \in Ids : In(F, Len(F), y) <=> In(F, Len(F) - 1, y) \/ y \in S
<1>1. Len(F) \in Nat \ {0} /\ DOMAIN F = 1 .. Len(F)
  BY DEF LastListed
<1>2. PICK S \in SUBSET Ids : Lists(F[Len(F)], S)
  BY DEF LastListed
<1> DEFINE s == F[Len(F)]
<1>3. \A i \in DOMAIN s : s[i] \in S
  BY <1>2 DEF Lists
<1>4. \A y \in S : \E i \in DOMAIN s : s[i] = y
  BY <1>2 DEF Lists
<1>5. \A k : k \in 1 .. Len(F) <=> k \in 1 .. Len(F) - 1 \/ k = Len(F)
  BY <1>1
<1>6. \A y : (\E i \in DOMAIN s : s[i] = y) <=> y \in S
  BY <1>3, <1>4
<1>7. \A y \in Ids : In(F, Len(F), y) <=> In(F, Len(F) - 1, y) \/ y \in S
  BY <1>5, <1>6 DEF In
<1>8. ASSUME NEW y \in S, In(F, Len(F) - 1, y)
      PROVE  FALSE
  <2>1. PICK k \in 1 .. Len(F) - 1 : \E i \in DOMAIN F[k] : F[k][i] = y
    BY <1>8 DEF In
  <2>2. k \in 1 .. Len(F) /\ k # Len(F) /\ Len(F) \in 1 .. Len(F)
    <3>1. ASSUME NEW l \in Nat \ {0}, NEW m \in 1 .. l - 1
          PROVE  m \in 1 .. l /\ m # l /\ l \in 1 .. l
      OBVIOUS
    <3> QED
      BY <1>1, <3>1
  <2> QED
    BY <1>1, <1>4, <2>1, <2>2 DEF Once
<1> QED
  BY <1>1, <1>2, <1>7, <1>8 DEF Peeling!Last

(* What a front takes from the counts: of each design, its dominators in it; *)
(* none is left over when all its dominators are placed.                   *)
Hits(y) == {k \in DOMAIN F[Len(F)] : Peeling!Counted(F[Len(F)][k], y)}

LEMMA Taken ==
    ASSUME PeelFine, NEW y \in Ids
    PROVE  /\ IsFiniteSet(Hits(y)) /\ Cardinality(Hits(y)) \in Nat
           /\ n[y] - Cardinality(Hits(y)) \in Nat
           /\ n[y] - Cardinality(Hits(y)) = Cardinality(DomOf(y) \ Members(F, Len(F)))
           /\ n[y] = Cardinality(Hits(y)) <=> DomOf(y) \subseteq Members(F, Len(F))
           /\ Hits(y) = {} <=> DomOf(y) \cap Members(F, Len(F)) \subseteq Members(F, Len(F) - 1)
<1> DEFINE s == F[Len(F)]
           D == DomOf(y)
           M == Members(F, Len(F) - 1)
           E == Members(F, Len(F))
<1>1. PICK S \in SUBSET Ids : /\ Lists(s, S)
                              /\ \A z \in S : ~In(F, Len(F) - 1, z)
                              /\ \A z \in Ids : In(F, Len(F), z) <=> In(F, Len(F) - 1, z) \/ z \in S
  BY LastFront DEF PeelFine
<1>2. E = M \cup S /\ S \cap M = {}
  BY <1>1 DEF Members
<1>3. \A k \in DOMAIN s : s[k] \in S /\ s[k] \in Ids
  BY <1>1 DEF Lists
<1>4. Hits(y) = {k \in DOMAIN s : s[k] \in D}
  BY <1>3, PairLoop DEF Hits, PeelFine
<1>5. n[y] = Cardinality(D \ M)
  BY DEF PeelFine, Counts
<1>6. D \in SUBSET Ids /\ IsFiniteSet(D)
  BY ListAssumption, FS_Subset DEF DomOf
<1>7. \A y2 \in S : \E k \in DOMAIN s : s[k] = y2
  BY <1>1 DEF Lists
<1>8. Hits(y) = {} <=> D \cap S = {}
  BY <1>3, <1>4, <1>7
<1> HIDE DEF D, M, E, s
<1>9. Cardinality(Hits(y)) = Cardinality(D \cap S)
  BY <1>1, <1>4, <1>6, AsManyPlaces
<1>10. IsFiniteSet(D \ M) /\ IsFiniteSet(D \cap S) /\ IsFiniteSet((D \ M) \ (D \cap S))
  BY <1>6, FS_Subset
<1>11. (D \ M) \cap (D \cap S) = D \cap S /\ (D \ M) \ (D \cap S) = D \ E
  BY <1>2
<1>12. Cardinality(D \ E) = Cardinality(D \ M) - Cardinality(D \cap S)
  <2>1. Cardinality((D \ M) \ (D \cap S)) = Cardinality(D \ M) - Cardinality((D \ M) \cap (D \cap S))
    BY <1>10, FS_Difference
  <2> QED
    BY <1>11, <2>1
<1>13. Cardinality(D \ M) \in Nat /\ Cardinality(D \cap S) \in Nat /\ Cardinality(D \ E) \in Nat
  BY <1>10, <1>11, FS_CardinalityType
<1>14. Cardinality(D \ E) = 0 <=> D \ E = {}
  BY <1>10, <1>11, FS_EmptySet
<1>15. IsFiniteSet(Hits(y))
  <2>1. Len(s) \in Nat /\ DOMAIN s = 1 .. Len(s)
    BY <1>1 DEF Lists
  <2>2. IsFiniteSet(DOMAIN s) /\ Hits(y) \in SUBSET DOMAIN s
    BY <1>4, <2>1, FS_Interval
  <2> QED
    BY <2>2, FS_Subset
<1>16. D \cap S = {} <=> D \cap E \subseteq M
  BY <1>2
<1> QED
  BY <1>5, <1>8, <1>9, <1>12, <1>13, <1>14, <1>15, <1>16 DEF D, M, E

Lt == {p \in Nat \X Nat : p[1] < p[2]}

LEMMA LeastOf ==
    ASSUME NEW T \in SUBSET Nat, T # {}
    PROVE  \E x \in T : \A y \in T : x <= y
<1>1. Lt = OpToRel(<, Nat)
  BY Zenon DEF Lt, OpToRel
<1>2. IsWellFoundedOn(Lt, Nat)
  BY <1>1, NatLessThanWellFounded, Zenon
<1>3. PICK x \in T : \A y \in T : ~(<<y, x>> \in Lt)
  BY <1>2, WFMin, Zenon
<1>4. \A y \in T : ~(y < x)
  BY <1>3 DEF Lt
<1> QED
  BY <1>4

LEMMA MaxIsOne ==
    ASSUME NEW m \in Nat, NEW K \in SUBSET (1 .. m), K # {}
    PROVE  Peeling!Max(K) \in Nat
<1> DEFINE T == {m - k : k \in K}
<1>1. T \in SUBSET Nat /\ T # {}
  <2>1. \A k \in 1 .. m : m - k \in Nat /\ k \in Nat
    OBVIOUS
  <2>2. \A k \in K : m - k \in Nat
    BY <2>1
  <2> QED
    BY <2>2
<1>2. PICK d \in T : \A e \in T : d <= e
  BY <1>1, LeastOf
<1>3. PICK x \in K : d = m - x
  OBVIOUS
<1>4. \A k \in K : x >= k
  <2>1. TAKE k \in K
  <2>2. m - x <= m - k
    BY <1>2, <1>3
  <2> QED
    BY <2>2
<1>5. Peeling!Max(K) \in K
  BY <1>4, Zenon DEF Peeling!Max
<1>6. \A k \in 1 .. m : k \in Nat
  OBVIOUS
<1>7. \A k \in K : k \in Nat
  BY <1>6
<1> HIDE DEF T
<1> QED
  BY <1>5, <1>7

(* The designs whose last dominator is in the front. *)
FreedSet == {y \in Ids : ~In(F, Len(F), y) /\ DomOf(y) \subseteq Members(F, Len(F))}

LEMMA FreedAre ==
    ASSUME PeelFine
    PROVE  {y \in Ids : Hits(y) # {} /\ n[y] = Cardinality(Hits(y))} = FreedSet
<1> SUFFICES ASSUME NEW y \in Ids
             PROVE  Hits(y) # {} /\ n[y] = Cardinality(Hits(y)) <=> y \in FreedSet
  BY DEF FreedSet
<1>1. /\ n[y] = Cardinality(Hits(y)) <=> DomOf(y) \subseteq Members(F, Len(F))
      /\ Hits(y) = {} <=> DomOf(y) \cap Members(F, Len(F)) \subseteq Members(F, Len(F) - 1)
  BY Taken
<1>2. In(F, Len(F), y) <=> DomOf(y) \subseteq Members(F, Len(F) - 1)
  BY DEF PeelFine, Emptied
<1>3. ASSUME DomOf(y) \subseteq Members(F, Len(F))
      PROVE  DomOf(y) \cap Members(F, Len(F)) = DomOf(y)
  BY <1>3
<1> QED
  BY <1>1, <1>2, <1>3 DEF FreedSet

LEMMA FreedLists ==
    ASSUME PeelFine
    PROVE  Lists(Peeling!Freed(F[Len(F)]), FreedSet)
<1> DEFINE last(y) == Peeling!Max(Hits(y))
           sooner == {p \in FreedSet \X FreedSet : last(p[1]) < last(p[2]) \/ (last(p[1]) = last(p[2]) /\ p[1] < p[2])}
<1>1. \A y \in Ids : Peeling!Cardinality(Hits(y)) = Cardinality(Hits(y))
  BY SameSize
<1>2. {y \in Ids : Hits(y) # {} /\ n[y] = Peeling!Cardinality(Hits(y))} = FreedSet
  BY <1>1, FreedAre
<1>3. Peeling!Freed(F[Len(F)]) = Peeling!InOrder(FreedSet, sooner)
  BY <1>2, Zenon DEF Peeling!Freed, Hits
<1>4. \A y \in FreedSet : last(y) \in Nat /\ y \in Nat
  <2>1. TAKE y \in FreedSet
  <2>2. y \in Ids /\ Hits(y) # {}
    BY FreedAre
  <2>3. PICK m \in Nat : DOMAIN F[Len(F)] = 1 .. m
    BY LastFront DEF PeelFine, Lists
  <2>4. Hits(y) \in SUBSET (1 .. m)
    BY <2>3 DEF Hits
  <2>5. y \in Nat
    BY <2>2, ListAssumption
  <2> QED
    BY <2>2, <2>4, <2>5, MaxIsOne
<1> HIDE DEF last
<1>5. \A x, y \in FreedSet : <<x, y>> \in sooner <=> last(x) < last(y) \/ (last(x) = last(y) /\ x < y)
  OBVIOUS
<1> HIDE DEF sooner
<1>6. StrictOrder(FreedSet, sooner)
  <2>1. \A x \in FreedSet : <<x, x>> \notin sooner
    BY <1>4, <1>5
  <2>2. \A x, y, z \in FreedSet : <<x, y>> \in sooner /\ <<y, z>> \in sooner => <<x, z>> \in sooner
    BY <1>4, <1>5
  <2>3. \A x, y \in FreedSet : x # y => <<x, y>> \in sooner \/ <<y, x>> \in sooner
    BY <1>4, <1>5
  <2> QED
    BY <2>1, <2>2, <2>3 DEF StrictOrder
<1>7. IsFiniteSet(FreedSet)
  BY ListAssumption, FS_Subset DEF FreedSet
<1> QED
  BY <1>3, <1>6, <1>7, InOrderLists

(* The first front is what nothing dominates. *)
First == \A y \in Ids : (\E i \in DOMAIN F[1] : F[1][i] = y) <=> DomOf(y) = {}

LEMMA CountStarts ==
    ASSUME R \in [Ids -> Measured], Peeling!Count
    PROVE  PeelFine' /\ First'
<1> DEFINE S == {y \in Ids : DomOf(y) = {}}
           s == Peeling!InOrder(S, Peeling!AsListed)
<1>1. R' = R /\ n' = [y \in Ids |-> Cardinality(DomOf(y))]
  BY PairLoop, SameSize DEF Peeling!Count
<1>2. \A y \in Ids : Cardinality(DomOf(y)) \in Nat /\ (Cardinality(DomOf(y)) = 0 <=> DomOf(y) = {})
  <2>1. TAKE y \in Ids
  <2>2. DomOf(y) \in SUBSET Ids
    BY DEF DomOf
  <2>3. IsFiniteSet(DomOf(y))
    BY <2>2, ListAssumption, FS_Subset
  <2> QED
    BY <2>3, FS_CardinalityType, FS_EmptySet
<1>3. {y \in Ids : n'[y] = 0} = S
  BY <1>1, <1>2
<1>4. F' = <<s>>
  BY <1>3 DEF Peeling!Count
<1>5. Lists(s, S) /\ S \in SUBSET Ids
  BY AsListedOrders, InOrderLists
<1> HIDE DEF s
<1>6. s \in Seq(Ids) /\ \A y \in Ids : (\E i \in DOMAIN s : s[i] = y) <=> y \in S
  BY <1>5 DEF Lists
<1>7. F' \in Seq(Seq(Ids)) /\ F' # <<>> /\ Len(F') = 1 /\ F'[1] = s /\ DOMAIN F' = {1} /\ Len(F') - 1 = 0
  BY <1>4, <1>6
<1>8. \A y : ~In(F', 0, y)
  BY DEF In
<1>9. \A y \in Ids : In(F', 1, y) <=> y \in S
  <2>1. \A k : k \in 1 .. 1 <=> k = 1
    OBVIOUS
  <2> QED
    BY <1>6, <1>7, <2>1 DEF In
<1>10. Once(F')
  BY <1>5, <1>7 DEF Once, Lists
<1>11. Members(F', 0) = {}
  BY <1>8 DEF Members
<1>12. \A y \in Ids : DomOf(y)' = DomOf(y)
  BY <1>1 DEF DomOf, Dom
<1> HIDE DEF S
<1>13. After(F)'
  <2>1. SUFFICES ASSUME NEW i \in DOMAIN s, NEW x \in Ids, Dom(x, s[i])
                 PROVE  FALSE
    BY <1>1, <1>7 DEF After, Dom
  <2>2. s[i] \in S /\ s[i] \in Ids /\ x \in DomOf(s[i])
    BY <1>5, <2>1 DEF Lists, DomOf
  <2> QED
    BY <2>2 DEF S
<1>14. Counts'
  BY <1>1, <1>7, <1>11, <1>12 DEF Counts
<1>15. Emptied'
  <2>1. \A y \in Ids : y \in S <=> DomOf(y) \subseteq {}
    BY DEF S
  <2> QED
    BY <1>7, <1>9, <1>11, <1>12, <2>1 DEF Emptied
<1>16. LastListed'
  BY <1>5, <1>7 DEF LastListed
<1>17. R' \in [Ids -> Measured] /\ n' \in [Ids -> Nat]
  BY <1>1, <1>2
<1>18. First'
  <2>1. \A y \in Ids : y \in S <=> DomOf(y) = {}
    BY DEF S
  <2> QED
    BY <1>6, <1>7, <1>12, <2>1 DEF First
<1> QED
  BY <1>7, <1>10, <1>13, <1>14, <1>15, <1>16, <1>17, <1>18 DEF PeelFine

LEMMA PeelKeeps ==
    ASSUME PeelFine, First, Peeling!Peel
    PROVE  PeelFine' /\ First'
<1> DEFINE s == Peeling!Freed(F[Len(F)])
           l == Len(F)
<1>1. F \in Seq(Seq(Ids)) /\ l \in Nat \ {0} /\ Peeling!Last(F) = F[l]
  BY LastFront DEF PeelFine
<1>2. R' = R /\ n' = [y \in Ids |-> n[y] - Cardinality(Hits(y))] /\ F' = Append(F, s)
  BY <1>1, SameSize DEF Peeling!Peel, Hits
<1>3. Lists(s, FreedSet) /\ FreedSet \in SUBSET Ids
  BY FreedLists DEF FreedSet
<1> HIDE DEF s
<1>4. s \in Seq(Ids) /\ \A y \in Ids : (\E i \in DOMAIN s : s[i] = y) <=> y \in FreedSet
  BY <1>3 DEF Lists
<1>5. /\ F' \in Seq(Seq(Ids)) /\ Len(F') = l + 1 /\ F'[l + 1] = s
      /\ \A m \in 0 .. l : \A y : In(F', m, y) <=> In(F, m, y)
      /\ \A y : In(F', l + 1, y) <=> In(F, l, y) \/ \E i \in DOMAIN s : s[i] = y
      /\ \A k \in 1 .. l : F'[k] = F[k]
  <2>1. WithFront(Append(F, s), F, s)
    BY <1>1, <1>4, Appended
  <2> QED
    BY <1>2, <2>1 DEF WithFront
<1> HIDE DEF l
<1>6. Len(F') - 1 = l /\ l \in 0 .. l /\ 1 \in 1 .. l /\ F' # <<>>
  BY <1>1, <1>5
<1>7. Members(F', l) = Members(F, l)
  BY <1>5, <1>6 DEF Members
<1>8. \A y \in Ids : DomOf(y)' = DomOf(y)
  BY <1>2 DEF DomOf, Dom
<1>9. Once(F')
  BY <1>1, <1>2, <1>3, OnceAppended DEF PeelFine, FreedSet, l
<1>10. After(F)'
  <2>1. After(F')
    BY <1>1, <1>2, <1>3, AfterAppended DEF PeelFine, FreedSet, l
  <2> QED
    BY <1>2, <2>1 DEF After, Dom
<1>11. Counts'
  <2>1. \A y \in Ids : n'[y] = Cardinality(DomOf(y) \ Members(F, l))
    BY <1>2, Taken DEF l
  <2> QED
    BY <1>6, <1>7, <1>8, <2>1 DEF Counts
<1>12. Emptied'
  <2>1. \A y \in Ids : In(F, l, y) => DomOf(y) \subseteq Members(F, l)
    <3>1. TAKE y \in Ids
    <3>2. Members(F, l - 1) \subseteq Members(F, l)
      <4>1. \A k \in 1 .. l - 1 : k \in 1 .. l
        BY <1>1
      <4> QED
        BY <4>1 DEF Members, In
    <3> QED
      BY <3>2 DEF PeelFine, Emptied, l
  <2>2. \A y \in Ids : In(F', l + 1, y) <=> DomOf(y) \subseteq Members(F, l)
    BY <1>4, <1>5, <2>1 DEF FreedSet, l
  <2> QED
    BY <1>5, <1>6, <1>7, <1>8, <2>2 DEF Emptied
<1>13. LastListed'
  BY <1>3, <1>5, <1>6 DEF LastListed
<1>14. R' \in [Ids -> Measured] /\ n' \in [Ids -> Nat]
  BY <1>2, Taken DEF PeelFine
<1>15. First'
  BY <1>5, <1>6, <1>8 DEF First
<1> QED
  BY <1>5, <1>9, <1>10, <1>11, <1>12, <1>13, <1>14, <1>15 DEF PeelFine

(* What fronts() returns: each design once, and after its dominators, but   *)
(* for what comes last.                                                    *)
Ranked(G) == \A k \in DOMAIN G : \A i \in DOMAIN G[k], x \in Ids :
                Dom(x, G[k][i]) => In(G, k - 1, x) \/ (k = Len(G) /\ \E j \in DOMAIN G[k] : G[k][j] = x)
DoneFine ==
    /\ R \in [Ids -> Measured] /\ F \in Seq(Seq(Ids))
    /\ Once(F) /\ Ranked(F) /\ \A y \in Ids : In(F, Len(F), y)
    /\ Undominated # {} => F # <<>> /\ First

ButLast(H, G) ==
    /\ H \in Seq(Seq(Ids)) /\ Len(H) = Len(G) - 1 /\ DOMAIN H = 1 .. Len(G) - 1
    /\ \A k \in 1 .. Len(G) - 1 : k \in DOMAIN G /\ H[k] = G[k]
    /\ \A m \in 0 .. Len(G) - 1 : \A y : In(H, m, y) <=> In(G, m, y)
    /\ \A y : In(H, Len(G) - 1, y) <=> In(G, Len(G), y)

LEMMA FrontOf ==
    ASSUME NEW G \in Seq(Seq(Ids)), G # <<>>, G[Len(G)] = <<>>
    PROVE  ButLast(Peeling!Front(G), G)
<1> DEFINE H == Peeling!Front(G)
<1>1. Len(G) \in Nat \ {0} /\ DOMAIN G = 1 .. Len(G)
  OBVIOUS
<1>2. /\ H \in Seq(Seq(Ids)) /\ Len(H) = Len(G) - 1 /\ DOMAIN H = 1 .. Len(G) - 1
      /\ \A k \in 1 .. Len(G) - 1 : H[k] = G[k]
  BY <1>1 DEF Peeling!Front
<1>3. \A k \in 1 .. Len(G) - 1 : k \in DOMAIN G
  BY <1>1
<1> HIDE DEF H
<1>4. \A m \in 0 .. Len(G) - 1 : \A k \in 1 .. m : k \in 1 .. Len(G) - 1
  BY <1>1
<1>5. \A m \in 0 .. Len(G) - 1 : \A y : In(H, m, y) <=> In(G, m, y)
  BY <1>2, <1>4 DEF In
<1>6. \A k : k \in 1 .. Len(G) <=> k \in 1 .. Len(G) - 1 \/ k = Len(G)
  BY <1>1
<1>7. \A y : In(G, Len(G), y) <=> In(G, Len(G) - 1, y)
  <2>1. DOMAIN G[Len(G)] = {}
    OBVIOUS
  <2> QED
    BY <1>6, <2>1 DEF In
<1>8. Len(G) - 1 \in 0 .. Len(G) - 1
  BY <1>1
<1> QED
  BY <1>2, <1>3, <1>5, <1>7, <1>8 DEF H, ButLast

LEMMA FrontFine ==
    ASSUME NEW G \in Seq(Seq(Ids)), G # <<>>, G[Len(G)] = <<>>, Once(G), After(G)
    PROVE  Once(Peeling!Front(G)) /\ After(Peeling!Front(G))
<1> DEFINE H == Peeling!Front(G)
<1>1. /\ DOMAIN H = 1 .. Len(G) - 1 /\ Len(G) \in Nat
      /\ \A k \in 1 .. Len(G) - 1 : k \in DOMAIN G /\ H[k] = G[k]
      /\ \A m \in 0 .. Len(G) - 1 : \A y : In(H, m, y) <=> In(G, m, y)
  <2>1. ButLast(H, G)
    BY FrontOf
  <2> QED
    BY <2>1 DEF ButLast
<1> HIDE DEF H
<1>2. \A k \in 1 .. Len(G) - 1 : k - 1 \in 0 .. Len(G) - 1
  BY <1>1
<1>3. Once(H)
  <2>1. SUFFICES ASSUME NEW k \in DOMAIN H, NEW m \in DOMAIN H, NEW i \in DOMAIN H[k], NEW j \in DOMAIN H[m],
                        H[k][i] = H[m][j]
                 PROVE  k = m /\ i = j
    BY DEF Once
  <2>2. k \in DOMAIN G /\ m \in DOMAIN G /\ H[k] = G[k] /\ H[m] = G[m]
    BY <1>1
  <2> QED
    BY <2>1, <2>2 DEF Once
<1>4. After(H)
  BY <1>1, <1>2 DEF After
<1> QED
  BY <1>3, <1>4 DEF H

LEMMA PlacedAre ==
    ASSUME F \in Seq(Seq(Ids))
    PROVE  Peeling!Placed = Members(F, Len(F))
<1>1. DOMAIN F = 1 .. Len(F)
  OBVIOUS
<1>2. \A k \in DOMAIN F : \A i \in DOMAIN F[k] : F[k][i] \in Ids
  <2>1. TAKE k \in DOMAIN F
  <2>2. F[k] \in Seq(Ids)
    OBVIOUS
  <2> QED
    BY <2>2
<1>3. SUFFICES ASSUME NEW y
               PROVE  y \in Peeling!Placed <=> y \in Members(F, Len(F))
  OBVIOUS
<1>4. y \in Peeling!Placed <=> \E k \in DOMAIN F : \E i \in DOMAIN F[k] : F[k][i] = y
  <2>1. y \in Peeling!Placed <=> \E k \in DOMAIN F : y \in Peeling!Range(F[k])
    BY DEF Peeling!Placed
  <2>2. \A k \in DOMAIN F : y \in Peeling!Range(F[k]) <=> \E i \in DOMAIN F[k] : F[k][i] = y
    BY DEF Peeling!Range
  <2> QED
    BY <2>1, <2>2
<1> QED
  BY <1>1, <1>2, <1>4 DEF Members, In

LEMMA FinishFine ==
    ASSUME PeelFine, First, Peeling!Finish
    PROVE  DoneFine'
<1> DEFINE G == Peeling!Front(F)
           S == Ids \ Members(F, Len(F))
           s == Peeling!InOrder(S, Peeling!AsListed)
<1>1. /\ F \in Seq(Seq(Ids)) /\ F # <<>> /\ Len(F) \in Nat \ {0} /\ F[Len(F)] = <<>>
      /\ Once(F) /\ After(F) /\ R' = R /\ R \in [Ids -> Measured]
  BY LastFront DEF PeelFine, LastListed, Peeling!Finish
<1>2. F' = G \o (IF s = <<>> THEN <<>> ELSE <<s>>)
  BY <1>1, PlacedAre DEF Peeling!Finish
<1>3. Lists(s, S) /\ S \in SUBSET Ids
  BY AsListedOrders, InOrderLists
<1>4. /\ G \in Seq(Seq(Ids)) /\ Len(G) = Len(F) - 1 /\ DOMAIN G = 1 .. Len(F) - 1
      /\ \A k \in 1 .. Len(F) - 1 : G[k] = F[k]
      /\ \A y : In(G, Len(G), y) <=> In(F, Len(F), y)
  <2>1. ButLast(G, F)
    BY <1>1, FrontOf
  <2> QED
    BY <2>1 DEF ButLast
<1>5. Once(G) /\ After(G)
  BY <1>1, FrontFine
<1>6. \A y \in Ids : DomOf(y)' = DomOf(y)
  BY <1>1 DEF DomOf, Dom
<1> HIDE DEF G, s
<1>7. s \in Seq(Ids) /\ \A y \in Ids : (\E i \in DOMAIN s : s[i] = y) <=> y \in S
  BY <1>3 DEF Lists
<1>8. s = <<>> <=> S = {}
  BY <1>3 DEF Lists
<1>9. ASSUME Undominated' # {}
      PROVE  Len(F) - 1 # 0 /\ G[1] = F[1]
  <2>1. PICK y \in Ids : DomOf(y) = {}
    <3>1. PICK y \in Ids : \A x \in Ids : x # y => ~Dom(x, y)
      BY <1>1, <1>9 DEF Undominated, Dom
    <3>2. ~Dom(y, y)
      BY <1>1, OneDominates
    <3> QED
      BY <3>1, <3>2 DEF DomOf
  <2>2. PICK i \in DOMAIN F[1] : F[1][i] = y
    BY <2>1 DEF First
  <2>3. Len(F) # 1
    BY <1>1, <2>2
  <2>4. Len(F) - 1 # 0 /\ 1 \in 1 .. Len(F) - 1
    BY <1>1, <2>3
  <2> QED
    BY <1>4, <2>4
<1>10. CASE s = <<>>
  <2>1. F' = G
    BY <1>2, <1>4, <1>10
  <2>2. \A y \in Ids : In(F', Len(F'), y)
    BY <1>4, <1>8, <1>10, <2>1 DEF Members
  <2>3. Ranked(F)'
    BY <1>1, <1>5, <2>1 DEF Ranked, After, Dom
  <2>4. Undominated' # {} => F' # <<>> /\ First'
    <3>1. SUFFICES ASSUME Undominated' # {}
                   PROVE  F' # <<>> /\ First'
      OBVIOUS
    <3>2. F' # <<>> /\ F'[1] = F[1]
      BY <1>4, <1>9, <2>1, <3>1
    <3> QED
      BY <1>6, <3>2 DEF First
  <2> QED
    BY <1>1, <1>4, <1>5, <2>1, <2>2, <2>3, <2>4 DEF DoneFine
<1>11. CASE s # <<>>
  <2>1. F' = Append(G, s)
    BY <1>2, <1>4, <1>7, <1>11
  <2>2. /\ F' \in Seq(Seq(Ids)) /\ Len(F') = Len(G) + 1 /\ F'[Len(G) + 1] = s
        /\ DOMAIN F' = 1 .. Len(G) + 1
        /\ \A m \in 0 .. Len(G) : \A y : In(F', m, y) <=> In(G, m, y)
        /\ \A y : In(F', Len(G) + 1, y) <=> In(G, Len(G), y) \/ \E i \in DOMAIN s : s[i] = y
        /\ \A k \in 1 .. Len(G) : F'[k] = G[k]
    <3>1. WithFront(Append(G, s), G, s)
      BY <1>4, <1>7, Appended
    <3> QED
      BY <2>1, <3>1 DEF WithFront
  <2>3. Once(F')
    <3>1. \A y \in S : ~In(G, Len(G), y)
      BY <1>3, <1>4 DEF Members
    <3> QED
      BY <1>3, <1>4, <1>5, <2>1, <3>1, OnceAppended
  <2>4. \A y \in Ids : In(F', Len(F'), y)
    BY <1>4, <1>7, <2>2 DEF Members
  <2>5. Ranked(F)'
    <3>1. SUFFICES ASSUME NEW k \in DOMAIN F', NEW i \in DOMAIN F'[k], NEW x \in Ids, Dom(x, F'[k][i])
                   PROVE  In(F', k - 1, x) \/ (k = Len(F') /\ \E j \in DOMAIN F'[k] : F'[k][j] = x)
      BY <1>1 DEF Ranked, Dom
    <3> DEFINE m == Len(G)
    <3>0. m \in Nat
      BY <1>4
    <3> HIDE DEF m
    <3>2. CASE k \in 1 .. m
      <4>1. In(G, k - 1, x)
        BY <1>4, <1>5, <2>2, <3>1, <3>2 DEF After, m
      <4>2. k - 1 \in 0 .. m
        BY <3>0, <3>2
      <4> QED
        BY <2>2, <4>1, <4>2 DEF m
    <3>3. CASE k = m + 1
      <4>1. In(F', Len(G), x) \/ \E j \in DOMAIN s : s[j] = x
        <5>1. m \in 0 .. m
          BY <3>0
        <5> QED
          BY <2>2, <2>4, <5>1 DEF m
      <4>2. k - 1 = m
        BY <3>0, <3>3
      <4>3. In(F', m, x) \/ \E j \in DOMAIN F'[k] : F'[k][j] = x
        BY <2>2, <3>3, <4>1 DEF m
      <4>4. k = Len(F')
        BY <2>2, <3>3 DEF m
      <4> QED
        BY <4>2, <4>3, <4>4
    <3>4. k \in 1 .. m \/ k = m + 1
      <4>1. k \in 1 .. m + 1
        BY <2>2 DEF m
      <4> QED
        BY <3>0, <4>1
    <3> QED
      BY <3>2, <3>3, <3>4
  <2>6. Undominated' # {} => F' # <<>> /\ First'
    <3>1. SUFFICES ASSUME Undominated' # {}
                   PROVE  F' # <<>> /\ First'
      OBVIOUS
    <3>2. F' # <<>> /\ F'[1] = F[1]
      <4>1. 1 \in 1 .. Len(G)
        BY <1>1, <1>4, <1>9, <3>1
      <4> QED
        BY <1>4, <1>9, <2>2, <3>1, <4>1
    <3> QED
      BY <1>6, <3>2 DEF First
  <2> QED
    BY <1>1, <2>2, <2>3, <2>4, <2>5, <2>6 DEF DoneFine
<1> QED
  BY <1>10, <1>11
-----------------------------------------------------------------------------
(* Both of them, one after the other. *)
FrontsInv ==
    /\ R \in [Ids -> Measured] /\ stage \in {"count", "peel", "done"}
    /\ stage = "peel" => PeelFine /\ First
    /\ stage = "done" => DoneFine
    /\ stage # "done" => pc = "scan"

ParetoInv == Inv /\ FrontsInv

LEMMA FrontsStay ==
    ASSUME UNCHANGED <<R, n, F>>
    PROVE  (PeelFine => PeelFine') /\ (First => First') /\ (DoneFine => DoneFine')
<1>1. \A y : DomOf(y)' = DomOf(y)
  BY DEF DomOf, Dom
<1>2. After(F) <=> After(F)'
  BY DEF After, Dom
<1>3. (Counts <=> Counts') /\ (Emptied <=> Emptied') /\ (First <=> First') /\ (LastListed <=> LastListed')
  BY <1>1 DEF Counts, Emptied, First, LastListed
<1>4. Ranked(F) <=> Ranked(F)'
  BY DEF Ranked, Dom
<1>5. Undominated' = Undominated
  BY DEF Undominated, Dom
<1> QED
  BY <1>2, <1>3, <1>4, <1>5 DEF PeelFine, DoneFine

LEMMA ParetoStarts == ParetoInit => ParetoInv
BY Initially DEF ParetoInit, ParetoInv, FrontsInv, Init, Peeling!Init

LEMMA ParetoKeeps == ParetoInv /\ [ParetoNext]_ParetoVars => ParetoInv'
<1> SUFFICES ASSUME ParetoInv, [ParetoNext]_ParetoVars
             PROVE  ParetoInv'
  OBVIOUS
<1>1. CASE Peeling!Next /\ UNCHANGED <<todo, arch, out, unchecked, pc>>
  <2>1. R' = R
    BY <1>1 DEF Peeling!Next, Peeling!Count, Peeling!Peel, Peeling!Finish
  <2>2. Inv'
    BY <1>1, <2>1, TurnsKeep DEF ParetoInv, vars
  <2>3. CASE Peeling!Count
    BY <1>1, <2>1, <2>2, <2>3, CountStarts DEF ParetoInv, FrontsInv, Peeling!Count
  <2>4. CASE Peeling!Peel
    BY <1>1, <2>1, <2>2, <2>4, PeelKeeps DEF ParetoInv, FrontsInv, Peeling!Peel
  <2>5. CASE Peeling!Finish
    BY <1>1, <2>1, <2>2, <2>5, FinishFine DEF ParetoInv, FrontsInv, Peeling!Finish
  <2> QED
    BY <1>1, <2>3, <2>4, <2>5 DEF Peeling!Next
<1>2. CASE stage = "done" /\ Next /\ UNCHANGED <<n, F, stage>>
  <2>1. R' = R
    BY <1>2 DEF Next, Skip, Archive, Check, EndScan, EndCheck
  <2>2. Inv'
    BY <1>2, SkipKeeps, ArchiveKeeps, CheckKeeps, TurnsKeep DEF Next, ParetoInv
  <2> QED
    BY <1>2, <2>1, <2>2, FrontsStay DEF ParetoInv, FrontsInv
<1>3. CASE UNCHANGED ParetoVars
  <2>1. UNCHANGED vars /\ UNCHANGED <<R, n, F>> /\ UNCHANGED <<stage, pc>>
    BY <1>3 DEF ParetoVars, vars
  <2>2. Inv'
    BY <2>1, TurnsKeep DEF ParetoInv
  <2> QED
    BY <2>1, <2>2, FrontsStay DEF ParetoInv, FrontsInv
<1> QED
  BY <1>1, <1>2, <1>3 DEF ParetoNext

THEOREM ParetoInductive == ParetoSpec => []ParetoInv
BY ParetoStarts, ParetoKeeps, PTL DEF ParetoSpec

(* first_front() returns fronts()'s first front, where not every design has *)
(* a dominator.                                                            *)
THEOREM SameAsFrontsAlways == ParetoSpec => []SameAsFronts
<1>1. ParetoInv => SameAsFronts
  <2>1. SUFFICES ASSUME ParetoInv, pc = "done", Undominated # {}
                 PROVE  out = {F[1][k] : k \in DOMAIN F[1]}
    BY DEF SameAsFronts
  <2>2. DoneFine /\ F # <<>> /\ First
    BY <2>1 DEF ParetoInv, FrontsInv, DoneFine
  <2>3. out = Undominated
    BY <2>1, ReturnsUndominated DEF ParetoInv, OnlyUndominated
  <2>4. \A y \in Ids : y \in Undominated <=> DomOf(y) = {}
    <3>1. \A y \in Ids : ~Dom(y, y)
      BY <2>2, OneDominates DEF DoneFine
    <3> QED
      BY <3>1 DEF Undominated, DomOf
  <2>5. \A k \in DOMAIN F[1] : F[1][k] \in Ids
    <3>1. F[1] \in Seq(Ids)
      BY <2>2 DEF DoneFine
    <3> QED
      BY <3>1
  <2>6. Undominated \subseteq Ids
    BY DEF Undominated
  <2> QED
    BY <2>2, <2>3, <2>4, <2>5, <2>6 DEF First
<1> QED
  BY <1>1, ParetoInductive, PTL
-----------------------------------------------------------------------------
(* With one width there are no rings.  Where a dominates b and their totals *)
(* are the same, a is faster by more than the tolerance or smaller by more *)
(* than the tolerance.  So give each memory level, MEM_TOL + 1 kilobytes,  *)
(* a weight 1 + SPEED_TOL times that of the one below: speed times weight  *)
(* falls where a is faster, and does not rise where it is smaller.         *)
Weighted(W, K) ==
    /\ W \in [0 .. K -> Nat \ {0}]
    /\ \A l \in 0 .. K : l + 1 \in 0 .. K => 100 * W[l + 1] = (100 + SPEED_TOL) * W[l]
    /\ \A l, m \in 0 .. K : l <= m => W[l] <= W[m]

LEMMA OneMoreWeight ==
    ASSUME NEW K \in Nat, NEW V, Weighted(V, K)
    PROVE  \E W : Weighted(W, K + 1)
<1> DEFINE P == SPEED_TOL
           W == [l \in 0 .. K + 1 |-> IF l = K + 1 THEN (100 + P) * V[K] ELSE 100 * V[l]]
<1>1. P \in Nat
  BY ToleranceAssumption
<1> HIDE DEF P
<1>2. \A l \in 0 .. K : V[l] \in Nat \ {0}
  BY DEF Weighted
<1>3. \A l \in 0 .. K + 1 : l \in 0 .. K \/ l = K + 1
  OBVIOUS
<1>4. K \in 0 .. K /\ K + 1 \notin 0 .. K
  OBVIOUS
<1>5. \A l \in 0 .. K : l \in 0 .. K + 1 /\ l # K + 1
  OBVIOUS
<1>6. \A l \in 0 .. K : W[l] = 100 * V[l]
  BY <1>5
<1>7. W[K + 1] = (100 + P) * V[K]
  OBVIOUS
<1>8. \A v \in Nat \ {0} : (100 + P) * v \in Nat \ {0} /\ 100 * v \in Nat \ {0} /\ 100 * v <= (100 + P) * v
  BY <1>1
<1>9. W \in [0 .. K + 1 -> Nat \ {0}]
  <2>1. \A l \in 0 .. K + 1 : (IF l = K + 1 THEN (100 + P) * V[K] ELSE 100 * V[l]) \in Nat \ {0}
    BY <1>2, <1>3, <1>4, <1>8
  <2> QED
    BY <2>1
<1> HIDE DEF W
<1>10. ASSUME NEW l \in 0 .. K + 1, l + 1 \in 0 .. K + 1
       PROVE  100 * W[l + 1] = (100 + P) * W[l]
  <2>1. l \in 0 .. K
    BY <1>10
  <2>2. CASE l = K
    <3>1. V[K] \in Nat
      BY <1>2, <1>4
    <3>2. 100 * ((100 + P) * V[K]) = (100 + P) * (100 * V[K])
      BY <1>1, <3>1
    <3> QED
      BY <1>4, <1>6, <1>7, <2>2, <3>2
  <2>3. CASE l # K
    <3>1. l + 1 \in 0 .. K
      BY <2>1, <2>3
    <3>2. V[l] \in Nat /\ V[l + 1] \in Nat
      BY <1>2, <2>1, <3>1
    <3>3. 100 * V[l + 1] = (100 + P) * V[l]
      BY <2>1, <3>1 DEF Weighted, P
    <3>4. 100 * (100 * V[l + 1]) = (100 + P) * (100 * V[l])
      BY <1>1, <3>2, <3>3
    <3> QED
      BY <1>6, <2>1, <3>1, <3>4
  <2> QED
    BY <2>2, <2>3
<1>11. ASSUME NEW l \in 0 .. K + 1, NEW m \in 0 .. K + 1, l <= m
       PROVE  W[l] <= W[m]
  <2>1. CASE m \in 0 .. K
    <3>1. l \in 0 .. K
      BY <1>11, <2>1
    <3>2. V[l] <= V[m] /\ V[l] \in Nat /\ V[m] \in Nat
      BY <1>2, <1>11, <2>1, <3>1 DEF Weighted
    <3> QED
      BY <1>6, <2>1, <3>1, <3>2
  <2>2. CASE m = K + 1 /\ l \in 0 .. K
    <3>1. V[l] <= V[K] /\ V[l] \in Nat /\ V[K] \in Nat \ {0}
      <4>1. l <= K
        BY <2>2
      <4> QED
        BY <1>2, <1>4, <2>2, <4>1 DEF Weighted
    <3>2. 100 * V[l] <= 100 * V[K] /\ 100 * V[K] <= (100 + P) * V[K]
      BY <1>8, <3>1
    <3>3. 100 * V[l] \in Nat /\ 100 * V[K] \in Nat /\ (100 + P) * V[K] \in Nat
      BY <1>1, <3>1
    <3>4. 100 * V[l] <= (100 + P) * V[K]
      BY <3>2, <3>3
    <3> QED
      BY <1>6, <1>7, <2>2, <3>4
  <2>3. CASE l = K + 1 /\ m = K + 1
    <3>1. W[K + 1] \in Nat
      BY <1>2, <1>4, <1>7, <1>8
    <3> QED
      BY <2>3, <3>1
  <2> QED
    BY <1>3, <1>11, <2>1, <2>2, <2>3
<1> QED
  BY <1>9, <1>10, <1>11 DEF Weighted, P

LEMMA Weights == \A K \in Nat : \E W : Weighted(W, K)
<1> DEFINE T == {K \in Nat : ~\E W : Weighted(W, K)}
<1>1. SUFFICES ASSUME T # {} PROVE FALSE
  OBVIOUS
<1>2. PICK K \in T : \A k \in T : K <= k
  BY <1>1, LeastOf
<1>3. CASE K = 0
  <2>1. \A l \in 0 .. 0 : l = 0
    OBVIOUS
  <2>2. Weighted([l \in 0 .. 0 |-> 1], 0)
    BY <2>1 DEF Weighted
  <2> QED
    BY <1>2, <1>3, <2>2
<1>4. CASE K # 0
  <2>1. K - 1 \in Nat /\ ~(K <= K - 1) /\ (K - 1) + 1 = K
    BY <1>2, <1>4
  <2>2. K - 1 \notin T
    BY <1>2, <2>1
  <2>3. PICK V : Weighted(V, K - 1)
    BY <2>1, <2>2
  <2>4. \E W : Weighted(W, (K - 1) + 1)
    BY <2>1, <2>3, OneMoreWeight
  <2> QED
    BY <1>2, <2>1, <2>4
<1> QED
  BY <1>3, <1>4

LevelIs(m, q) == (MEM_TOL + 1) * q <= m /\ m < (MEM_TOL + 1) * (q + 1)

LEMMA HasLevel ==
    ASSUME NEW m \in Nat
    PROVE  \E q \in Nat : LevelIs(m, q)
<1> DEFINE D == MEM_TOL + 1
           T == {k \in Nat : m < D * k}
<1>1. D \in Nat \ {0}
  BY ToleranceAssumption
<1> HIDE DEF D
<1>2. m < D * (m + 1)
  <2>1. D * (m + 1) = (m + 1) + (D - 1) * (m + 1)
    BY <1>1
  <2>2. (D - 1) * (m + 1) >= 0 /\ (D - 1) * (m + 1) \in Int
    BY <1>1
  <2> QED
    BY <2>1, <2>2
<1>3. m + 1 \in T
  BY <1>2
<1>4. PICK k \in T : \A j \in T : k <= j
  BY <1>3, LeastOf
<1>5. k # 0
  BY <1>1, <1>4
<1>6. k - 1 \in Nat /\ ~(k <= k - 1) /\ (k - 1) + 1 = k
  BY <1>4, <1>5
<1>7. ~(m < D * (k - 1))
  BY <1>4, <1>6
<1>8. D * (k - 1) \in Int
  BY <1>1, <1>6
<1>9. D * (k - 1) <= m
  BY <1>7, <1>8
<1> QED
  BY <1>4, <1>6, <1>9 DEF LevelIs, D

(* No more memory than the tolerance beyond another's is at most one level  *)
(* more; less by more than the tolerance is one level less.                *)
LEMMA LevelsApart ==
    ASSUME NEW m \in Nat, NEW k \in Nat, NEW p \in Nat, NEW q \in Nat, LevelIs(m, p), LevelIs(k, q)
    PROVE  /\ NoLarger(m, k) => p <= q + 1
           /\ Smaller(m, k) => p + 1 <= q /\ m < k
<1> DEFINE D == MEM_TOL + 1
<1>1. D \in Nat \ {0} /\ MEM_TOL = D - 1 /\ MEM_TOL \in Nat
  BY ToleranceAssumption
<1>2. D * p <= m /\ m < D * (p + 1) /\ D * q <= k /\ k < D * (q + 1)
  BY DEF LevelIs
<1> HIDE DEF D
<1>3. \A x, y \in Nat : D * x < D * y => x < y
  BY <1>1
<1>4. ASSUME NoLarger(m, k)
      PROVE  p <= q + 1
  <2>1. m <= k + (D - 1)
    BY <1>1, <1>4 DEF NoLarger
  <2>2. D * (q + 2) = D * (q + 1) + D /\ D * (q + 1) \in Nat /\ D * p \in Nat
    BY <1>1
  <2>3. D * p < D * (q + 2)
    BY <1>1, <1>2, <2>1, <2>2
  <2>4. p < q + 2
    BY <1>3, <2>3
  <2> QED
    BY <2>4
<1>5. ASSUME Smaller(m, k)
      PROVE  p + 1 <= q /\ m < k
  <2>1. m < k - (D - 1)
    BY <1>1, <1>5 DEF Smaller
  <2>2. D * (p + 1) = D * p + D /\ D * p \in Nat /\ D * (q + 1) \in Nat
    BY <1>1
  <2>3. D * (p + 1) < D * (q + 1)
    BY <1>1, <1>2, <2>1, <2>2
  <2>4. p + 1 < q + 1
    BY <1>3, <2>3
  <2> QED
    BY <1>1, <2>1, <2>4
<1> QED
  BY <1>4, <1>5

(* Dominated, of one total and one speed at 32 bits: faster or smaller.     *)
LEMMA FasterOrSmaller ==
    ASSUME NEW a \in Record, NEW b \in Record, a.total = b.total, a.speed32 = b.speed32, Dominates(a, b)
    PROVE  /\ NoSlower(a.speed, b.speed) /\ NoLarger(a.rss, b.rss)
           /\ Faster(a.speed, b.speed) \/ Smaller(a.rss, b.rss)
<1>1. a.speed32 \in Nat \ {0} /\ a.total \in Nat
  BY DEF Record
<1>2. SPEED_TOL \in Int /\ SPEED_TOL >= 0 /\ SPEED_TOL <= 100
  BY ToleranceAssumption
<1>3. ~Faster(a.speed32, b.speed32)
  <2>1. \A w \in Nat, p \in Int : p >= 0 => ~(w * 100 < w * (100 - p))
    <3>1. TAKE w \in Nat, p \in Int
    <3>2. w * (100 - p) = w * 100 - w * p
      OBVIOUS
    <3>3. p >= 0 => w * p >= 0
      OBVIOUS
    <3>4. w * p \in Int /\ w * 100 \in Int
      OBVIOUS
    <3> QED
      BY <3>2, <3>3, <3>4
  <2> QED
    BY <1>1, <1>2, <2>1 DEF Faster
<1> QED
  BY <1>1, <1>3 DEF Dominates

LEMMA WeighsLess ==
    ASSUME NEW K \in Nat, NEW W, Weighted(W, K), NEW a \in Record, NEW b \in Record,
           a.total = b.total, a.speed32 = b.speed32, Dominates(a, b),
           NEW p \in 0 .. K, NEW q \in 0 .. K, LevelIs(a.rss, p), LevelIs(b.rss, q)
    PROVE  \/ a.speed * W[p] < b.speed * W[q]
           \/ a.speed * W[p] <= b.speed * W[q] /\ a.rss < b.rss
<1> DEFINE P == SPEED_TOL
           s == a.speed
           t == b.speed
           v == W[p]
           w == W[q]
<1>1. P \in Int /\ 0 <= P /\ P <= 100
  BY ToleranceAssumption
<1>2. s \in Nat \ {0} /\ t \in Nat \ {0} /\ a.rss \in Nat /\ b.rss \in Nat
  BY DEF Record
<1>3. v \in Nat \ {0} /\ w \in Nat \ {0}
  BY DEF Weighted
<1>4. /\ NoSlower(s, t) /\ NoLarger(a.rss, b.rss)
      /\ Faster(s, t) \/ Smaller(a.rss, b.rss)
  BY FasterOrSmaller
<1>5. CASE Faster(s, t)
  <2>1. s * 100 < t * (100 - P)
    BY <1>5 DEF Faster
  <2>2. p <= q + 1
    BY <1>2, <1>4, LevelsApart
  <2>3. CASE p <= q
    <3>1. v <= w
      BY <2>3 DEF Weighted
    <3>2. s < t
      <4>1. t * (100 - P) = t * 100 - t * P /\ t * P >= 0 /\ t * P \in Int
        BY <1>1, <1>2
      <4> QED
        BY <1>2, <2>1, <4>1
    <3> HIDE DEF s, t, v, w
    <3>3. s * v <= s * w /\ s * w < t * w
      BY <1>2, <1>3, <3>1, <3>2
    <3>4. s * v \in Int /\ s * w \in Int /\ t * w \in Int
      BY <1>2, <1>3
    <3>5. s * v < t * w
      BY <3>3, <3>4
    <3> QED
      BY <3>5 DEF s, t, v, w
  <2>4. CASE p = q + 1
    <3>1. 100 * v = (100 + P) * w
      BY <2>4 DEF Weighted
    <3> HIDE DEF s, t, v, w, P
    <3>2. s * (100 + P) < t * 100
      <4>1. (s * 100) * (100 + P) < (t * (100 - P)) * (100 + P)
        BY <1>1, <1>2, <2>1
      <4>2. (t * (100 - P)) * (100 + P) = (t * 100) * 100 - t * (P * P)
        BY <1>1, <1>2
      <4>3. t * (P * P) >= 0 /\ t * (P * P) \in Int
        BY <1>1, <1>2
      <4>4. (s * 100) * (100 + P) = (s * (100 + P)) * 100
        BY <1>1, <1>2
      <4>5. s * (100 + P) \in Int /\ t * 100 \in Int
        BY <1>1, <1>2
      <4>6. (s * (100 + P)) * 100 < (t * 100) * 100
        BY <4>1, <4>2, <4>3, <4>4, <4>5
      <4> QED
        BY <4>5, <4>6
    <3>3. (s * (100 + P)) * w < (t * 100) * w
      BY <1>1, <1>2, <1>3, <3>2
    <3>4. (s * v) * 100 = s * (100 * v) /\ s * ((100 + P) * w) = (s * (100 + P)) * w
          /\ (t * 100) * w = (t * w) * 100
      BY <1>1, <1>2, <1>3
    <3>5. (s * v) * 100 < (t * w) * 100
      BY <3>1, <3>3, <3>4
    <3>6. s * v \in Int /\ t * w \in Int
      BY <1>2, <1>3
    <3>7. s * v < t * w
      BY <3>5, <3>6
    <3> QED
      BY <3>7 DEF s, t, v, w
  <2> QED
    BY <2>2, <2>3, <2>4
<1>6. CASE Smaller(a.rss, b.rss)
  <2>1. p + 1 <= q /\ a.rss < b.rss
    BY <1>2, <1>6, LevelsApart
  <2>2. p + 1 \in 0 .. K
    BY <2>1
  <2> DEFINE u == W[p + 1]
  <2>3. 100 * u = (100 + P) * v /\ u <= w /\ u \in Nat \ {0}
    BY <2>1, <2>2 DEF Weighted
  <2>4. s * 100 <= t * (100 + P)
    BY <1>4 DEF NoSlower
  <2> HIDE DEF s, t, u, v, w, P
  <2>5. (s * 100) * v <= (t * (100 + P)) * v
    BY <1>1, <1>2, <1>3, <2>4
  <2>6. (s * v) * 100 = (s * 100) * v /\ (t * (100 + P)) * v = t * ((100 + P) * v) /\ t * (100 * u) = (t * u) * 100
    BY <1>1, <1>2, <1>3, <2>3
  <2>7. (s * v) * 100 <= (t * u) * 100
    BY <2>3, <2>5, <2>6
  <2>8. t * u <= t * w
    BY <1>2, <1>3, <2>3
  <2>9. s * v \in Int /\ t * u \in Int /\ t * w \in Int
    BY <1>2, <1>3, <2>3
  <2>10. s * v <= t * w
    BY <2>7, <2>8, <2>9
  <2> QED
    BY <2>1, <2>10 DEF s, t, v, w
<1> QED
  BY <1>4, <1>5, <1>6

LEMMA Bounded ==
    ASSUME NEW S, IsFiniteSet(S), NEW f \in [S -> Nat]
    PROVE  \E K \in Nat : \A x \in S : f[x] <= K
<1> DEFINE c == Cardinality(S)
<1>1. c \in Nat
  BY FS_CardinalityType
<1>2. PICK g : g \in Bijection(1 .. c, S)
  BY FS_CardinalityType DEF ExistsBijection
<1> HIDE DEF c
<1>3. g \in [1 .. c -> S] /\ \A x \in S : \E i \in 1 .. c : g[i] = x
  BY <1>2 DEF Bijection, Surjection
<1> DEFINE Under(j) == \E K \in Nat : \A i \in 1 .. j : f[g[i]] <= K
           T == {j \in 0 .. c : ~Under(j)}
<1>4. SUFFICES ASSUME T # {} PROVE FALSE
  <2>1. SUFFICES ASSUME T = {} PROVE \E K \in Nat : \A x \in S : f[x] <= K
    OBVIOUS
  <2>2. Under(c)
    <3>1. c \in 0 .. c /\ c \notin T
      BY <1>1, <2>1
    <3> QED
      BY <3>1
  <2> QED
    BY <1>3, <2>2
<1>5. T \in SUBSET Nat
  BY <1>1
<1>6. PICK j \in T : \A k \in T : j <= k
  BY <1>4, <1>5, LeastOf
<1>7. j # 0
  <2>1. Under(0)
    BY SMT
  <2> QED
    BY <1>6, <2>1
<1>8. j \in 1 .. c /\ j - 1 \in 0 .. c /\ ~(j <= j - 1)
  BY <1>1, <1>6, <1>7
<1>9. PICK K \in Nat : \A i \in 1 .. j - 1 : f[g[i]] <= K
  BY <1>6, <1>8
<1>10. f[g[j]] \in Nat
  BY <1>3, <1>8
<1>11. PICK L \in Nat : K <= L /\ f[g[j]] <= L
  BY <1>10
<1>12. \A i \in 1 .. j : i \in 1 .. j - 1 \/ i = j
  BY <1>8
<1>13. \A i \in 1 .. j : i \in 1 .. c
  BY <1>1, <1>8
<1>14. \A i \in 1 .. j : f[g[i]] \in Nat
  BY <1>3, <1>13
<1>15. \A i \in 1 .. j : f[g[i]] <= L
  BY <1>9, <1>11, <1>12, <1>14
<1>16. Under(j)
  BY <1>15
<1> QED
  BY <1>6, <1>16

(* Of one width, no designs each have a dominator among them: take of those *)
(* of the least total, those of the least weight, one of the least memory. *)
LEMMA NoRing ==
    ASSUME R \in [Ids -> Measured], \A x, y \in Ids : R[x].speed32 = R[y].speed32,
           NEW T \in SUBSET Ids, \A b \in T : \E a \in T : Dom(a, b)
    PROVE  T = {}
<1> SUFFICES ASSUME T # {} PROVE FALSE
  OBVIOUS
<1>1. \A x \in Ids : R[x] \in Record /\ R[x].total \in Nat /\ R[x].rss \in Nat /\ R[x].speed \in Nat
  <2>1. \A x \in Ids : R[x] \in Record
    BY ListAssumption
  <2> QED
    BY <2>1 DEF Record
<1> DEFINE lev == [x \in Ids |-> CHOOSE q \in Nat : LevelIs(R[x].rss, q)]
<1>2. \A x \in Ids : lev[x] \in Nat /\ LevelIs(R[x].rss, lev[x])
  BY <1>1, HasLevel
<1>3. lev \in [Ids -> Nat]
  BY <1>2
<1> HIDE DEF lev
<1>4. PICK K \in Nat : \A x \in Ids : lev[x] <= K
  BY <1>3, Bounded, ListAssumption
<1>5. \A x \in Ids : lev[x] \in 0 .. K
  BY <1>2, <1>4
<1>6. PICK W : Weighted(W, K)
  BY Weights
<1> DEFINE wt == [x \in Ids |-> R[x].speed * W[lev[x]]]
<1>7. \A x \in Ids : wt[x] \in Nat
  <2>1. \A x \in Ids : W[lev[x]] \in Nat
    BY <1>5, <1>6 DEF Weighted
  <2> QED
    BY <1>1, <2>1
<1>8. \A a, b \in Ids : Dom(a, b) /\ R[a].total = R[b].total =>
          wt[a] < wt[b] \/ (wt[a] <= wt[b] /\ R[a].rss < R[b].rss)
  BY <1>1, <1>2, <1>5, <1>6, WeighsLess DEF Dom
<1>9. \A a, b \in Ids : Dom(a, b) => R[a].total <= R[b].total
  BY NoMoreTotal DEF Dom
<1> HIDE DEF wt
<1>10. PICK b1 \in T : \A x \in T : R[b1].total <= R[x].total
  <2> DEFINE U == {R[x].total : x \in T}
  <2>1. U \in SUBSET Nat /\ U # {}
    BY <1>1
  <2>2. PICK u \in U : \A v \in U : u <= v
    BY <2>1, LeastOf
  <2>3. PICK z \in T : u = R[z].total
    OBVIOUS
  <2>4. \A x \in T : R[x].total \in U
    OBVIOUS
  <2> HIDE DEF U
  <2> QED
    BY <2>2, <2>3, <2>4
<1> DEFINE T1 == {x \in T : R[x].total = R[b1].total}
<1>11. PICK b2 \in T1 : \A x \in T1 : wt[b2] <= wt[x]
  <2> DEFINE U == {wt[x] : x \in T1}
  <2>1. U \in SUBSET Nat /\ U # {}
    BY <1>7
  <2>2. PICK u \in U : \A v \in U : u <= v
    BY <2>1, LeastOf
  <2>3. PICK z \in T1 : u = wt[z]
    OBVIOUS
  <2>4. \A x \in T1 : wt[x] \in U
    OBVIOUS
  <2> HIDE DEF U
  <2> QED
    BY <2>2, <2>3, <2>4
<1> DEFINE T2 == {x \in T1 : wt[x] = wt[b2]}
<1>12. PICK b \in T2 : \A x \in T2 : R[b].rss <= R[x].rss
  <2> DEFINE U == {R[x].rss : x \in T2}
  <2>1. U \in SUBSET Nat /\ U # {}
    BY <1>1
  <2>2. PICK u \in U : \A v \in U : u <= v
    BY <2>1, LeastOf
  <2>3. PICK z \in T2 : u = R[z].rss
    OBVIOUS
  <2>4. \A x \in T2 : R[x].rss \in U
    OBVIOUS
  <2> HIDE DEF U
  <2> QED
    BY <2>2, <2>3, <2>4
<1>13. PICK a \in T : Dom(a, b)
  OBVIOUS
<1>14. a \in Ids /\ b \in Ids /\ R[a].total \in Nat /\ R[b].total \in Nat
  BY <1>1
<1>15. R[a].total = R[b].total /\ a \in T1
  BY <1>9, <1>10, <1>13, <1>14
<1>16. wt[a] < wt[b] \/ (wt[a] <= wt[b] /\ R[a].rss < R[b].rss)
  BY <1>8, <1>13, <1>14, <1>15
<1>17. wt[b] <= wt[a] /\ wt[b] = wt[b2] /\ wt[a] \in Nat /\ wt[b] \in Nat
  BY <1>7, <1>11, <1>14, <1>15
<1>18. wt[a] = wt[b] /\ R[a].rss < R[b].rss
  BY <1>16, <1>17
<1>19. R[b].rss <= R[a].rss /\ R[a].rss \in Nat /\ R[b].rss \in Nat
  BY <1>1, <1>12, <1>14, <1>15, <1>17, <1>18
<1> QED
  BY <1>18, <1>19

LEMMA NothingLeftAtOneWidth == ParetoInv => Peeling!NoCyclesAtOneWidth
<1> SUFFICES ASSUME ParetoInv, stage = "peel", Peeling!Last(F) = <<>>,
                    \A x, y \in Ids : R[x].speed32 = R[y].speed32
             PROVE  Peeling!Placed = Ids
  BY DEF Peeling!NoCyclesAtOneWidth
<1>1. PeelFine
  BY DEF ParetoInv, FrontsInv
<1>2. F \in Seq(Seq(Ids)) /\ Len(F) \in Nat \ {0} /\ F[Len(F)] = <<>> /\ F # <<>> /\ R \in [Ids -> Measured]
  BY <1>1, LastFront DEF PeelFine, LastListed
<1>3. \A y : In(F, Len(F), y) <=> In(F, Len(F) - 1, y)
  <2>1. Len(F) - 1 \in 0 .. Len(F) - 1
    BY <1>2
  <2> QED
    BY <1>2, <2>1, FrontOf DEF ButLast
<1> DEFINE T == Ids \ Members(F, Len(F))
<1>4. ASSUME NEW b \in T
      PROVE  \E a \in T : Dom(a, b)
  <2>1. ~(DomOf(b) \subseteq Members(F, Len(F) - 1))
    BY <1>1, <1>4 DEF PeelFine, Emptied, Members
  <2> QED
    BY <1>3, <2>1 DEF DomOf, Members
<1>5. T = {}
  <2>1. T \in SUBSET Ids
    OBVIOUS
  <2> HIDE DEF T
  <2> QED
    BY <1>2, <1>4, <2>1, NoRing
<1> QED
  BY <1>2, <1>5, PlacedAre DEF Members

LEMMA OnceIsOnce == ParetoInv => Peeling!EachOnce
<1> SUFFICES ASSUME ParetoInv, stage = "done", NEW y \in Ids
             PROVE  Cardinality({p \in (1 .. Len(F)) \X (1 .. Cardinality(Ids)) :
                                    p[2] \in DOMAIN F[p[1]] /\ F[p[1]][p[2]] = y}) = 1
  BY SameSize DEF Peeling!EachOnce
<1> DEFINE P == {p \in (1 .. Len(F)) \X (1 .. Cardinality(Ids)) : p[2] \in DOMAIN F[p[1]] /\ F[p[1]][p[2]] = y}
<1>1. F \in Seq(Seq(Ids)) /\ Once(F) /\ In(F, Len(F), y) /\ DOMAIN F = 1 .. Len(F)
  BY DEF ParetoInv, FrontsInv, DoneFine
<1>2. PICK k \in 1 .. Len(F) : \E i \in DOMAIN F[k] : F[k][i] = y
  BY <1>1 DEF In
<1>3. PICK i \in DOMAIN F[k] : F[k][i] = y
  BY <1>2
<1>4. Cardinality(Ids) \in Nat
  BY ListAssumption, FS_CardinalityType
<1>5. F[k] \in Seq(Ids) /\ k \in DOMAIN F
  BY <1>1, <1>2
<1>6. Len(F[k]) \in Nat /\ DOMAIN F[k] = 1 .. Len(F[k]) /\ F[k] \in [1 .. Len(F[k]) -> Ids]
  BY <1>5
<1>7. F[k] \in Injection(1 .. Len(F[k]), Ids)
  <2>1. \A a, b \in DOMAIN F[k] : F[k][a] = F[k][b] => a = b
    BY <1>1, <1>5 DEF Once
  <2> QED
    BY <1>6, <2>1 DEF Injection, IsInjective
<1>8. Cardinality(1 .. Len(F[k])) = Len(F[k]) /\ Cardinality(1 .. Len(F[k])) <= Cardinality(Ids)
  BY <1>6, <1>7, ListAssumption, FS_Injection, FS_Interval
<1>9. i \in 1 .. Cardinality(Ids)
  BY <1>3, <1>4, <1>6, <1>8
<1>10. <<k, i>> \in P
  BY <1>2, <1>3, <1>9
<1>11. \A p \in P : p = <<k, i>>
  <2>1. TAKE p \in P
  <2>2. p[1] \in DOMAIN F /\ p[2] \in DOMAIN F[p[1]] /\ F[p[1]][p[2]] = y /\ p = <<p[1], p[2]>>
    BY <1>1
  <2>3. p[1] = k /\ p[2] = i
    BY <1>1, <1>3, <1>5, <2>2 DEF Once
  <2> QED
    BY <2>2, <2>3
<1> HIDE DEF P
<1>12. P = {<<k, i>>}
  BY <1>10, <1>11
<1>13. Cardinality(P) = 1
  BY <1>12, FS_Singleton
<1> QED
  BY <1>13 DEF P

LEMMA RankedIsRanked == ParetoInv => Peeling!RankedByDominance
<1> SUFFICES ASSUME ParetoInv, stage = "done", NEW k \in DOMAIN F, NEW y \in Peeling!Range(F[k]), NEW x \in Ids,
                    Peeling!Dom(x, y)
             PROVE  \/ \E j \in 1 .. k - 1 : x \in Peeling!Range(F[j])
                    \/ k = Len(F) /\ x \in Peeling!Range(F[k])
  BY DEF Peeling!RankedByDominance
<1>1. DoneFine
  BY DEF ParetoInv, FrontsInv
<1>2. Dom(x, y)
  BY DEF Peeling!Dom, Dom, Peeling!Dominates, Dominates, Peeling!NoSlower, NoSlower, Peeling!Faster, Faster,
         Peeling!NoLarger, NoLarger, Peeling!Smaller, Smaller
<1>3. PICK i \in DOMAIN F[k] : F[k][i] = y
  BY DEF Peeling!Range
<1>4. In(F, k - 1, x) \/ (k = Len(F) /\ \E j \in DOMAIN F[k] : F[k][j] = x)
  BY <1>1, <1>2, <1>3 DEF DoneFine, Ranked
<1>5. \A j : x \in Peeling!Range(F[j]) <=> \E m \in DOMAIN F[j] : F[j][m] = x
  BY DEF Peeling!Range
<1> QED
  BY <1>4, <1>5 DEF In

(* fronts() returns every design once, each after all that dominate it but  *)
(* for a ring's, which come last; and with one width there is no ring,     *)
(* although dominance is not transitive.                                   *)
THEOREM FrontsSortAlways == ParetoSpec => []FrontsSort
<1>1. ParetoInv => FrontsSort
  BY NothingLeftAtOneWidth, OnceIsOnce, RankedIsRanked DEF FrontsSort, Peeling!FrontsSort
<1> QED
  BY <1>1, ParetoInductive, PTL

-----------------------------------------------------------------------------
(* ---- Listed: a finite set in an order ---- *)

(* upTo orders S: it has each element, up to itself, and of two the one or  *)
(* the other.                                                              *)
Orders(S, u) ==
    /\ \A i \in S : i \in u[i] /\ u[i] \subseteq S
    /\ \A i, j \in S : i \in u[j] => u[i] \subseteq u[j]
    /\ \A i, j \in S : i \in u[j] /\ j \in u[i] => i = j
    /\ \A i, j \in S : i \in u[j] \/ j \in u[i]

ListedLaw(S, u, s) ==
    /\ DOMAIN s = 1 .. Cardinality(S) /\ Cardinality(S) \in Nat
    /\ s \in Seq(S) /\ Len(s) = Cardinality(S)
    /\ \A k \in DOMAIN s : s[k] \in S /\ Cardinality(u[s[k]]) = k
    /\ \A i \in S : \E k \in DOMAIN s : s[k] = i
    /\ \A k, l \in DOMAIN s : k <= l <=> s[k] \in u[s[l]]

LEMMA PlacesApart ==
    ASSUME NEW S, NEW u, IsFiniteSet(S), Orders(S, u), NEW i \in S, NEW j \in S, i # j, i \in u[j]
    PROVE  Cardinality(u[i]) < Cardinality(u[j])
<1>1. u[i] \subseteq u[j] /\ u[j] \subseteq S /\ j \in u[j] /\ j \notin u[i]
  BY DEF Orders
<1>2. IsFiniteSet(u[j])
  BY <1>1, FS_Subset
<1>3. IsFiniteSet(u[i]) /\ Cardinality(u[i]) <= Cardinality(u[j]) /\ Cardinality(u[i]) # Cardinality(u[j])
  BY <1>1, <1>2, FS_Subset
<1>4. Cardinality(u[i]) \in Nat /\ Cardinality(u[j]) \in Nat
  BY <1>2, <1>3, FS_CardinalityType
<1> QED
  BY <1>3, <1>4

LEMMA ListedIs ==
    ASSUME NEW S, NEW u, IsFiniteSet(S), Orders(S, u)
    PROVE  ListedLaw(S, u, Listed(S, u))
<1> DEFINE c == Cardinality(S)
           place == [i \in S |-> Cardinality(u[i])]
           s == [k \in 1 .. c |-> CHOOSE i \in S : place[i] = k]
<1>1. c \in Nat /\ IsFiniteSet(1 .. c) /\ Cardinality(1 .. c) = c
  BY FS_CardinalityType, FS_Interval
<1>2. \A i \in S : place[i] = Cardinality(u[i]) /\ place[i] \in 1 .. c
  <2>1. TAKE i \in S
  <2>2. u[i] \subseteq S /\ i \in u[i]
    BY DEF Orders
  <2>3. IsFiniteSet(u[i]) /\ Cardinality(u[i]) <= c
    BY <2>2, FS_Subset
  <2>4. Cardinality(u[i]) \in Nat /\ Cardinality(u[i]) # 0
    BY <2>2, <2>3, FS_CardinalityType, FS_EmptySet
  <2> HIDE DEF c
  <2> QED
    BY <1>1, <2>3, <2>4
<1>3. \A i, j \in S : i # j /\ i \in u[j] => place[i] < place[j]
  BY <1>2, PlacesApart
<1> HIDE DEF place
<1>4. \A i, j \in S : place[i] = place[j] => i = j
  <2>1. SUFFICES ASSUME NEW i \in S, NEW j \in S, i # j
                 PROVE  place[i] # place[j]
    OBVIOUS
  <2>2. i \in u[j] \/ j \in u[i]
    BY DEF Orders
  <2> QED
    BY <1>1, <1>2, <1>3, <2>1, <2>2
<1>5. place \in [S -> 1 .. c]
  BY <1>2 DEF place
<1> HIDE DEF c
<1>6. place \in Injection(S, 1 .. c)
  BY <1>4, <1>5 DEF Injection, IsInjective
<1>7. place \in Surjection(S, 1 .. c)
  BY <1>1, <1>6, FS_Injection DEF c
<1>8. \A k \in 1 .. c : \E i \in S : place[i] = k
  BY <1>7 DEF Surjection
<1>9. \A k \in 1 .. c : s[k] \in S /\ place[s[k]] = k
  BY <1>8
<1>10. s \in [1 .. c -> S] /\ DOMAIN s = 1 .. c
  BY <1>9
<1>11. s = Listed(S, u)
  BY DEF Listed, c, place
<1> HIDE DEF s
<1>12. s \in Seq(S) /\ Len(s) = c
  BY <1>1, <1>10
<1>13. \A i \in S : \E k \in 1 .. c : s[k] = i
  <2>1. TAKE i \in S
  <2>2. place[i] \in 1 .. c
    BY <1>2
  <2>3. s[place[i]] \in S /\ place[s[place[i]]] = place[i]
    BY <1>9, <2>2
  <2>4. s[place[i]] = i
    BY <1>4, <2>3
  <2> QED
    BY <2>2, <2>4
<1>14. ASSUME NEW k \in 1 .. c, NEW l \in 1 .. c
       PROVE  k <= l <=> s[k] \in u[s[l]]
  <2>1. s[k] \in S /\ s[l] \in S /\ place[s[k]] = k /\ place[s[l]] = l
    BY <1>9
  <2>2. s[k] \in u[s[l]] \/ s[l] \in u[s[k]]
    BY <2>1 DEF Orders
  <2>3. s[k] \in u[s[l]] /\ s[k] # s[l] => k < l
    BY <1>3, <2>1
  <2>4. s[l] \in u[s[k]] /\ s[k] # s[l] => l < k
    BY <1>3, <2>1
  <2>5. s[k] = s[l] => k = l /\ s[k] \in u[s[l]]
    BY <2>1, <2>2
  <2> QED
    BY <1>1, <2>2, <2>3, <2>4, <2>5
<1> QED
  BY <1>1, <1>2, <1>9, <1>10, <1>11, <1>12, <1>13, <1>14 DEF ListedLaw, c


LEMMA AscendingIs ==
    ASSUME NEW S \in SUBSET Nat, IsFiniteSet(S)
    PROVE  /\ DOMAIN Ascending(S) = 1 .. Cardinality(S) /\ Cardinality(S) \in Nat
           /\ Ascending(S) \in Seq(S) /\ Len(Ascending(S)) = Cardinality(S)
           /\ \A i \in S : \E k \in DOMAIN Ascending(S) : Ascending(S)[k] = i
           /\ \A k, l \in DOMAIN Ascending(S) : k <= l <=> Ascending(S)[k] <= Ascending(S)[l]
           /\ \A k \in DOMAIN Ascending(S) : 0 \notin S => k <= Ascending(S)[k]
<1> DEFINE u == [i \in S |-> {j \in S : j <= i}]
           s == Listed(S, u)
<1>1. \A i \in S : i \in Nat
  OBVIOUS
<1>2. Orders(S, u)
  <2>1. \A i \in S : u[i] = {j \in S : j <= i}
    OBVIOUS
  <2> HIDE DEF u
  <2>2. ASSUME NEW i \in S
        PROVE  i \in u[i] /\ u[i] \subseteq S
    BY <1>1, <2>1
  <2>3. ASSUME NEW i \in S, NEW j \in S
        PROVE  i \in u[j] <=> i <= j
    BY <2>1
  <2>4. ASSUME NEW i \in S, NEW j \in S, i \in u[j], NEW k \in u[i]
        PROVE  k \in u[j]
    <3>1. k \in S /\ k <= i /\ i <= j
      BY <2>1, <2>4
    <3>2. k \in Nat /\ i \in Nat /\ j \in Nat
      BY <1>1, <3>1
    <3>3. k <= j
      BY <3>1, <3>2
    <3> QED
      BY <2>1, <3>1, <3>3
  <2>5. ASSUME NEW i \in S, NEW j \in S
        PROVE  (i \in u[j] \/ j \in u[i]) /\ (i \in u[j] /\ j \in u[i] => i = j)
    <3>1. i \in Nat /\ j \in Nat
      BY <1>1
    <3> QED
      BY <2>3, <3>1
  <2> QED
    BY <2>2, <2>4, <2>5 DEF Orders
<1>3. ListedLaw(S, u, s)
  BY <1>2, ListedIs
<1>4. Ascending(S) = s
  BY DEF Ascending
<1> HIDE DEF s
<1>5. \A k, l \in DOMAIN s : k <= l <=> s[k] <= s[l]
  <2>1. SUFFICES ASSUME NEW k \in DOMAIN s, NEW l \in DOMAIN s
                 PROVE  k <= l <=> s[k] <= s[l]
    OBVIOUS
  <2>2. s[k] \in S /\ s[l] \in S /\ (k <= l <=> s[k] \in u[s[l]])
    BY <1>3 DEF ListedLaw
  <2> QED
    BY <2>2
<1>6. ASSUME NEW k \in DOMAIN s, 0 \notin S
      PROVE  k <= s[k]
  <2>1. s[k] \in S /\ s[k] \in Nat /\ Cardinality(u[s[k]]) = k
    BY <1>3 DEF ListedLaw
  <2>2. ASSUME NEW j \in u[s[k]]
        PROVE  j \in 1 .. s[k]
    <3>1. j \in S /\ j <= s[k]
      BY <2>1
    <3>2. j \in Nat /\ j # 0
      BY <1>1, <1>6, <3>1
    <3> QED
      BY <2>1, <3>1, <3>2
  <2>3. IsFiniteSet(1 .. s[k]) /\ Cardinality(1 .. s[k]) = s[k]
    BY <2>1, FS_Interval
  <2> QED
    BY <2>1, <2>2, <2>3, FS_Subset
<1> QED
  BY <1>3, <1>4, <1>5, <1>6 DEF ListedLaw

LEMMA PickedIs ==
    ASSUME NEW T, NEW s \in Seq(T), NEW at \in Seq(DOMAIN s)
    PROVE  /\ Picked(s, at) \in Seq(T) /\ Len(Picked(s, at)) = Len(at)
           /\ DOMAIN Picked(s, at) = 1 .. Len(at) /\ DOMAIN at = 1 .. Len(at) /\ Len(at) \in Nat
           /\ \A k \in 1 .. Len(at) : at[k] \in DOMAIN s /\ Picked(s, at)[k] = s[at[k]]
<1>1. DOMAIN at = 1 .. Len(at) /\ Len(at) \in Nat
  OBVIOUS
<1>2. \A k \in 1 .. Len(at) : at[k] \in DOMAIN s /\ s[at[k]] \in T
  OBVIOUS
<1> DEFINE f == [k \in DOMAIN at |-> s[at[k]]]
<1>3. f \in Seq(T) /\ Len(f) = Len(at) /\ \A k \in 1 .. Len(at) : f[k] = s[at[k]]
  BY <1>1, <1>2
<1>4. Picked(s, at) = <<>> \o f
  BY DEF Picked
<1> HIDE DEF f
<1>5. <<>> \o f = f
  BY <1>3
<1> QED
  BY <1>1, <1>2, <1>3, <1>4, <1>5

(* A list's elements at some of its places come no later than they did.     *)
LEMMA AtPlaces ==
    ASSUME NEW T, NEW s \in Seq(T), NEW P \in SUBSET DOMAIN s
    PROVE  LET r == Picked(s, Ascending(P))
           IN  /\ r \in Seq(T)
               /\ \A k \in DOMAIN r : \E p \in P : r[k] = s[p]
               /\ \A p \in P : \E k \in DOMAIN r : k <= p /\ r[k] = s[p]
<1> DEFINE a == Ascending(P)
           r == Picked(s, a)
<1>1. DOMAIN s = 1 .. Len(s) /\ Len(s) \in Nat
  OBVIOUS
<1>2. P \in SUBSET Nat /\ 0 \notin P /\ IsFiniteSet(P)
  <2>1. IsFiniteSet(1 .. Len(s))
    BY <1>1, FS_Interval
  <2> QED
    BY <1>1, <2>1, FS_Subset
<1>3. /\ a \in Seq(P) /\ DOMAIN a = 1 .. Len(a)
      /\ \A i \in P : \E k \in DOMAIN a : a[k] = i
      /\ \A k \in DOMAIN a : k <= a[k]
  BY <1>2, AscendingIs
<1> HIDE DEF a
<1>4. a \in Seq(DOMAIN s)
  BY <1>3
<1>5. /\ r \in Seq(T) /\ DOMAIN r = DOMAIN a
      /\ \A k \in DOMAIN a : r[k] = s[a[k]]
  BY <1>4, PickedIs, SMTT(30)
<1> HIDE DEF r
<1>6. \A k \in DOMAIN r : \E p \in P : r[k] = s[p]
  BY <1>3, <1>5
<1>7. \A p \in P : \E k \in DOMAIN r : k <= p /\ r[k] = s[p]
  <2>1. TAKE p \in P
  <2>2. PICK k \in DOMAIN a : a[k] = p
    BY <1>3
  <2> QED
    BY <1>3, <1>5, <2>2
<1> QED
  BY <1>5, <1>6, <1>7 DEF r, a

LEMMA KeptIs ==
    ASSUME NEW T, NEW s \in Seq(T), NEW K
    PROVE  Kept(s, K) \in Seq(T) /\ Range(Kept(s, K)) = Range(s) \cap K
<1> DEFINE P == {k \in DOMAIN s : s[k] \in K}
           r == Picked(s, Ascending(P))
<1>1. P \in SUBSET DOMAIN s
  OBVIOUS
<1> HIDE DEF P
<1>2. /\ r \in Seq(T)
      /\ \A k \in DOMAIN r : \E p \in P : r[k] = s[p]
      /\ \A p \in P : \E k \in DOMAIN r : k <= p /\ r[k] = s[p]
  BY <1>1, AtPlaces
<1>3. Kept(s, K) = r
  BY DEF Kept, P
<1> HIDE DEF r
<1>4. Range(r) = {s[p] : p \in P}
  BY <1>2 DEF Range
<1>5. {s[p] : p \in P} = Range(s) \cap K
  BY DEF P, Range
<1> QED
  BY <1>2, <1>3, <1>4, <1>5

(* Every element of s is in Uniq(s), and no later.                          *)
LEMMA UniqIs ==
    ASSUME NEW T, NEW s \in Seq(T)
    PROVE  /\ Uniq(s) \in Seq(T) /\ Range(Uniq(s)) = Range(s)
           /\ \A m \in DOMAIN s : \E k \in DOMAIN Uniq(s) : k <= m /\ Uniq(s)[k] = s[m]
<1> DEFINE P == {k \in DOMAIN s : \A j \in 1 .. k - 1 : s[j] # s[k]}
           r == Picked(s, Ascending(P))
<1>0. DOMAIN s = 1 .. Len(s) /\ Len(s) \in Nat
  OBVIOUS
<1>1. P \in SUBSET DOMAIN s
  OBVIOUS
<1>2. \A m \in DOMAIN s : \E p \in P : p <= m /\ s[p] = s[m]
  <2>1. TAKE m \in DOMAIN s
  <2> DEFINE E == {j \in DOMAIN s : s[j] = s[m]}
  <2>2. E \in SUBSET Nat /\ E # {}
    BY <1>0
  <2>3. PICK p \in E : \A j \in E : p <= j
    BY <2>2, LeastOf
  <2>4. p \in DOMAIN s /\ s[p] = s[m] /\ p <= m
    BY <2>3
  <2>5. \A j \in 1 .. p - 1 : s[j] # s[p]
    BY <1>0, <2>3, <2>4
  <2> QED
    BY <2>4, <2>5
<1> HIDE DEF P
<1>3. /\ r \in Seq(T)
      /\ \A k \in DOMAIN r : \E p \in P : r[k] = s[p]
      /\ \A p \in P : \E k \in DOMAIN r : k <= p /\ r[k] = s[p]
  BY <1>1, AtPlaces
<1>4. Uniq(s) = r
  BY DEF Uniq, P
<1> HIDE DEF r
<1>5. \A m \in DOMAIN s : \E k \in DOMAIN r : k <= m /\ r[k] = s[m]
  <2>1. TAKE m \in DOMAIN s
  <2>2. PICK p \in P : p <= m /\ s[p] = s[m]
    BY <1>2
  <2>3. PICK k \in DOMAIN r : k <= p /\ r[k] = s[p]
    BY <1>3
  <2>4. k \in Nat /\ p \in Nat /\ m \in Nat
    <3>1. DOMAIN r = 1 .. Len(r)
      BY <1>3
    <3>2. p \in DOMAIN s
      BY <1>1
    <3> QED
      BY <1>0, <3>1, <3>2
  <2> QED
    BY <2>2, <2>3, <2>4
<1>6. Range(r) = Range(s)
  BY <1>1, <1>3, <1>5 DEF Range
<1> QED
  BY <1>3, <1>4, <1>5, <1>6

LEMMA LivingIs ==
    ASSUME NEW s \in Seq(Bred)
    PROVE  Living(s) \in Seq(Bred) /\ Range(Living(s)) = Range(s) \ dead
<1>1. Uniq(s) \in Seq(Bred) /\ Range(Uniq(s)) = Range(s)
  BY UniqIs
<1>2. Range(s) \subseteq Bred
  BY DEF Range
<1> QED
  BY <1>1, <1>2, KeptIs DEF Living

LEMMA SortedByIs ==
    ASSUME NEW T, NEW s \in Seq(T), NEW key, \A x \in Range(s) : key[x] \in Int
    PROVE  /\ SortedBy(s, key) \in Seq(T) /\ Range(SortedBy(s, key)) = Range(s)
           /\ Len(SortedBy(s, key)) = Len(s)
           /\ \A k, l \in DOMAIN SortedBy(s, key) :
                 k <= l => key[SortedBy(s, key)[k]] <= key[SortedBy(s, key)[l]]
<1> DEFINE D == DOMAIN s
           by == Picked(key, s)
           u == [k \in D |-> {j \in D : by[j] < by[k] \/ (by[j] = by[k] /\ j <= k)}]
           a == Listed(D, u)
           r == Picked(s, a)
<1>1. D = 1 .. Len(s) /\ Len(s) \in Nat /\ IsFiniteSet(D) /\ Cardinality(D) = Len(s)
  <2>1. D = 1 .. Len(s) /\ Len(s) \in Nat
    OBVIOUS
  <2>2. IsFiniteSet(1 .. Len(s)) /\ Cardinality(1 .. Len(s)) = Len(s)
    BY <2>1, FS_Interval
  <2> QED
    BY <2>1, <2>2
<1>2. \A k \in D : by[k] = key[s[k]] /\ by[k] \in Int
  <2>1. \A k \in D : key[s[k]] \in Int
    BY DEF Range
  <2> DEFINE f == [k \in DOMAIN s |-> key[s[k]]]
  <2>2. f \in Seq(Int) /\ \A k \in D : f[k] = key[s[k]]
    BY <1>1, <2>1
  <2>3. by = <<>> \o f
    BY DEF Picked
  <2> HIDE DEF f
  <2>4. <<>> \o f = f
    BY <2>2
  <2> QED
    BY <2>1, <2>2, <2>3, <2>4
<1>3. SortedBy(s, key) = r
  BY DEF SortedBy
<1> HIDE DEF by, r
<1>4. \A k \in D : k \in Int
  BY <1>1
<1>5. Orders(D, u)
  <2> HIDE DEF D
  <2>1. \A i \in D : i \in u[i] /\ u[i] \subseteq D
    BY <1>2, <1>4
  <2>2. ASSUME NEW i \in D, NEW j \in D, i \in u[j], NEW k \in u[i]
        PROVE  k \in u[j]
    <3>1. k \in D /\ by[i] \in Int /\ by[j] \in Int /\ by[k] \in Int /\ i \in Int /\ j \in Int /\ k \in Int
      BY <1>2, <1>4, <2>2
    <3>2. by[i] < by[j] \/ (by[i] = by[j] /\ i <= j)
      BY <2>2
    <3>3. by[k] < by[i] \/ (by[k] = by[i] /\ k <= i)
      BY <2>2
    <3>4. by[k] < by[j] \/ (by[k] = by[j] /\ k <= j)
      BY <3>1, <3>2, <3>3
    <3> QED
      BY <3>1, <3>4
  <2>3. ASSUME NEW i \in D, NEW j \in D
        PROVE  /\ i \in u[j] \/ j \in u[i]
               /\ i \in u[j] /\ j \in u[i] => i = j
    <3>1. by[i] \in Int /\ by[j] \in Int /\ i \in Int /\ j \in Int
      BY <1>2, <1>4
    <3>2. i \in u[j] <=> by[i] < by[j] \/ (by[i] = by[j] /\ i <= j)
      OBVIOUS
    <3>3. j \in u[i] <=> by[j] < by[i] \/ (by[j] = by[i] /\ j <= i)
      OBVIOUS
    <3> QED
      BY <3>1, <3>2, <3>3
  <2> QED
    BY <2>1, <2>2, <2>3 DEF Orders
<1>6. ListedLaw(D, u, a)
  BY <1>1, <1>5, ListedIs
<1> HIDE DEF a, u
<1>7. a \in Seq(DOMAIN s) /\ Len(a) = Len(s) /\ DOMAIN a = D
  BY <1>1, <1>6 DEF ListedLaw
<1>8. /\ r \in Seq(T) /\ Len(r) = Len(s) /\ DOMAIN r = D
      /\ \A k \in D : a[k] \in D /\ r[k] = s[a[k]]
  <2>1. /\ Picked(s, a) \in Seq(T) /\ Len(Picked(s, a)) = Len(a)
        /\ DOMAIN Picked(s, a) = 1 .. Len(a) /\ DOMAIN a = 1 .. Len(a)
        /\ \A k \in 1 .. Len(a) : a[k] \in DOMAIN s /\ Picked(s, a)[k] = s[a[k]]
    BY <1>7, PickedIs
  <2> QED
    BY <1>1, <1>7, <2>1 DEF r
<1>9. Range(r) = Range(s)
  <2>1. \A i \in D : \E k \in D : a[k] = i
    BY <1>6, <1>7 DEF ListedLaw
  <2> QED
    BY <1>8, <2>1, SMTT(30) DEF Range
<1>10. ASSUME NEW k \in D, NEW l \in D, k <= l
       PROVE  key[r[k]] <= key[r[l]]
  <2>1. a[k] \in D /\ a[l] \in D /\ a[k] \in u[a[l]]
    BY <1>6, <1>7, <1>8, <1>10 DEF ListedLaw
  <2>2. by[a[k]] < by[a[l]] \/ by[a[k]] = by[a[l]]
    BY <2>1 DEF u
  <2>3. by[a[k]] = key[r[k]] /\ by[a[l]] = key[r[l]] /\ by[a[k]] \in Int /\ by[a[l]] \in Int
    BY <1>2, <1>8, <2>1
  <2> QED
    BY <2>2, <2>3
<1> QED
  BY <1>3, <1>8, <1>9, <1>10

-----------------------------------------------------------------------------
(* ---- Recursive functions on a range of numbers ---- *)

StepsOn(a, top, S) == [a .. top -> [S -> S]]
Follows(f, a, top, S, base, step) ==
    f \in [a .. top -> S] /\ f[a] = base /\ \A k \in a .. top : a < k => f[k] = step[k][f[k - 1]]

(* There is one with a given start and a given step.                        *)
LEMMA Recursion ==
    ASSUME NEW a \in Nat, NEW top \in Nat, a <= top, NEW S, NEW base \in S,
           NEW step \in StepsOn(a, top, S)
    PROVE  \E f : Follows(f, a, top, S, base, step)
<1>0. step \in [a .. top -> [S -> S]]
  BY DEF StepsOn
<1> DEFINE Fits(m) == \E f \in [a .. m -> S] : f[a] = base /\ \A k \in a .. m : a < k => f[k] = step[k][f[k - 1]]
           U == {m \in a .. top : ~Fits(m)}
<1>1. Fits(a)
  <2> DEFINE f == [k \in a .. a |-> base]
  <2>1. f \in [a .. a -> S] /\ f[a] = base
    OBVIOUS
  <2>2. \A k \in a .. a : ~(a < k)
    OBVIOUS
  <2> QED
    BY <2>1, <2>2
<1>2. ASSUME NEW m \in a .. top, a < m, Fits(m - 1)
      PROVE  Fits(m)
  <2>1. PICK f \in [a .. m - 1 -> S] : f[a] = base /\ \A k \in a .. m - 1 : a < k => f[k] = step[k][f[k - 1]]
    BY <1>2
  <2>2. m \in Nat /\ m - 1 \in a .. m - 1 /\ a \in a .. m - 1 /\ a # m
    BY <1>2
  <2>3. f[m - 1] \in S /\ step[m][f[m - 1]] \in S
    BY <1>0, <1>2, <2>1, <2>2
  <2> DEFINE g == [k \in a .. m |-> IF k = m THEN step[m][f[m - 1]] ELSE f[k]]
  <2>4. \A k \in a .. m : k = m \/ k \in a .. m - 1
    BY <2>2
  <2>5. g \in [a .. m -> S]
    BY <2>1, <2>3, <2>4
  <2>6. \A k \in a .. m - 1 : g[k] = f[k]
    BY <2>2
  <2>7. g[m] = step[m][f[m - 1]]
    BY <2>2
  <2> HIDE DEF g
  <2>8. ASSUME NEW k \in a .. m, a < k
        PROVE  g[k] = step[k][g[k - 1]]
    <3>1. k - 1 \in a .. m - 1
      BY <2>2, <2>8
    <3>2. g[k - 1] = f[k - 1]
      BY <2>6, <3>1
    <3>3. CASE k = m
      BY <2>7, <3>2, <3>3
    <3>4. CASE k # m
      <4>1. k \in a .. m - 1 /\ a < k
        BY <2>2, <2>8, <3>4
      <4>2. f[k] = step[k][f[k - 1]]
        BY <2>1, <4>1
      <4> QED
        BY <2>6, <3>2, <4>1, <4>2
    <3> QED
      BY <3>3, <3>4
  <2>9. g[a] = base
    BY <2>1, <2>2, <2>6
  <2> QED
    BY <2>5, <2>8, <2>9
<1> HIDE DEF Fits
<1>3. U = {}
  <2>1. SUFFICES ASSUME U # {} PROVE FALSE
    OBVIOUS
  <2>2. U \in SUBSET Nat
    OBVIOUS
  <2>3. PICK m \in U : \A j \in U : m <= j
    BY <2>1, <2>2, LeastOf
  <2>4. m # a /\ m \in a .. top /\ ~Fits(m)
    BY <1>1, <2>3
  <2>5. a < m /\ m - 1 \in a .. top
    BY <2>4
  <2>6. m - 1 \in U
    BY <1>2, <2>4, <2>5
  <2>7. m <= m - 1 /\ m \in Nat
    BY <2>2, <2>3, <2>6
  <2> QED
    BY <2>7
<1>4. Fits(top)
  BY <1>3
<1> QED
  BY <1>4 DEF Fits, Follows

(* Two agree that start alike and go on alike.                              *)
Alike(f, g, a, top) ==
    f[a] = g[a] /\ \A k \in a .. top : a < k /\ f[k - 1] = g[k - 1] => f[k] = g[k]
SameOn(f, g, a, top) == \A k \in a .. top : f[k] = g[k]

LEMMA Agree ==
    ASSUME NEW a \in Nat, NEW top \in Nat, a <= top, NEW f, NEW g, Alike(f, g, a, top)
    PROVE  SameOn(f, g, a, top)
<1>0. f[a] = g[a] /\ \A k \in a .. top : a < k /\ f[k - 1] = g[k - 1] => f[k] = g[k]
  BY DEF Alike
<1> DEFINE U == {m \in a .. top : f[m] # g[m]}
<1>1. SUFFICES ASSUME U # {} PROVE FALSE
  BY DEF SameOn
<1>2. U \in SUBSET Nat
  OBVIOUS
<1>3. PICK m \in U : \A j \in U : m <= j
  BY <1>1, <1>2, LeastOf
<1>4. m # a /\ m \in a .. top /\ f[m] # g[m]
  BY <1>0, <1>3
<1>5. a < m /\ m - 1 \in a .. top
  BY <1>4
<1>6. m - 1 \in U
  BY <1>0, <1>4, <1>5
<1>7. m <= m - 1 /\ m \in Nat
  BY <1>2, <1>3, <1>6
<1> QED
  BY <1>7

LEMMA RangeOfJoined ==
    ASSUME NEW T, NEW s \in Seq(T), NEW t \in Seq(T)
    PROVE  s \o t \in Seq(T) /\ Range(s \o t) = Range(s) \cup Range(t)
<1>1. s \o t \in Seq(T) /\ Len(s \o t) = Len(s) + Len(t) /\ Len(s) \in Nat /\ Len(t) \in Nat
  OBVIOUS
<1>2. DOMAIN s = 1 .. Len(s) /\ DOMAIN t = 1 .. Len(t) /\ DOMAIN (s \o t) = 1 .. Len(s) + Len(t)
  BY <1>1
<1>3. \A k \in DOMAIN s : k \in DOMAIN (s \o t) /\ (s \o t)[k] = s[k]
  BY <1>1, <1>2
<1>4. \A k \in DOMAIN t : k + Len(s) \in DOMAIN (s \o t) /\ (s \o t)[k + Len(s)] = t[k]
  BY <1>1, <1>2
<1>5. \A k \in DOMAIN (s \o t) :
         \/ k \in DOMAIN s
         \/ k - Len(s) \in DOMAIN t /\ (s \o t)[k] = t[k - Len(s)]
  BY <1>1, <1>2
<1> DEFINE u == s \o t
<1>6. \A k \in DOMAIN u : u[k] \in Range(s) \cup Range(t)
  BY <1>3, <1>5 DEF Range
<1>7. \A k \in DOMAIN s : s[k] \in Range(u)
  BY <1>3 DEF Range
<1>8. \A k \in DOMAIN t : t[k] \in Range(u)
  BY <1>4 DEF Range
<1> HIDE DEF u
<1>9. Range(u) = Range(s) \cup Range(t)
  BY <1>6, <1>7, <1>8 DEF Range
<1> QED
  BY <1>1, <1>9 DEF u

LEMMA NoneListed ==
    ASSUME NEW S, NEW s \in Seq(S), Len(s) = 0
    PROVE  s = <<>>
OBVIOUS

ListsOf(T) == Seq(Seq(T))

LEMMA FlatOf ==
    ASSUME NEW T, NEW ss \in ListsOf(T)
    PROVE  FlattenSeq(ss) \in Seq(T) /\ Range(FlattenSeq(ss)) = UNION {Range(ss[k]) : k \in DOMAIN ss}
<1>0. PICK top : top = Len(ss)
  OBVIOUS
<1>1. top \in Nat /\ DOMAIN ss = 1 .. top
  BY <1>0 DEF ListsOf
<1>2. CASE top = 0
  <2>0. ss = <<>>
    <3>1. PICK S : S = Seq(T)
      OBVIOUS
    <3>2. ss \in Seq(S) /\ Len(ss) = 0
      BY <1>0, <1>2, <3>1 DEF ListsOf
    <3> QED
      BY <3>2, NoneListed
  <2>1. ss = <<>> /\ FlattenSeq(ss) = <<>>
    BY <1>0, <1>2, <2>0 DEF FlattenSeq
  <2>2. DOMAIN ss = {} /\ Range(<<>>) = {}
    BY <2>1 DEF Range
  <2>3. <<>> \in Seq(T)
    OBVIOUS
  <2>4. UNION {Range(ss[k]) : k \in DOMAIN ss} = {}
    BY <2>2
  <2> QED
    BY <2>1, <2>2, <2>3, <2>4, Zenon
<1>3. CASE top # 0
  <2> DEFINE Is(f) == f = [i \in 1 .. top |-> IF i = 1 THEN ss[i] ELSE f[i - 1] \o ss[i]]
             step == [k \in 1 .. top |-> [x \in Seq(T) |-> x \o ss[k]]]
  <2>1. \A k \in 1 .. top : ss[k] \in Seq(T)
    BY <1>1 DEF ListsOf
  <2>2. \A k \in 1 .. top : 1 < k => k # 1 /\ k - 1 \in 1 .. top
    BY <1>1
  <2>3. step \in [1 .. top -> [Seq(T) -> Seq(T)]]
    BY <2>1
  <2>4. 1 <= top /\ 1 \in 1 .. top /\ 1 \in Nat /\ ss[1] \in Seq(T)
    BY <1>1, <1>3, <2>1
  <2>5. \A k \in 1 .. top, x \in Seq(T) : step[k][x] = x \o ss[k]
    OBVIOUS
  <2> HIDE DEF step
  <2>18. top \in Nat
    BY <1>1
  <2>0. PICK a \in Nat : a = 1
    BY <2>4
  <2>6. PICK f : f \in [1 .. top -> Seq(T)] /\ f[1] = ss[1] /\ \A k \in 1 .. top : 1 < k => f[k] = step[k][f[k - 1]]
    <3>0. PICK S, e, st : S = Seq(T) /\ e = ss[a] /\ st = step
      OBVIOUS
    <3>1. a <= top /\ e \in S /\ st \in StepsOn(a, top, S)
      BY <2>0, <2>3, <2>4, <3>0 DEF StepsOn
    <3>3. \E f : Follows(f, a, top, S, e, st)
      BY <2>18, <3>1, Recursion
    <3>2. \E f : Follows(f, a, top, Seq(T), ss[a], step)
      BY <3>0, <3>3
    <3> QED
      BY <2>0, <3>2 DEF Follows
  <2>7. \A k \in 1 .. top : 1 < k => f[k] = f[k - 1] \o ss[k]
    BY <2>2, <2>5, <2>6
  <2>8. \A i \in 1 .. top : i = 1 \/ 1 < i
    BY <1>1
  <2>9. Is(f)
    <3>1. \A i \in 1 .. top : f[i] = IF i = 1 THEN ss[i] ELSE f[i - 1] \o ss[i]
      BY <2>2, <2>6, <2>7, <2>8
    <3> QED
      BY <2>6, <3>1
  <2>10. PICK h : h = CHOOSE g : Is(g)
    OBVIOUS
  <2>19. FlattenSeq(ss) = h[top]
    BY <1>0, <1>3, <2>10 DEF FlattenSeq
  <2>11. Is(h)
    BY <2>9, <2>10
  <2>12. h[1] = ss[1] /\ \A k \in 1 .. top : 1 < k => h[k] = h[k - 1] \o ss[k]
    BY <2>2, <2>4, <2>11
  <2> HIDE DEF Is
  <2>13. \A k \in 1 .. top : h[k] = f[k]
    <3>1. h[1] = f[1] /\ \A k \in 1 .. top : 1 < k /\ h[k - 1] = f[k - 1] => h[k] = f[k]
      BY <2>6, <2>7, <2>12
    <3>2. a <= top /\ Alike(h, f, a, top)
      BY <2>0, <2>4, <3>1 DEF Alike
    <3>3. SameOn(h, f, a, top)
      BY <2>18, <3>2, Agree
    <3> QED
      BY <2>0, <3>3 DEF SameOn
  <2>20. PICK r : r = [k \in 1 .. top |-> Range(f[k])]
    OBVIOUS
  <2>21. PICK q : q = [k \in 1 .. top |-> UNION {Range(ss[j]) : j \in 1 .. k}]
    OBVIOUS
  <2>14. r[1] = q[1]
    <3>1. 1 .. 1 = {1}
      OBVIOUS
    <3> QED
      BY <2>4, <2>6, <3>1, <2>20, <2>21
  <2>15. ASSUME NEW k \in 1 .. top, 1 < k, r[k - 1] = q[k - 1]
         PROVE  r[k] = q[k]
    <3>1. k \in 1 .. top /\ k - 1 \in 1 .. top
      BY <2>2, <2>15
    <3>2. f[k - 1] \in Seq(T) /\ ss[k] \in Seq(T)
      BY <2>1, <2>6, <3>1
    <3>3. r[k] = r[k - 1] \cup Range(ss[k])
      <4>1. f[k] = f[k - 1] \o ss[k]
        BY <2>7, <2>15, <3>1
      <4>2. Range(f[k - 1] \o ss[k]) = Range(f[k - 1]) \cup Range(ss[k])
        BY <3>2, RangeOfJoined
      <4> QED
        BY <3>1, <4>1, <4>2, <2>20
    <3>4. 1 .. k = (1 .. k - 1) \cup {k}
      BY <1>1, <3>1
    <3>5. q[k] = q[k - 1] \cup Range(ss[k])
      BY <3>1, <3>4, <2>21
    <3> QED
      BY <2>15, <3>3, <3>5
  <2>16. r[top] = q[top]
    <3>1. a <= top /\ Alike(r, q, a, top)
      BY <2>0, <2>4, <2>14, <2>15 DEF Alike
    <3>2. SameOn(r, q, a, top)
      BY <2>18, <3>1, Agree
    <3> QED
      BY <2>18, <2>0, <2>4, <3>2 DEF SameOn
  <2>17. top \in 1 .. top
    BY <1>1, <2>4
  <2> QED
    BY <1>1, <2>6, <2>19, <2>13, <2>16, <2>17, <2>20, <2>21
<1> QED
  BY <1>2, <1>3

LEMMA FlatIs ==
    ASSUME NEW T, NEW ss \in Seq(Seq(T))
    PROVE  FlattenSeq(ss) \in Seq(T) /\ Range(FlattenSeq(ss)) = UNION {Range(ss[k]) : k \in DOMAIN ss}
BY FlatOf DEF ListsOf

-----------------------------------------------------------------------------
(* ---- fronts() places every design ---- *)

LEMMA MaxOf ==
    ASSUME NEW m \in Nat, NEW K \in SUBSET (0 .. m), K # {}
    PROVE  Max(K) \in K /\ Max(K) \in Nat /\ \A y \in K : y <= Max(K)
<1> DEFINE T == {m - k : k \in K}
<1>1. T \in SUBSET Nat /\ T # {}
  <2>1. \A k \in 0 .. m : m - k \in Nat /\ k \in Nat
    OBVIOUS
  <2>2. \A k \in K : m - k \in Nat
    BY <2>1
  <2> QED
    BY <2>2
<1>2. PICK t \in T : \A u \in T : t <= u
  BY <1>1, LeastOf
<1>3. PICK x \in K : t = m - x
  BY <1>2
<1>4. \A y \in K : x >= y
  <2>1. TAKE y \in K
  <2>2. m - y \in T
    OBVIOUS
  <2>3. t <= m - y
    BY <1>2, <2>2
  <2> QED
    BY <1>3, <2>3
<1>5. Max(K) \in K /\ \A y \in K : Max(K) >= y
  BY <1>3, <1>4, Zenon DEF Max
<1>6. \A k \in 0 .. m : k \in Nat
  OBVIOUS
<1>7. \A k \in K : k \in Nat
  BY <1>6
<1> HIDE DEF T
<1>8. PICK x0 : x0 = Max(K)
  OBVIOUS
<1> QED
  BY <1>5, <1>7, <1>8

LEMMA RangeWithin ==
    ASSUME NEW S, NEW s \in Seq(S)
    PROVE  Range(s) \subseteq S
BY DEF Range

FrontsIn(ids) == Seq(Seq(Range(ids)) \ {<<>>})

LEMMA NextFrontIs ==
    ASSUME NEW ids \in Seq(Bred), NEW fs \in FrontsIn(ids)
    PROVE  NextFront(ids, fs) \in Seq(Range(ids))
<1> DEFINE free == {y \in Range(ids) \ PlacedIn(fs) : \A x \in Range(ids) : Better(x, y) => x \in PlacedIn(fs)}
           hit(y) == {k \in DOMAIN Last(fs) : Better(Last(fs)[k], y)}
           freed == [y \in free |-> IF fs = <<>> THEN 0 ELSE Max({0} \cup hit(y))]
           kept == Kept(ids, free)
<1>1. ids \in Seq(Range(ids))
  BY DEF Range
<1>2. kept \in Seq(Range(ids)) /\ Range(kept) = Range(ids) \cap free
  BY <1>1, KeptIs
<1>3. fs # <<>> => Last(fs) \in Seq(Range(ids))
  <2>1. PICK S : S = Seq(Range(ids)) \ {<<>>}
    OBVIOUS
  <2>2. fs \in Seq(S)
    BY <2>1 DEF FrontsIn
  <2>3. fs # <<>> => Len(fs) \in 1 .. Len(fs) /\ fs[Len(fs)] \in S
    BY <2>2
  <2> QED
    BY <2>1, <2>3 DEF Last
<1>4. ASSUME NEW y \in free
      PROVE  freed[y] \in Int
  <2>1. CASE fs = <<>>
    BY <2>1
  <2>2. CASE fs # <<>>
    <3>1. PICK l : l = Last(fs)
      OBVIOUS
    <3>2. DOMAIN l = 1 .. Len(l) /\ Len(l) \in Nat
      BY <1>3, <2>2, <3>1
    <3>3. hit(y) \subseteq 1 .. Len(l)
      BY <3>1, <3>2
    <3> HIDE DEF hit
    <3>4. {0} \cup hit(y) \in SUBSET (0 .. Len(l)) /\ {0} \cup hit(y) # {}
      BY <3>2, <3>3
    <3>5. Max({0} \cup hit(y)) \in Nat
      BY <3>2, <3>4, MaxOf
    <3> QED
      BY <2>2, <3>5
  <2> QED
    BY <2>1, <2>2
<1> HIDE DEF kept, freed, free
<1>5. \A x \in Range(kept) : freed[x] \in Int
  BY <1>2, <1>4
<1>6. SortedBy(kept, freed) \in Seq(Range(ids))
  BY <1>2, <1>5, SortedByIs
<1> QED
  BY <1>6 DEF NextFront, kept, freed, free

LEMMA AddedIs ==
    ASSUME NEW ids \in Seq(Bred), NEW fs \in FrontsIn(ids), NEW f \in Seq(Range(ids))
    PROVE  Added(fs, f) \in FrontsIn(ids) /\ PlacedIn(Added(fs, f)) = PlacedIn(fs) \cup Range(f)
<1>1. CASE f = <<>>
  <2>1. Range(f) = {}
    BY <1>1 DEF Range
  <2> QED
    BY <1>1, <2>1 DEF Added
<1>2. CASE f # <<>>
  <2>1. PICK S : S = Seq(Range(ids)) \ {<<>>}
    OBVIOUS
  <2>2. fs \in Seq(S) /\ f \in S
    BY <1>2, <2>1 DEF FrontsIn
  <2>3. PICK H : H = Append(fs, f)
    OBVIOUS
  <2>4. H \in Seq(S) /\ Len(H) = Len(fs) + 1 /\ Len(fs) \in Nat
    BY <2>2, <2>3
  <2>5. DOMAIN H = DOMAIN fs \cup {Len(fs) + 1} /\ H[Len(fs) + 1] = f /\ \A k \in DOMAIN fs : H[k] = fs[k]
    BY <2>2, <2>3, <2>4
  <2>6. PlacedIn(H) = PlacedIn(fs) \cup Range(f)
    BY <2>5 DEF PlacedIn
  <2> QED
    BY <1>2, <2>1, <2>3, <2>4, <2>6 DEF Added, FrontsIn
<1> QED
  BY <1>1, <1>2

LEMMA PeeledIs ==
    ASSUME NEW ids \in Seq(Bred)
    PROVE  Peeled(ids) \in FrontsIn(ids)
<1>0. PICK top, S : top = Len(ids) /\ S = FrontsIn(ids)
  OBVIOUS
<1>1. top \in Nat
  BY <1>0
<1> DEFINE On(fs) == Added(fs, NextFront(ids, fs))
           Is(f) == f = [k \in 0 .. top |-> IF k = 0 THEN <<>> ELSE On(f[k - 1])]
<1>2. ASSUME NEW fs \in S
      PROVE  On(fs) \in S
  BY <1>0, <1>2, NextFrontIs, AddedIs
<1>3. <<>> \in S
  BY <1>0 DEF FrontsIn
<1> HIDE DEF On
<1>4. PICK step : step = [k \in 0 .. top |-> [fs \in S |-> On(fs)]]
  OBVIOUS
<1>5. step \in StepsOn(0, top, S)
  BY <1>2, <1>4 DEF StepsOn
<1>6. PICK f : Follows(f, 0, top, S, <<>>, step)
  <2>1. PICK a, e : a = 0 /\ e = <<>>
    OBVIOUS
  <2>2. a \in Nat /\ a <= top /\ e \in S /\ step \in StepsOn(a, top, S)
    BY <1>1, <1>3, <1>5, <2>1
  <2>3. \E f : Follows(f, a, top, S, e, step)
    BY <1>1, <2>2, Recursion
  <2> QED
    BY <2>1, <2>3
<1>7. \A k \in 0 .. top : 0 < k => k - 1 \in 0 .. top /\ k # 0
  BY <1>1
<1>8. \A k \in 0 .. top : k = 0 \/ 0 < k
  BY <1>1
<1>9. f \in [0 .. top -> S] /\ f[0] = <<>> /\ \A k \in 0 .. top : 0 < k => f[k] = On(f[k - 1])
  <2>1. f \in [0 .. top -> S] /\ f[0] = <<>> /\ \A k \in 0 .. top : 0 < k => f[k] = step[k][f[k - 1]]
    BY <1>6 DEF Follows
  <2>2. \A k \in 0 .. top, fs \in S : step[k][fs] = On(fs)
    BY <1>4
  <2>3. \A k \in 0 .. top : 0 < k => f[k - 1] \in S
    BY <1>7, <2>1
  <2> QED
    BY <2>1, <2>2, <2>3
<1>10. Is(f)
  <2>1. \A k \in 0 .. top : f[k] = IF k = 0 THEN <<>> ELSE On(f[k - 1])
    BY <1>8, <1>9
  <2> QED
    BY <1>9, <2>1
<1>11. PICK h : h = CHOOSE g : Is(g)
  OBVIOUS
<1>12. Peeled(ids) = h[top]
  BY <1>0, <1>11 DEF Peeled, On
<1>13. Is(h)
  BY <1>10, <1>11
<1>14. h[0] = <<>> /\ \A k \in 0 .. top : 0 < k => h[k] = On(h[k - 1])
  BY <1>1, <1>7, <1>13
<1>15. \A k \in 0 .. top : h[k] = f[k]
  <2>1. PICK a : a = 0
    OBVIOUS
  <2>2. a \in Nat /\ a <= top
    BY <1>1, <2>1
  <2>3. Alike(h, f, a, top)
    BY <1>9, <1>14, <2>1 DEF Alike
  <2>4. SameOn(h, f, a, top)
    BY <1>1, <2>2, <2>3, Agree
  <2> QED
    BY <2>1, <2>4 DEF SameOn
<1>16. top \in 0 .. top
  BY <1>1
<1> QED
  BY <1>0, <1>9, <1>12, <1>15, <1>16

LEMMA FrontsOfIs ==
    ASSUME NEW ids \in Seq(Bred)
    PROVE  FrontsOf(ids) \in FrontsIn(ids) /\ PlacedIn(FrontsOf(ids)) = Range(ids)
<1>1. PICK fs : fs = Peeled(ids)
  OBVIOUS
<1>2. fs \in FrontsIn(ids)
  BY <1>1, PeeledIs
<1>3. PICK f : f = Kept(ids, Range(ids) \ PlacedIn(fs))
  OBVIOUS
<1>4. f \in Seq(Range(ids)) /\ Range(f) = Range(ids) \cap (Range(ids) \ PlacedIn(fs))
  <2>1. ids \in Seq(Range(ids))
    BY DEF Range
  <2> QED
    BY <1>3, <2>1, KeptIs
<1>5. FrontsOf(ids) = Added(fs, f)
  BY <1>1, <1>3 DEF FrontsOf
<1>6. Added(fs, f) \in FrontsIn(ids) /\ PlacedIn(Added(fs, f)) = PlacedIn(fs) \cup Range(f)
  BY <1>2, <1>4, AddedIs
<1>7. PlacedIn(fs) \subseteq Range(ids)
  <2>1. SUFFICES ASSUME NEW k \in DOMAIN fs PROVE Range(fs[k]) \subseteq Range(ids)
    BY DEF PlacedIn
  <2>2. PICK S : S = Seq(Range(ids)) \ {<<>>}
    OBVIOUS
  <2>3. fs \in Seq(S)
    BY <1>2, <2>2 DEF FrontsIn
  <2>4. fs[k] \in S
    BY <2>3
  <2>5. fs[k] \in Seq(Range(ids))
    BY <2>2, <2>4
  <2> QED
    BY <2>5, RangeWithin
<1> QED
  BY <1>4, <1>5, <1>6, <1>7

-----------------------------------------------------------------------------
(* ---- rank() drops no design ---- *)

LEMMA MeasuresAre ==
    ASSUME NEW i \in Bred
    PROVE  /\ Measures[i].speed \in Nat /\ Measures[i].total \in Nat
           /\ Measures[i].rss \in Nat /\ Measures[i].speed32 \in Nat
           /\ \A o \in Objectives : Measures[i][o] \in Nat
<1>1. /\ Measures[i].speed \in Nat /\ Measures[i].total \in Nat
      /\ Measures[i].rss \in Nat /\ Measures[i].speed32 \in Nat
  BY SelectionAssumption
<1>2. \A o \in Objectives : o \in {"speed", "total", "rss", "speed32"}
  BY DEF Objectives
<1> QED
  BY <1>1, <1>2

LEMMA MaxOfTwo ==
    ASSUME NEW x \in Int, NEW y \in Int
    PROVE  Max({x, y}) \in {x, y} /\ Max({x, y}) >= x /\ Max({x, y}) >= y
<1>1. \E m \in {x, y} : \A z \in {x, y} : m >= z
  BY x >= y \/ y >= x
<1>2. Max({x, y}) \in {x, y} /\ \A z \in {x, y} : Max({x, y}) >= z
  BY <1>1, Zenon DEF Max
<1> QED
  BY <1>2

LEMMA MinOfTwo ==
    ASSUME NEW x \in Int, NEW y \in Int
    PROVE  Min({x, y}) \in {x, y} /\ Min({x, y}) <= x /\ Min({x, y}) <= y
<1>1. \E m \in {x, y} : \A z \in {x, y} : m <= z
  BY x <= y \/ y <= x
<1>2. Min({x, y}) \in {x, y} /\ \A z \in {x, y} : Min({x, y}) <= z
  BY <1>1, Zenon DEF Min
<1> QED
  BY <1>2

(* A front's designs by each objective. *)
LEMMA SortsAre ==
    ASSUME NEW front \in Seq(Bred), front # <<>>, NEW o \in Objectives
    PROVE  /\ Sorts(front)[o] \in Seq(Bred) /\ Range(Sorts(front)[o]) = Range(front)
           /\ Sorts(front)[o] # <<>>
<1>1. PICK key : key = [i \in Bred |-> Measures[i][o]]
  OBVIOUS
<1>2. \A x \in Range(front) : key[x] \in Int
  <2>1. Range(front) \subseteq Bred
    BY RangeWithin
  <2>2. \A x \in Bred : Measures[x][o] \in Nat
    BY MeasuresAre
  <2> QED
    BY <1>1, <2>1, <2>2
<1>3. /\ SortedBy(front, key) \in Seq(Bred) /\ Range(SortedBy(front, key)) = Range(front)
      /\ Len(SortedBy(front, key)) = Len(front)
  BY <1>2, SortedByIs
<1>4. Sorts(front)[o] = SortedBy(front, key)
  BY <1>1 DEF Sorts
<1>5. Len(front) # 0
  BY NoneListed
<1>6. PICK s : s = SortedBy(front, key)
  OBVIOUS
<1>7. s # <<>>
  BY <1>3, <1>5, <1>6
<1> QED
  BY <1>3, <1>4, <1>6, <1>7

LEMMA GapIs ==
    ASSUME NEW s \in Seq(Bred), s # <<>>, NEW o \in Objectives, NEW i \in Range(s), i # Head(s), i # Last(s)
    PROVE  Gap(s, o, i) \in Int
<1>1. PICK k : k = CHOOSE l \in DOMAIN s : s[l] = i
  OBVIOUS
<1>2. \E l \in DOMAIN s : s[l] = i
  BY DEF Range
<1>3. k \in DOMAIN s /\ s[k] = i
  BY <1>1, <1>2
<1>4. DOMAIN s = 1 .. Len(s) /\ Len(s) \in Nat /\ Head(s) = s[1] /\ Last(s) = s[Len(s)]
  BY DEF Last
<1>5. k - 1 \in 1 .. Len(s) /\ k + 1 \in 1 .. Len(s)
  BY <1>3, <1>4
<1>6. s[k - 1] \in Bred /\ s[k + 1] \in Bred
  BY <1>5
<1>7. Measures[s[k - 1]][o] \in Nat /\ Measures[s[k + 1]][o] \in Nat
  BY <1>6, MeasuresAre
<1>8. Gap(s, o, i) = Measures[s[k + 1]][o] - Measures[s[k - 1]][o]
  BY <1>1 DEF Gap
<1> QED
  BY <1>7, <1>8

(* The sums and products of the crowding distance are numbers.              *)
LEMMA CrowdIs ==
    ASSUME NEW by, NEW span, NEW i,
           \A o \in Objectives : span[o] \in Int /\ Gap(by[o], o, i) \in Int
    PROVE  Crowd(by, span, i) \in Int
<1> DEFINE other(o, u) == IF u = o \/ u \notin Objectives THEN 1 ELSE span[u]
           rest(o) == other(o, "speed") * other(o, "total") * other(o, "rss") * other(o, "speed32")
           part(o) == IF o \in Objectives THEN Gap(by[o], o, i) * rest(o) ELSE 0
<1>1. \A o, u : other(o, u) \in Int
  OBVIOUS
<1> HIDE DEF other
<1>2. \A o : rest(o) \in Int
  <2>1. TAKE o
  <2>2. PICK a, b, c, d : a = other(o, "speed") /\ b = other(o, "total") /\ c = other(o, "rss") /\ d = other(o, "speed32")
    OBVIOUS
  <2>3. a \in Int /\ b \in Int /\ c \in Int /\ d \in Int
    BY <1>1, <2>2
  <2>4. a * b * c * d \in Int
    BY <2>3
  <2> QED
    BY <2>2, <2>4
<1> HIDE DEF rest
<1>3. \A o : part(o) \in Int
  <2>1. SUFFICES ASSUME NEW o \in Objectives PROVE Gap(by[o], o, i) * rest(o) \in Int
    OBVIOUS
  <2>2. PICK a, b : a = Gap(by[o], o, i) /\ b = rest(o)
    OBVIOUS
  <2>3. a \in Int /\ b \in Int
    BY <1>2, <2>2
  <2>4. a * b \in Int
    BY <2>3
  <2> QED
    BY <2>2, <2>4
<1>4. Crowd(by, span, i) = part("speed") + part("total") + part("rss") + part("speed32")
  BY DEF Crowd, other, rest
<1> HIDE DEF part
<1>5. PICK a, b, c, d : a = part("speed") /\ b = part("total") /\ c = part("rss") /\ d = part("speed32")
  OBVIOUS
<1>6. a \in Int /\ b \in Int /\ c \in Int /\ d \in Int
  BY <1>3, <1>5
<1>7. a + b + c + d \in Int
  BY <1>6
<1> QED
  BY <1>4, <1>5, <1>7

LEMMA SpreadIs ==
    ASSUME NEW front \in Seq(Bred), front # <<>>
    PROVE  /\ Spread(front, Sorts(front)) \in Seq(Bred)
           /\ Range(Spread(front, Sorts(front))) = Range(front)
<1>1. PICK by : by = Sorts(front)
  OBVIOUS
<1>2. \A o \in Objectives : by[o] \in Seq(Bred) /\ Range(by[o]) = Range(front) /\ by[o] # <<>>
  BY <1>1, SortsAre
<1>3. "speed" \in Objectives
  BY DEF Objectives
<1>4. PICK span : span = Spans(by)
  OBVIOUS
<1>5. ASSUME NEW o \in Objectives
      PROVE  span[o] \in Int
  <2>1. PICK s : s = by[o]
    OBVIOUS
  <2>2. s \in Seq(Bred) /\ s # <<>>
    BY <1>2, <2>1
  <2>3. Head(s) \in Bred /\ Last(s) \in Bred
    BY <2>2 DEF Last
  <2>4. PICK d : d = Measures[Last(s)][o] - Measures[Head(s)][o]
    OBVIOUS
  <2>5. d \in Int
    BY <2>3, <2>4, MeasuresAre
  <2>6. Max({1, d}) \in {1, d}
    <3>1. PICK e \in Int : e = 1
      OBVIOUS
    <3>2. Max({e, d}) \in {e, d}
      BY <2>5, MaxOfTwo
    <3> QED
      BY <3>1, <3>2
  <2>7. span[o] = Max({1, d})
    BY <1>4, <2>1, <2>4 DEF Spans
  <2> QED
    BY <2>5, <2>6, <2>7
<1>6. PICK cd : cd = Crowding(by, span)
  OBVIOUS
<1>7. DOMAIN cd = Range(front)
  BY <1>2, <1>3, <1>6 DEF Crowding
<1>8. ASSUME NEW x \in Range(front)
      PROVE  cd[x] \in Int
  <2>1. CASE \E o \in Objectives : x \in {Head(by[o]), Last(by[o])}
    <3>1. cd[x] = Furthest
      BY <1>6, <1>7, <2>1 DEF Crowding
    <3> QED
      BY <3>1 DEF Furthest
  <2>2. CASE ~ \E o \in Objectives : x \in {Head(by[o]), Last(by[o])}
    <3>1. cd[x] = Crowd(by, span, x)
      BY <1>6, <1>7, <2>2 DEF Crowding
    <3>2. ASSUME NEW o \in Objectives
          PROVE  Gap(by[o], o, x) \in Int
      <4>1. PICK s : s = by[o]
        OBVIOUS
      <4>2. s \in Seq(Bred) /\ s # <<>> /\ x \in Range(s) /\ x # Head(s) /\ x # Last(s)
        BY <1>2, <2>2, <4>1
      <4> QED
        BY <4>1, <4>2, GapIs
    <3> QED
      BY <1>5, <3>1, <3>2, CrowdIs
  <2> QED
    BY <2>1, <2>2
<1>9. PICK key : key = [i \in DOMAIN cd |-> -cd[i]]
  OBVIOUS
<1>10. \A x \in Range(front) : key[x] \in Int
  BY <1>7, <1>8, <1>9
<1>11. Spread(front, by) = SortedBy(front, key)
  BY <1>4, <1>6, <1>9 DEF Spread, Apart
<1> QED
  BY <1>1, <1>10, <1>11, SortedByIs

(* Every design ranked, and no other. *)
LEMMA OrderIs ==
    ASSUME NEW ids \in Seq(Bred)
    PROVE  Order(ids) \in Seq(Bred) /\ Range(Order(ids)) = Range(ids)
<1>1. PICK fs : fs = FrontsOf(ids)
  OBVIOUS
<1>2. fs \in FrontsIn(ids) /\ PlacedIn(fs) = Range(ids)
  BY <1>1, FrontsOfIs
<1>3. DOMAIN fs = 1 .. Len(fs) /\ Len(fs) \in Nat /\ \A k \in DOMAIN fs : fs[k] \in Seq(Range(ids)) /\ fs[k] # <<>>
  <2>1. PICK S : S = Seq(Range(ids)) \ {<<>>}
    OBVIOUS
  <2>2. fs \in Seq(S)
    BY <1>2, <2>1 DEF FrontsIn
  <2>3. DOMAIN fs = 1 .. Len(fs) /\ Len(fs) \in Nat /\ \A k \in DOMAIN fs : fs[k] \in S
    BY <2>2
  <2> QED
    BY <2>1, <2>3
<1>4. ASSUME NEW k \in DOMAIN fs
      PROVE  /\ Spread(fs[k], Sorts(fs[k])) \in Seq(Bred)
             /\ Range(Spread(fs[k], Sorts(fs[k]))) = Range(fs[k])
  <2>1. PICK f : f = fs[k]
    OBVIOUS
  <2>2. f \in Seq(Range(ids)) /\ f # <<>>
    BY <1>3, <2>1
  <2>3. Range(ids) \subseteq Bred
    BY RangeWithin
  <2>4. f \in Seq(Bred)
    BY <2>2, <2>3
  <2> QED
    BY <2>1, <2>2, <2>4, SpreadIs
<1>5. PICK ss : ss = [k \in DOMAIN fs |-> Spread(fs[k], Sorts(fs[k]))]
  OBVIOUS
<1>6. DOMAIN ss = DOMAIN fs /\ \A k \in DOMAIN fs : ss[k] \in Seq(Bred) /\ Range(ss[k]) = Range(fs[k])
  BY <1>4, <1>5
<1>7. ss \in Seq(Seq(Bred))
  <2>1. PICK S : S = Seq(Bred)
    OBVIOUS
  <2>2. ss \in [1 .. Len(fs) -> S]
    BY <1>3, <1>5, <1>6, <2>1
  <2>3. ss \in Seq(S)
    BY <1>3, <2>2
  <2> QED
    BY <2>1, <2>3
<1>8. FlattenSeq(ss) \in Seq(Bred) /\ Range(FlattenSeq(ss)) = UNION {Range(ss[k]) : k \in DOMAIN ss}
  BY <1>7, FlatIs
<1>9. UNION {Range(ss[k]) : k \in DOMAIN ss} = PlacedIn(fs)
  BY <1>6 DEF PlacedIn
<1>10. Order(ids) = FlattenSeq(ss)
  BY <1>1, <1>5 DEF Order, Ordered
<1> QED
  BY <1>2, <1>8, <1>9, <1>10

-----------------------------------------------------------------------------
(* ---- survive(): who is kept ---- *)

LEMMA UpToIs ==
    ASSUME NEW T, NEW s \in Seq(T), NEW k \in Nat
    PROVE  /\ UpTo(s, k) \in Seq(T) /\ Range(UpTo(s, k)) \subseteq Range(s)
           /\ \A j \in DOMAIN s : j <= k => s[j] \in Range(UpTo(s, k))
           /\ Len(UpTo(s, k)) < k => Range(UpTo(s, k)) = Range(s)
<1>1. PICK l : l = Len(s)
  OBVIOUS
<1>2. l \in Nat /\ DOMAIN s = 1 .. l
  BY <1>1
<1>3. PICK m : m = Min({l, k})
  OBVIOUS
<1>4. m \in {l, k} /\ m <= l /\ m <= k
  BY <1>2, <1>3, MinOfTwo
<1>5. m \in 0 .. l
  BY <1>2, <1>4
<1>6. PICK r : r = SubSeq(s, 1, m)
  OBVIOUS
<1>7. r \in Seq(T) /\ Len(r) = m /\ DOMAIN r = 1 .. m /\ \A j \in 1 .. m : r[j] = s[j]
  BY <1>1, <1>2, <1>5, <1>6
<1>8. UpTo(s, k) = r
  BY <1>1, <1>3, <1>6 DEF UpTo
<1>9. \A j \in 1 .. m : j \in 1 .. l
  BY <1>2, <1>5
<1>10. Range(r) \subseteq Range(s)
  BY <1>2, <1>7, <1>9 DEF Range
<1>11. ASSUME NEW j \in DOMAIN s, j <= k
       PROVE  s[j] \in Range(r)
  <2>1. j \in 1 .. m
    BY <1>2, <1>4, <1>11
  <2>2. j \in DOMAIN r /\ r[j] = s[j]
    BY <1>7, <2>1
  <2> QED
    BY <2>2 DEF Range
<1>12. ASSUME m < k
       PROVE  Range(s) \subseteq Range(r)
  <2>1. \A j \in DOMAIN s : j <= k
    BY <1>2, <1>4, <1>12
  <2> QED
    BY <1>11, <2>1 DEF Range
<1> QED
  BY <1>7, <1>8, <1>10, <1>11, <1>12

LEMMA ChosenIs ==
    ASSUME NEW order \in Seq(Bred), NEW first \in Seq(Bred), NEW top \in Nat, Range(first) \subseteq Range(order)
    PROVE  /\ Chosen(order, first, top) \in Seq(Bred)
           /\ Range(first) \subseteq Range(Chosen(order, first, top))
           /\ Range(Chosen(order, first, top)) \subseteq Range(order)
<1>1. PICK s : s = first \o order
  OBVIOUS
<1>2. s \in Seq(Bred) /\ Range(s) = Range(order)
  <2>1. first \o order \in Seq(Bred) /\ Range(first \o order) = Range(first) \cup Range(order)
    BY RangeOfJoined
  <2> QED
    BY <1>1, <2>1
<1>3. PICK l : l = Len(first)
  OBVIOUS
<1>4. l \in Nat /\ DOMAIN first = 1 .. l
  BY <1>3
<1>5. \A m \in DOMAIN first : m \in DOMAIN s /\ s[m] = first[m]
  BY <1>1
<1>6. PICK u : u = Uniq(s)
  OBVIOUS
<1>7. /\ u \in Seq(Bred) /\ Range(u) = Range(s)
      /\ \A m \in DOMAIN s : \E k \in DOMAIN u : k <= m /\ u[k] = s[m]
  BY <1>2, <1>6, UniqIs
<1>8. PICK c : c = Max({top, l})
  OBVIOUS
<1>9. c \in Nat /\ l <= c
  <2>1. top \in Int /\ l \in Int
    BY <1>4
  <2>2. Max({top, l}) \in {top, l} /\ Max({top, l}) >= top /\ Max({top, l}) >= l
    BY <2>1, MaxOfTwo
  <2> QED
    BY <1>4, <1>8, <2>2
<1>10. /\ UpTo(u, c) \in Seq(Bred) /\ Range(UpTo(u, c)) \subseteq Range(u)
       /\ \A j \in DOMAIN u : j <= c => u[j] \in Range(UpTo(u, c))
  BY <1>7, <1>9, UpToIs
<1>11. Chosen(order, first, top) = UpTo(u, c)
  BY <1>1, <1>3, <1>6, <1>8 DEF Chosen
<1>12. ASSUME NEW m \in DOMAIN first
       PROVE  first[m] \in Range(UpTo(u, c))
  <2>1. PICK k \in DOMAIN u : k <= m /\ u[k] = s[m]
    BY <1>5, <1>7
  <2>2. k \in Nat /\ m \in Nat /\ m <= l
    BY <1>4, <1>7
  <2>3. k <= c
    BY <1>4, <1>9, <2>1, <2>2
  <2> QED
    BY <1>5, <1>10, <2>1, <2>3
<1>13. Range(first) \subseteq Range(UpTo(u, c))
  BY <1>12 DEF Range
<1> QED
  BY <1>2, <1>7, <1>10, <1>11, <1>13

(* Of every family there is one. *)
LEMMA ChampionsAre ==
    ASSUME NEW order \in Seq(Bred)
    PROVE  /\ Champions(order) \in Seq(Bred) /\ Range(Champions(order)) \subseteq Range(order)
           /\ \A i \in Range(order) : \E c \in Range(Champions(order)) : Measures[c].enc = Measures[i].enc
<1> DEFINE of(f) == Kept(order, {i \in Bred : Measures[i].enc = f})
           has == Kept(Families, {f \in Range(Families) : of(f) # <<>>})
           ch == [k \in DOMAIN has |-> Head(of(has[k]))]
<1>1. Champions(order) = ch
  BY DEF Champions
<1>2. \A f : of(f) \in Seq(Bred) /\ Range(of(f)) = Range(order) \cap {i \in Bred : Measures[i].enc = f}
  BY KeptIs
<1> HIDE DEF of
<1>3. \A f : of(f) # <<>> => Head(of(f)) \in Range(order) /\ Measures[Head(of(f))].enc = f
  <2>1. TAKE f
  <2>2. SUFFICES ASSUME of(f) # <<>>
                 PROVE  Head(of(f)) \in Range(of(f))
    BY <1>2
  <2>3. PICK s : s = of(f)
    OBVIOUS
  <2>4. s \in Seq(Bred) /\ s # <<>>
    BY <1>2, <2>2, <2>3
  <2>5. 1 \in DOMAIN s /\ Head(s) = s[1]
    BY <2>4
  <2> QED
    BY <2>3, <2>5 DEF Range
<1>4. Families \in Seq(Range(Families))
  BY SelectionAssumption
<1>5. /\ has \in Seq(Range(Families))
      /\ Range(has) = Range(Families) \cap {f \in Range(Families) : of(f) # <<>>}
  BY <1>4, KeptIs
<1> HIDE DEF has
<1>6. DOMAIN has = 1 .. Len(has) /\ Len(has) \in Nat /\ \A k \in DOMAIN has : has[k] \in Range(has)
  BY <1>5 DEF Range
<1>7. \A k \in DOMAIN has : of(has[k]) # <<>>
  BY <1>5, <1>6
<1>8. Range(order) \subseteq Bred
  BY RangeWithin
<1>9. \A k \in DOMAIN has : ch[k] \in Range(order) /\ Measures[ch[k]].enc = has[k]
  BY <1>3, <1>7
<1>10. DOMAIN ch = DOMAIN has
  OBVIOUS
<1> HIDE DEF ch
<1>11. ch \in Seq(Bred)
  <2>1. ch \in [1 .. Len(has) -> Bred]
    <3>1. ch = [k \in DOMAIN has |-> ch[k]]
      BY DEF ch
    <3> QED
      BY <1>6, <1>8, <1>9, <3>1
  <2> QED
    BY <1>6, <2>1
<1>12. Range(ch) \subseteq Range(order)
  BY <1>9, <1>10 DEF Range
<1>13. ASSUME NEW i \in Range(order)
       PROVE  \E c \in Range(ch) : Measures[c].enc = Measures[i].enc
  <2>1. i \in Bred /\ Measures[i].enc \in Range(Families)
    BY <1>8, SelectionAssumption
  <2>2. i \in Range(of(Measures[i].enc))
    BY <1>2, <2>1
  <2>3. of(Measures[i].enc) # <<>>
    BY <2>2 DEF Range
  <2>4. Measures[i].enc \in Range(has)
    BY <1>5, <2>1, <2>3
  <2>5. PICK k \in DOMAIN has : has[k] = Measures[i].enc
    BY <2>4 DEF Range
  <2>6. ch[k] \in Range(ch)
    BY <1>10 DEF Range
  <2> QED
    BY <1>9, <2>5, <2>6
<1> QED
  BY <1>1, <1>11, <1>12, <1>13

LEMMA QualityIs ==
    ASSUME NEW i \in Bred
    PROVE  Quality(i) \in Nat
<1>1. PICK a, b, c : a = Measures[i].speed /\ b = Measures[i].total /\ c = Measures[i].rss
  OBVIOUS
<1>2. a \in Nat /\ b \in Nat /\ c \in Nat
  BY <1>1, MeasuresAre
<1>3. a * b * c \in Nat
  BY <1>2
<1> QED
  BY <1>1, <1>3 DEF Quality

(* The knee begins with the best by quality, of those whose memory is       *)
(* known.                                                                  *)
LEMMA KneeIs ==
    ASSUME NEW order \in Seq(Bred), NEW q \in Nat
    PROVE  /\ Knee(order, q) \in Seq(Bred) /\ Range(Knee(order, q)) \subseteq Range(order)
           /\ q > 0 => \A i \in Range(order) : Measures[i].rss # 0 =>
                 \E x \in Range(Knee(order, q)) : Measures[x].rss # 0 /\ Quality(x) <= Quality(i)
<1>1. PICK known : known = Kept(order, {i \in Bred : Measures[i].rss # 0})
  OBVIOUS
<1>2. known \in Seq(Bred) /\ Range(known) = Range(order) \cap {i \in Bred : Measures[i].rss # 0}
  BY <1>1, KeptIs
<1>3. PICK key : key = [i \in Bred |-> Quality(i)]
  OBVIOUS
<1>4. \A x \in Bred : key[x] = Quality(x) /\ key[x] \in Int
  BY <1>3, QualityIs
<1>5. Range(known) \subseteq Bred /\ Range(order) \subseteq Bred
  BY <1>2, RangeWithin
<1>6. PICK s : s = SortedBy(known, key)
  OBVIOUS
<1>7. /\ s \in Seq(Bred) /\ Range(s) = Range(known)
      /\ \A k, l \in DOMAIN s : k <= l => key[s[k]] <= key[s[l]]
  <2>1. \A x \in Range(known) : key[x] \in Int
    BY <1>4, <1>5
  <2> QED
    BY <1>2, <1>6, <2>1, SortedByIs
<1>8. /\ UpTo(s, q) \in Seq(Bred) /\ Range(UpTo(s, q)) \subseteq Range(s)
      /\ \A j \in DOMAIN s : j <= q => s[j] \in Range(UpTo(s, q))
  BY <1>7, UpToIs
<1>9. Knee(order, q) = UpTo(s, q)
  BY <1>1, <1>3, <1>6 DEF Knee
<1>10. ASSUME q > 0, NEW i \in Range(order), Measures[i].rss # 0
       PROVE  \E x \in Range(UpTo(s, q)) : Measures[x].rss # 0 /\ Quality(x) <= Quality(i)
  <2>1. i \in Range(s) /\ i \in Bred
    BY <1>2, <1>5, <1>7, <1>10
  <2>2. PICK l \in DOMAIN s : s[l] = i
    BY <2>1 DEF Range
  <2>3. DOMAIN s = 1 .. Len(s) /\ Len(s) \in Nat
    BY <1>7
  <2>4. 1 \in DOMAIN s /\ 1 <= l /\ 1 <= q
    BY <1>10, <2>3
  <2>5. s[1] \in Range(UpTo(s, q)) /\ key[s[1]] <= key[i]
    BY <1>7, <1>8, <2>2, <2>4
  <2>6. s[1] \in Range(known) /\ s[1] \in Bred
    BY <1>5, <1>7, <2>4 DEF Range
  <2>7. Measures[s[1]].rss # 0
    BY <1>2, <2>6
  <2> QED
    BY <1>4, <2>1, <2>5, <2>6, <2>7
<1> QED
  BY <1>2, <1>7, <1>8, <1>9, <1>10

-----------------------------------------------------------------------------
(* ---- What a generation keeps ---- *)

(* P are of S; they have its families and, where a knee is kept, its best.  *)
KeepsOf(S, P) ==
    /\ P \subseteq S
    /\ \A i \in S : \E j \in P : Measures[j].enc = Measures[i].enc
    /\ Q_KEEP > 0 => \A i \in S : Measures[i].rss # 0 =>
                        \E j \in P : Measures[j].rss # 0 /\ Quality(j) <= Quality(i)

LEMMA SurviveIs ==
    ASSUME NEW members \in Seq(Bred), NEW made \in Seq(Bred), NEW top \in Nat, NEW q \in Nat, Q_KEEP > 0 => q > 0
    PROVE  /\ Survive(members, made, top, q) \in Seq(Bred)
           /\ KeepsOf((Range(members) \cup Range(made)) \ dead, Range(Survive(members, made, top, q)))
<1>1. PICK all : all = members \o made
  OBVIOUS
<1>2. all \in Seq(Bred) /\ Range(all) = Range(members) \cup Range(made)
  <2>1. members \o made \in Seq(Bred) /\ Range(members \o made) = Range(members) \cup Range(made)
    BY RangeOfJoined
  <2> QED
    BY <1>1, <2>1
<1>3. PICK al : al = Living(all)
  OBVIOUS
<1>4. al \in Seq(Bred) /\ Range(al) = Range(all) \ dead
  BY <1>2, <1>3, LivingIs
<1>5. PICK order : order = Order(al)
  OBVIOUS
<1>6. order \in Seq(Bred) /\ Range(order) = (Range(members) \cup Range(made)) \ dead
  BY <1>2, <1>4, <1>5, OrderIs
<1>7. PICK ch : ch = Champions(order)
  OBVIOUS
<1>8. /\ ch \in Seq(Bred) /\ Range(ch) \subseteq Range(order)
      /\ \A i \in Range(order) : \E c \in Range(ch) : Measures[c].enc = Measures[i].enc
  BY <1>6, <1>7, ChampionsAre
<1>9. PICK kn : kn = Knee(order, q)
  OBVIOUS
<1>10. /\ kn \in Seq(Bred) /\ Range(kn) \subseteq Range(order)
       /\ q > 0 => \A i \in Range(order) : Measures[i].rss # 0 =>
             \E x \in Range(kn) : Measures[x].rss # 0 /\ Quality(x) <= Quality(i)
  BY <1>6, <1>9, KneeIs
<1>11. PICK first : first = ch \o kn
  OBVIOUS
<1>12. first \in Seq(Bred) /\ Range(first) = Range(ch) \cup Range(kn)
  <2>1. ch \o kn \in Seq(Bred) /\ Range(ch \o kn) = Range(ch) \cup Range(kn)
    BY <1>8, <1>10, RangeOfJoined
  <2> QED
    BY <1>11, <2>1
<1>13. PICK r : r = Chosen(order, first, top)
  OBVIOUS
<1>14. r \in Seq(Bred) /\ Range(first) \subseteq Range(r) /\ Range(r) \subseteq Range(order)
  <2>1. Range(first) \subseteq Range(order)
    BY <1>8, <1>10, <1>12
  <2> QED
    BY <1>6, <1>12, <1>13, <2>1, ChosenIs
<1>15. Survive(members, made, top, q) = r
  BY <1>1, <1>3, <1>5, <1>7, <1>9, <1>11, <1>13 DEF Survive, Ranking
<1>16. KeepsOf(Range(order), Range(r))
  BY <1>8, <1>10, <1>12, <1>14, Zenon DEF KeepsOf
<1> QED
  BY <1>6, <1>14, <1>15, <1>16

LEMMA SizesAre ==
    ASSUME NEW k \in Nat \ {0}
    PROVE  Size(k) \in Nat /\ KneeOf(k) \in Nat /\ (Q_KEEP > 0 => KneeOf(k) > 0)
<1>1. N \in Nat /\ Q_KEEP \in Nat
  BY SelectionAssumption
<1>2. PICK a, b, one, two : a = N \div k /\ b = Q_KEEP \div k /\ one = 1 /\ two = 2
  OBVIOUS
<1>3. a \in Int /\ b \in Int /\ one \in Int /\ two \in Int
  BY <1>1, <1>2
<1>4. Max({two, a}) \in {two, a} /\ Max({two, a}) >= two
  BY <1>3, MaxOfTwo
<1>5. Max({one, b}) \in {one, b} /\ Max({one, b}) >= one
  BY <1>3, MaxOfTwo
<1>6. PICK x, y : x = Max({two, a}) /\ y = Max({one, b})
  OBVIOUS
<1>7. x \in Nat /\ y \in Nat /\ y > 0
  BY <1>2, <1>3, <1>4, <1>5, <1>6
<1>8. Size(k) = (IF k = 1 THEN N ELSE x) /\ KneeOf(k) = (IF k = 1 THEN Q_KEEP ELSE y)
  BY <1>2, <1>6 DEF Size, KneeOf
<1> QED
  BY <1>1, <1>7, <1>8

(* The islands' members, all of them. *)
On(with) == UNION {Range(with[j]) : j \in DOMAIN with}

Over(J, S) == UNION {S[j] : j \in J}

(* Island by island is over all of them. *)
LEMMA KeepsTogether ==
    ASSUME NEW J, NEW S, NEW P, \A j \in J : KeepsOf(S[j], P[j])
    PROVE  KeepsOf(Over(J, S), Over(J, P))
<1> DEFINE SS == UNION {S[j] : j \in J}
           PP == UNION {P[j] : j \in J}
<1>1. PP \subseteq SS
  BY DEF KeepsOf
<1>2. ASSUME NEW i \in SS
      PROVE  /\ \E j \in PP : Measures[j].enc = Measures[i].enc
             /\ Q_KEEP > 0 /\ Measures[i].rss # 0 => \E j \in PP : Measures[j].rss # 0 /\ Quality(j) <= Quality(i)
  <2>1. PICK j \in J : i \in S[j]
    OBVIOUS
  <2>2. P[j] \subseteq PP
    OBVIOUS
  <2>3. KeepsOf(S[j], P[j])
    OBVIOUS
  <2> HIDE DEF PP
  <2> QED
    BY <2>1, <2>2, <2>3, Zenon DEF KeepsOf
<1> HIDE DEF PP, SS
<1>3. KeepsOf(SS, PP)
  BY <1>1, <1>2, Zenon DEF KeepsOf
<1> QED
  BY <1>3 DEF SS, PP, Over

LEMMA KeepsOn ==
    ASSUME NEW S \in SUBSET Bred, NEW P, NEW T, KeepsOf(S, P), KeepsOf(P, T)
    PROVE  KeepsOf(S, T)
<1>1. T \subseteq P /\ P \subseteq S
  BY DEF KeepsOf
<1>2. ASSUME NEW i \in S
      PROVE  \E j \in T : Measures[j].enc = Measures[i].enc
  BY DEF KeepsOf
<1>3. ASSUME Q_KEEP > 0, NEW i \in S, Measures[i].rss # 0
      PROVE  \E j \in T : Measures[j].rss # 0 /\ Quality(j) <= Quality(i)
  <2>1. PICK p \in P : Measures[p].rss # 0 /\ Quality(p) <= Quality(i)
    BY <1>3 DEF KeepsOf
  <2>2. PICK j \in T : Measures[j].rss # 0 /\ Quality(j) <= Quality(p)
    BY <1>3, <2>1 DEF KeepsOf
  <2>3. PICK a, b, c : a = Quality(i) /\ b = Quality(p) /\ c = Quality(j)
    OBVIOUS
  <2>4. a \in Nat /\ b \in Nat /\ c \in Nat
    BY <1>1, <2>3, QualityIs
  <2>5. c <= a
    BY <2>1, <2>2, <2>3, <2>4
  <2> QED
    BY <2>2, <2>3, <2>5
<1> QED
  BY <1>1, <1>2, <1>3 DEF KeepsOf

(* Every island of s, with what comes to it, survives as one of r.          *)
LEMMA EachSurvives ==
    ASSUME NEW m \in Nat \ {0}, NEW s \in [1 .. m -> Seq(Bred)], NEW with,
           \A j \in 1 .. m : with[j] \in Seq(Bred)
    PROVE  LET r == [j \in 1 .. m |-> Survive(s[j], with[j], Size(m), KneeOf(m))]
           IN  /\ r \in [1 .. m -> Seq(Bred)]
               /\ KeepsOf((UNION {Range(s[j]) \cup Range(with[j]) : j \in 1 .. m}) \ dead, On(r))
<1> DEFINE r == [j \in 1 .. m |-> Survive(s[j], with[j], Size(m), KneeOf(m))]
<1>1. \A j \in 1 .. m : /\ r[j] \in Seq(Bred)
                        /\ KeepsOf((Range(s[j]) \cup Range(with[j])) \ dead, Range(r[j]))
  <2>1. TAKE j \in 1 .. m
  <2>2. PICK a, b, z, q : a = s[j] /\ b = with[j] /\ z = Size(m) /\ q = KneeOf(m)
    OBVIOUS
  <2>3. a \in Seq(Bred) /\ b \in Seq(Bred) /\ z \in Nat /\ q \in Nat /\ (Q_KEEP > 0 => q > 0)
    BY <2>2, SizesAre
  <2>4. /\ Survive(a, b, z, q) \in Seq(Bred)
        /\ KeepsOf((Range(a) \cup Range(b)) \ dead, Range(Survive(a, b, z, q)))
    BY <2>3, SurviveIs
  <2>5. r[j] = Survive(a, b, z, q)
    BY <2>2
  <2> QED
    BY <2>2, <2>4, <2>5
<1>2. r \in [1 .. m -> Seq(Bred)] /\ DOMAIN r = 1 .. m
  BY <1>1
<1> HIDE DEF r
<1>3. PICK S : S = [j \in 1 .. m |-> (Range(s[j]) \cup Range(with[j])) \ dead]
  OBVIOUS
<1>4. PICK P : P = [j \in 1 .. m |-> Range(r[j])]
  OBVIOUS
<1>5. \A j \in 1 .. m : KeepsOf(S[j], P[j])
  BY <1>1, <1>3, <1>4
<1>6. KeepsOf(UNION {S[j] : j \in 1 .. m}, UNION {P[j] : j \in 1 .. m})
  <2>1. PICK J : J = 1 .. m
    OBVIOUS
  <2>2. KeepsOf(Over(J, S), Over(J, P))
    BY <1>5, <2>1, KeepsTogether
  <2> QED
    BY <2>1, <2>2 DEF Over
<1>7. UNION {S[j] : j \in 1 .. m} = (UNION {Range(s[j]) \cup Range(with[j]) : j \in 1 .. m}) \ dead
  BY <1>3
<1>8. UNION {P[j] : j \in 1 .. m} = On(r)
  BY <1>2, <1>4 DEF On
<1> QED
  BY <1>2, <1>6, <1>7, <1>8 DEF r

LEMMA MigrantsAre ==
    ASSUME NEW members \in Seq(Bred)
    PROVE  Migrants(members) \in Seq(Bred) /\ Range(Migrants(members)) \subseteq Range(members)
<1>1. PICK al : al = Living(members)
  OBVIOUS
<1>2. al \in Seq(Bred) /\ Range(al) \subseteq Range(members) /\ Range(al) \subseteq Bred
  BY <1>1, LivingIs, RangeWithin
<1>3. PICK key : key = [i \in Bred |-> Measures[i].speed]
  OBVIOUS
<1>4. \A x \in Range(al) : key[x] \in Int
  BY <1>2, <1>3, MeasuresAre
<1>5. PICK s : s = SortedBy(al, key)
  OBVIOUS
<1>6. s \in Seq(Bred) /\ Range(s) = Range(al)
  BY <1>2, <1>4, <1>5, SortedByIs
<1>7. PICK a, b : a = UpTo(s, 2) /\ b = Knee(al, 1)
  OBVIOUS
<1>8. PICK two \in Nat, one \in Nat : two = 2 /\ one = 1
  OBVIOUS
<1>9. UpTo(s, two) \in Seq(Bred) /\ Range(UpTo(s, two)) \subseteq Range(s)
  BY <1>6, UpToIs
<1>10. Knee(al, one) \in Seq(Bred) /\ Range(Knee(al, one)) \subseteq Range(al)
  BY <1>2, KneeIs
<1>11. a \in Seq(Bred) /\ Range(a) \subseteq Range(al) /\ b \in Seq(Bred) /\ Range(b) \subseteq Range(al)
  BY <1>6, <1>7, <1>8, <1>9, <1>10
<1>12. PICK c : c = a \o b
  OBVIOUS
<1>13. c \in Seq(Bred) /\ Range(c) \subseteq Range(al)
  <2>1. a \o b \in Seq(Bred) /\ Range(a \o b) = Range(a) \cup Range(b)
    BY <1>11, RangeOfJoined
  <2> QED
    BY <1>11, <1>12, <2>1
<1>14. Uniq(c) \in Seq(Bred) /\ Range(Uniq(c)) = Range(c)
  BY <1>13, UniqIs
<1>15. Migrants(members) = Uniq(c)
  BY <1>1, <1>3, <1>5, <1>7, <1>12 DEF Migrants
<1> QED
  BY <1>2, <1>13, <1>14, <1>15

LEMMA KeepsItself ==
    ASSUME NEW S \in SUBSET Bred
    PROVE  KeepsOf(S, S)
<1>1. \A i \in S : Quality(i) <= Quality(i)
  <2>1. TAKE i \in S
  <2>2. PICK q : q = Quality(i)
    OBVIOUS
  <2>3. q \in Nat
    BY <2>2, QualityIs
  <2> QED
    BY <2>2, <2>3
<1> QED
  BY <1>1, Zenon DEF KeepsOf

LEMMA MigratedIs ==
    ASSUME NEW m \in Nat \ {0}, NEW after \in [1 .. m -> Seq(Bred)], Len(after) = m, On(after) \cap dead = {}
    PROVE  Migrated(after) \in [1 .. m -> Seq(Bred)] /\ KeepsOf(On(after), On(Migrated(after)))
<1> DEFINE before(j) == IF j = 1 THEN m ELSE j - 1
           from(j) == Kept(Migrants(after[before(j)]), Bred \ Range(after[j]))
           r == [j \in 1 .. m |-> Survive(after[j], from(j), Size(m), KneeOf(m))]
<1>1. CASE ~(m > 1 /\ gen = 0)
  <2>1. Migrated(after) = after
    BY <1>1 DEF Migrated
  <2>2. On(after) \subseteq Bred
    BY RangeWithin DEF On
  <2> QED
    BY <2>1, <2>2, KeepsItself
<1>2. CASE m > 1 /\ gen = 0
  <2>1. Migrated(after) = r
    BY <1>2 DEF Migrated
  <2>2. \A j \in 1 .. m : before(j) \in 1 .. m
    OBVIOUS
  <2> HIDE DEF before
  <2>3. ASSUME NEW j \in 1 .. m
        PROVE  from(j) \in Seq(Bred) /\ Range(from(j)) \subseteq Range(after[before(j)])
    <3>1. PICK a, K : a = after[before(j)] /\ K = Bred \ Range(after[j])
      OBVIOUS
    <3>2. a \in Seq(Bred)
      BY <2>2, <3>1
    <3>3. Migrants(a) \in Seq(Bred) /\ Range(Migrants(a)) \subseteq Range(a)
      BY <3>2, MigrantsAre
    <3>4. PICK g : g = Migrants(a)
      OBVIOUS
    <3>5. Kept(g, K) \in Seq(Bred) /\ Range(Kept(g, K)) = Range(g) \cap K
      BY <3>3, <3>4, KeptIs
    <3> QED
      BY <3>1, <3>3, <3>4, <3>5
  <2> HIDE DEF from
  <2>4. PICK with : with = [j \in 1 .. m |-> from(j)]
    OBVIOUS
  <2>5. \A j \in 1 .. m : with[j] \in Seq(Bred) /\ with[j] = from(j)
    BY <2>3, <2>4
  <2>6. PICK q : q = [j \in 1 .. m |-> Survive(after[j], with[j], Size(m), KneeOf(m))]
    OBVIOUS
  <2>7. q = r
    BY <2>5, <2>6
  <2>8. PICK S : S = (UNION {Range(after[j]) \cup Range(with[j]) : j \in 1 .. m}) \ dead
    OBVIOUS
  <2>9. q \in [1 .. m -> Seq(Bred)] /\ KeepsOf(S, On(q))
    <3>1. \A j \in 1 .. m : with[j] \in Seq(Bred)
      BY <2>5
    <3>2. LET l == [j \in 1 .. m |-> Survive(after[j], with[j], Size(m), KneeOf(m))]
          IN  /\ l \in [1 .. m -> Seq(Bred)]
              /\ KeepsOf((UNION {Range(after[j]) \cup Range(with[j]) : j \in 1 .. m}) \ dead, On(l))
      BY <3>1, EachSurvives
    <3> QED
      BY <2>6, <2>8, <3>2
  <2>10. S = On(after)
    <3>1. DOMAIN after = 1 .. m
      OBVIOUS
    <3>2. \A j \in 1 .. m : Range(after[j]) \subseteq On(after)
      BY <3>1 DEF On
    <3>3. \A j \in 1 .. m : Range(with[j]) \subseteq On(after)
      BY <2>2, <2>3, <2>5, <3>2
    <3>5. On(after) \subseteq UNION {Range(after[j]) \cup Range(with[j]) : j \in 1 .. m}
      BY <3>1 DEF On
    <3>6. UNION {Range(after[j]) \cup Range(with[j]) : j \in 1 .. m} \subseteq On(after)
      BY <3>2, <3>3
    <3>4. UNION {Range(after[j]) \cup Range(with[j]) : j \in 1 .. m} = On(after)
      BY <3>5, <3>6
    <3> QED
      BY <2>8, <3>4
  <2> HIDE DEF r
  <2> QED
    BY <2>1, <2>7, <2>9, <2>10
<1> QED
  BY <1>1, <1>2

(* Those gone of the population that carry a gene value it has not, all of   *)
(* them where there is room.                                               *)
LEMMA AtticIs ==
    ASSUME NEW order \in Seq(Bred), NEW pop \in Seq(Bred), attic \in Seq(Bred)
    PROVE  /\ AtticOf(order, pop) \in Seq(Bred)
           /\ Len(AtticOf(order, pop)) < ATTIC =>
                 GenesOf(Range(order) \cup Range(Living(attic)))
                    \subseteq GenesOf(Range(pop) \cup Range(AtticOf(order, pop)))
<1>1. PICK al : al = Living(attic)
  OBVIOUS
<1>2. al \in Seq(Bred)
  BY <1>1, LivingIs
<1>3. PICK all : all = order \o al
  OBVIOUS
<1>4. all \in Seq(Bred) /\ Range(all) = Range(order) \cup Range(al)
  <2>1. order \o al \in Seq(Bred) /\ Range(order \o al) = Range(order) \cup Range(al)
    BY <1>2, RangeOfJoined
  <2> QED
    BY <1>3, <2>1
<1>5. PICK gone : gone = Kept(Uniq(all), Bred \ Range(pop))
  OBVIOUS
<1>6. Range(all) \subseteq Bred
  BY <1>4, RangeWithin
<1>7. gone \in Seq(Bred) /\ Range(gone) = Range(all) \ Range(pop)
  <2>1. PICK u : u = Uniq(all)
    OBVIOUS
  <2>2. u \in Seq(Bred) /\ Range(u) = Range(all)
    BY <1>4, <2>1, UniqIs
  <2>3. PICK K : K = Bred \ Range(pop)
    OBVIOUS
  <2>4. Kept(u, K) \in Seq(Bred) /\ Range(Kept(u, K)) = Range(u) \cap K
    BY <2>2, KeptIs
  <2> QED
    BY <1>5, <1>6, <2>1, <2>2, <2>3, <2>4
<1>8. PICK novel : novel = [i \in Bred |-> Cardinality(Genes(i) \ GenesOf(Range(pop)))]
  OBVIOUS
<1>9. ASSUME NEW i \in Bred
      PROVE  /\ novel[i] \in Nat
             /\ novel[i] > 0 \/ Genes(i) \subseteq GenesOf(Range(pop))
  <2>1. PICK G : G = Genes(i) \ GenesOf(Range(pop))
    OBVIOUS
  <2>2. IsFiniteSet(Genes(i))
    BY SelectionAssumption DEF Genes
  <2>3. IsFiniteSet(G)
    BY <2>1, <2>2, FS_Subset
  <2>4. Cardinality(G) \in Nat /\ (Cardinality(G) = 0 <=> G = {})
    BY <2>3, FS_CardinalityType, FS_EmptySet
  <2>5. novel[i] = Cardinality(G)
    BY <1>8, <2>1
  <2>6. G = {} => Genes(i) \subseteq GenesOf(Range(pop))
    BY <2>1
  <2> QED
    BY <2>4, <2>5, <2>6
<1>10. PICK new : new = Kept(gone, {i \in Bred : novel[i] > 0})
  OBVIOUS
<1>11. new \in Seq(Bred) /\ Range(new) = Range(gone) \cap {i \in Bred : novel[i] > 0}
  BY <1>7, <1>10, KeptIs
<1>12. PICK key : key = [i \in Bred |-> -novel[i]]
  OBVIOUS
<1>13. \A i \in Range(new) : key[i] \in Int
  BY <1>9, <1>11, <1>12
<1>14. PICK s : s = SortedBy(new, key)
  OBVIOUS
<1>15. s \in Seq(Bred) /\ Range(s) = Range(new)
  BY <1>11, <1>13, <1>14, SortedByIs
<1>16. ATTIC \in Nat
  BY SelectionAssumption
<1>17. PICK r : r = UpTo(s, ATTIC)
  OBVIOUS
<1>18. r \in Seq(Bred) /\ (Len(r) < ATTIC => Range(r) = Range(s))
  BY <1>15, <1>16, <1>17, UpToIs
<1>19. AtticOf(order, pop) = r
  BY <1>1, <1>3, <1>5, <1>8, <1>10, <1>12, <1>14, <1>17 DEF AtticOf
<1>20. ASSUME Len(r) < ATTIC, NEW i \in Range(all)
       PROVE  Genes(i) \subseteq GenesOf(Range(pop) \cup Range(r))
  <2>1. i \in Bred
    BY <1>6
  <2>2. CASE i \in Range(pop)
    BY <2>2 DEF GenesOf
  <2>3. CASE Genes(i) \subseteq GenesOf(Range(pop))
    BY <2>3 DEF GenesOf
  <2>4. CASE i \notin Range(pop) /\ ~(Genes(i) \subseteq GenesOf(Range(pop)))
    <3>1. novel[i] > 0
      BY <1>9, <2>1, <2>4
    <3>2. i \in Range(r)
      BY <1>7, <1>11, <1>15, <1>18, <1>20, <2>1, <2>4, <3>1
    <3> QED
      BY <3>2 DEF GenesOf
  <2> QED
    BY <2>2, <2>3, <2>4
<1>21. ASSUME Len(r) < ATTIC
       PROVE  GenesOf(Range(all)) \subseteq GenesOf(Range(pop) \cup Range(r))
  <2>1. PICK G : G = GenesOf(Range(pop) \cup Range(r))
    OBVIOUS
  <2>2. \A i \in Range(all) : Genes(i) \subseteq G
    BY <1>20, <1>21, <2>1
  <2>3. GenesOf(Range(all)) \subseteq G
    BY <2>2 DEF GenesOf
  <2> QED
    BY <2>1, <2>3
<1> QED
  BY <1>1, <1>4, <1>18, <1>19, <1>21

-----------------------------------------------------------------------------
(* The islands and their children are lists of designs.                     *)
IslandsOf(m, s) == s \in [1 .. m -> Seq(Bred)] /\ Len(s) = m

SelInv ==
    /\ \E m \in Nat \ {0} : IslandsOf(m, isl) /\ (phase = "survive" => IslandsOf(m, kids))
    /\ attic \in Seq(Bred) /\ dead \subseteq Bred

LEMMA IslandsAre ==
    ASSUME NEW m \in Nat, NEW s \in [1 .. m -> Seq(Bred)]
    PROVE  IslandsOf(m, s) /\ DOMAIN s = 1 .. m /\ \A j \in 1 .. m : s[j] \in Seq(Bred)
<1>1. PICK S : S = Seq(Bred)
  OBVIOUS
<1>2. s \in [1 .. m -> S]
  BY <1>1
<1>3. s \in Seq(S) /\ Len(s) = m /\ DOMAIN s = 1 .. m
  BY <1>2
<1> QED
  BY <1>1, <1>2, <1>3 DEF IslandsOf

LEMMA IslandsJoined ==
    ASSUME NEW m \in Nat, NEW s, IslandsOf(m, s)
    PROVE  FlattenSeq(s) \in Seq(Bred) /\ Range(FlattenSeq(s)) = On(s) /\ On(s) \subseteq Bred
<1>1. DOMAIN s = 1 .. m /\ s \in [1 .. m -> Seq(Bred)]
  BY DEF IslandsOf
<1>2. PICK S : S = Seq(Bred)
  OBVIOUS
<1>3. s \in Seq(S)
  <2>1. s \in [1 .. m -> S]
    BY <1>1, <1>2
  <2> QED
    BY <2>1
<1>4. FlattenSeq(s) \in Seq(Bred) /\ Range(FlattenSeq(s)) = UNION {Range(s[k]) : k \in DOMAIN s}
  BY <1>2, <1>3, FlatIs
<1>5. Range(FlattenSeq(s)) \subseteq Bred
  BY <1>4, RangeWithin
<1> QED
  BY <1>4, <1>5 DEF On

LEMMA Dealing ==
    ASSUME NEW pop \in Seq(Bred), NEW m \in Nat
    PROVE  IslandsOf(m, Dealt(pop, m))
<1>1. ASSUME NEW j \in 1 .. m
      PROVE  Picked(pop, Ascending({p \in DOMAIN pop : (p - 1) % m = j - 1})) \in Seq(Bred)
  <2>1. PICK P : P = {p \in DOMAIN pop : (p - 1) % m = j - 1}
    OBVIOUS
  <2>2. P \in SUBSET DOMAIN pop
    BY <2>1
  <2>3. Picked(pop, Ascending(P)) \in Seq(Bred)
    BY <2>2, AtPlaces
  <2> QED
    BY <2>1, <2>3
<1>2. PICK s : s = Dealt(pop, m)
  OBVIOUS
<1>3. s \in [1 .. m -> Seq(Bred)]
  BY <1>1, <1>2 DEF Dealt
<1> QED
  BY <1>2, <1>3, IslandsAre

LEMMA Numbered ==
    ASSUME NEW S \in SUBSET Bred
    PROVE  Ascending(S) \in Seq(Bred)
<1>1. S \in SUBSET Nat /\ IsFiniteSet(S)
  BY SelectionAssumption, FS_Subset
<1>2. Ascending(S) \in Seq(S)
  BY <1>1, AscendingIs
<1>3. PICK s : s = Ascending(S)
  OBVIOUS
<1>4. s \in Seq(Bred)
  BY <1>2, <1>3
<1> QED
  BY <1>3, <1>4

LEMMA SelStarts == SelInit => SelInv
<1> SUFFICES ASSUME SelInit PROVE SelInv
  OBVIOUS
<1>1. PICK k \in IslandCounts : isl = Dealt(Ascending({i \in Bred : i <= N}), k)
  BY DEF SelInit
<1>2. k \in Nat \ {0}
  BY SelectionAssumption
<1>3. PICK S : S = {i \in Bred : i <= N}
  OBVIOUS
<1>4. S \in SUBSET Bred
  BY <1>3
<1>5. PICK pop : pop = Ascending(S)
  OBVIOUS
<1>6. pop \in Seq(Bred)
  BY <1>4, <1>5, Numbered
<1>7. IslandsOf(k, isl)
  BY <1>1, <1>2, <1>3, <1>5, <1>6, Dealing
<1>8. attic = <<>> /\ phase = "breed" /\ dead \subseteq Bred
  BY DEF SelInit
<1>9. attic \in Seq(Bred)
  BY <1>8
<1> QED
  BY <1>2, <1>7, <1>8, <1>9 DEF SelInv


(* What a step of the selection does, where it finds the islands so.        *)
LEMMA SelectStep ==
    ASSUME NEW m \in Nat \ {0}, IslandsOf(m, isl), IslandsOf(m, kids), attic \in Seq(Bred), dead \subseteq Bred,
           NEW next, next = Migrated(SurviveEach(kids))
    PROVE  /\ IslandsOf(m, next)
           /\ KeepsOf(Candidates, On(next))
           /\ Pool \in Seq(Bred) /\ Range(Pool) = Candidates
<1>1. /\ isl \in [1 .. m -> Seq(Bred)] /\ Len(isl) = m /\ DOMAIN isl = 1 .. m
      /\ kids \in [1 .. m -> Seq(Bred)] /\ Len(kids) = m /\ DOMAIN kids = 1 .. m
  BY DEF IslandsOf
<1>2. PICK s, w : s = isl /\ w = kids
  OBVIOUS
<1>3. PICK r : r = [j \in 1 .. m |-> Survive(s[j], w[j], Size(m), KneeOf(m))]
  OBVIOUS
<1>4. r = SurviveEach(kids)
  BY <1>1, <1>2, <1>3 DEF SurviveEach
<1>5. PICK C : C = (UNION {Range(s[j]) \cup Range(w[j]) : j \in 1 .. m}) \ dead
  OBVIOUS
<1>6. r \in [1 .. m -> Seq(Bred)] /\ KeepsOf(C, On(r))
  <2>1. s \in [1 .. m -> Seq(Bred)] /\ \A j \in 1 .. m : w[j] \in Seq(Bred)
    BY <1>1, <1>2
  <2> QED
    BY <1>3, <1>5, <2>1, EachSurvives
<1>7. IslandsOf(m, r)
  BY <1>6, IslandsAre
<1>8. On(r) \subseteq C
  BY <1>6 DEF KeepsOf
<1>9. Len(r) = m /\ On(r) \cap dead = {}
  BY <1>5, <1>7, <1>8 DEF IslandsOf
<1>10. next = Migrated(r)
  BY <1>4
<1>11. next \in [1 .. m -> Seq(Bred)] /\ KeepsOf(On(r), On(next))
  <2>1. Migrated(r) \in [1 .. m -> Seq(Bred)] /\ KeepsOf(On(r), On(Migrated(r)))
    BY <1>6, <1>9, MigratedIs
  <2> QED
    BY <1>10, <2>1
<1>12. \A j \in 1 .. m : Range(s[j]) \subseteq Bred /\ Range(w[j]) \subseteq Bred
  BY <1>1, <1>2, RangeWithin
<1>13. C \in SUBSET Bred
  BY <1>5, <1>12
<1>14. KeepsOf(C, On(next))
  BY <1>6, <1>11, <1>13, KeepsOn
<1>15. \A j \in 1 .. m : Range(s[j] \o w[j]) = Range(s[j]) \cup Range(w[j])
  <2>1. TAKE j \in 1 .. m
  <2>2. PICK a, b : a = s[j] /\ b = w[j]
    OBVIOUS
  <2>3. a \in Seq(Bred) /\ b \in Seq(Bred)
    BY <1>1, <1>2, <2>2
  <2>4. Range(a \o b) = Range(a) \cup Range(b)
    BY <2>3, RangeOfJoined
  <2> QED
    BY <2>2, <2>4
<1>16. Candidates = C
  <2>1. Candidates = (UNION {Range(s[j] \o w[j]) : j \in 1 .. m}) \ dead
    BY <1>1, <1>2 DEF Candidates
  <2>2. UNION {Range(s[j] \o w[j]) : j \in 1 .. m} = UNION {Range(s[j]) \cup Range(w[j]) : j \in 1 .. m}
    BY <1>15
  <2> QED
    BY <1>5, <2>1, <2>2
<1>17. Pool \in Seq(Bred) /\ Range(Pool) = C
  <2>1. PICK f, g : f = FlattenSeq(s) /\ g = FlattenSeq(w)
    OBVIOUS
  <2>2. f \in Seq(Bred) /\ Range(f) = On(s) /\ g \in Seq(Bred) /\ Range(g) = On(w)
    BY <1>2, <2>1, IslandsJoined
  <2>3. PICK fg : fg = f \o g
    OBVIOUS
  <2>4. f \o g \in Seq(Bred) /\ Range(f \o g) = Range(f) \cup Range(g)
    BY <2>2, RangeOfJoined
  <2>5. fg \in Seq(Bred) /\ Range(fg) = On(s) \cup On(w)
    BY <2>2, <2>3, <2>4
  <2>6. Living(fg) \in Seq(Bred) /\ Range(Living(fg)) = Range(fg) \ dead
    BY <2>5, LivingIs
  <2>7. Pool = Living(fg)
    BY <1>2, <2>1, <2>3 DEF Pool
  <2>8. On(s) \cup On(w) = UNION {Range(s[j]) \cup Range(w[j]) : j \in 1 .. m}
    <3>1. DOMAIN s = 1 .. m /\ DOMAIN w = 1 .. m
      BY <1>1, <1>2
    <3> QED
      BY <3>1 DEF On
  <2> QED
    BY <1>5, <2>5, <2>6, <2>7, <2>8
<1> QED
  BY <1>11, <1>14, <1>16, <1>17, IslandsAre

(* The attic after: designs, and every gene value the population has not.   *)
LEMMA AtticStep ==
    ASSUME NEW m \in Nat \ {0}, IslandsOf(m, isl), IslandsOf(m, kids), attic \in Seq(Bred), dead \subseteq Bred,
           NEW next, next = Migrated(SurviveEach(kids)),
           NEW a, a = IF ATTIC = 0 THEN <<>> ELSE AtticOf(Order(Pool), Uniq(FlattenSeq(next)))
    PROVE  /\ a \in Seq(Bred)
           /\ Len(a) < ATTIC => GenesOf(Candidates \cup Range(Living(attic))) \subseteq GenesOf(On(next) \cup Range(a))
<1>1. IslandsOf(m, next) /\ Pool \in Seq(Bred) /\ Range(Pool) = Candidates
  BY SelectStep
<1>2. PICK order : order = Order(Pool)
  OBVIOUS
<1>3. order \in Seq(Bred) /\ Range(order) = Candidates
  <2>1. PICK p : p = Pool
    OBVIOUS
  <2>2. p \in Seq(Bred)
    BY <1>1, <2>1
  <2>3. Order(p) \in Seq(Bred) /\ Range(Order(p)) = Range(p)
    BY <2>2, OrderIs
  <2> QED
    BY <1>1, <1>2, <2>1, <2>3
<1>4. PICK f : f = FlattenSeq(next)
  OBVIOUS
<1>5. f \in Seq(Bred) /\ Range(f) = On(next)
  BY <1>1, <1>4, IslandsJoined
<1>6. PICK pop : pop = Uniq(f)
  OBVIOUS
<1>7. pop \in Seq(Bred) /\ Range(pop) = On(next)
  BY <1>5, <1>6, UniqIs
<1>8. PICK b : b = AtticOf(order, pop)
  OBVIOUS
<1>9. /\ b \in Seq(Bred)
      /\ Len(b) < ATTIC => GenesOf(Candidates \cup Range(Living(attic))) \subseteq GenesOf(On(next) \cup Range(b))
  BY <1>3, <1>7, <1>8, AtticIs
<1>10. CASE ATTIC = 0
  <2>1. a = <<>>
    BY <1>10
  <2>2. a \in Seq(Bred) /\ ~(Len(a) < ATTIC)
    BY <1>10, <2>1
  <2> QED
    BY <2>2
<1>11. CASE ATTIC # 0
  <2>1. a = b
    BY <1>2, <1>4, <1>6, <1>8, <1>11
  <2> QED
    BY <1>9, <2>1
<1> QED
  BY <1>10, <1>11

LEMMA BreedKeeps == SelInv /\ Breed => SelInv'
<1> SUFFICES ASSUME SelInv, Breed PROVE SelInv'
  OBVIOUS
<1>1. PICK m \in Nat \ {0} : IslandsOf(m, isl)
  BY DEF SelInv
<1>2. attic \in Seq(Bred) /\ dead \subseteq Bred
  BY DEF SelInv
<1>3. isl' = isl /\ attic' = attic
  BY DEF Breed
<1>4. PICK made : made = {Ascending(S) : S \in {S \in SUBSET Bred : Cardinality(S) <= Litter}}
  OBVIOUS
<1>5. Len(isl) = m
  BY <1>1 DEF IslandsOf
<1>6. kids' \in [1 .. m -> made]
  BY <1>4, <1>5 DEF Breed
<1>7. made \subseteq Seq(Bred)
  BY <1>4, Numbered
<1>8. PICK k : k = kids'
  OBVIOUS
<1>9. k \in [1 .. m -> Seq(Bred)]
  BY <1>6, <1>7, <1>8
<1>10. IslandsOf(m, k) /\ DOMAIN k = 1 .. m
  BY <1>9, IslandsAre
<1>11. PICK asked : asked = Range(Pop) \cup UNION {Range(k[j]) : j \in DOMAIN k}
  OBVIOUS
<1>12. Reads(asked)
  BY <1>8, <1>11 DEF Breed
<1>13. asked \subseteq Bred
  <2>1. PICK f : f = FlattenSeq(isl)
    OBVIOUS
  <2>2. f \in Seq(Bred)
    BY <1>1, <2>1, IslandsJoined
  <2>3. Pop = Uniq(f)
    BY <2>1 DEF Pop
  <2>4. Uniq(f) \in Seq(Bred)
    BY <2>2, UniqIs
  <2>5. Range(Pop) \subseteq Bred
    BY <2>3, <2>4, RangeWithin
  <2>6. \A j \in DOMAIN k : Range(k[j]) \subseteq Bred
    BY <1>9, <1>10, RangeWithin
  <2> QED
    BY <1>11, <2>5, <2>6
<1>14. dead' \subseteq Bred
  BY <1>2, <1>12, <1>13 DEF Reads
<1>15. IslandsOf(m, isl') /\ IslandsOf(m, kids')
  BY <1>1, <1>3, <1>8, <1>10
<1> QED
  BY <1>2, <1>3, <1>14, <1>15 DEF SelInv

LEMMA SelectKeeps == SelInv /\ SelectNext => SelInv'
<1> SUFFICES ASSUME SelInv, SelectNext PROVE SelInv'
  OBVIOUS
<1>1. phase = "survive" /\ phase' = "breed" /\ dead' = dead
  BY DEF SelectNext
<1>2. PICK m \in Nat \ {0} : IslandsOf(m, isl) /\ IslandsOf(m, kids)
  BY <1>1 DEF SelInv
<1>3. attic \in Seq(Bred) /\ dead \subseteq Bred
  BY DEF SelInv
<1>4. PICK next, a : next = isl' /\ a = attic'
  OBVIOUS
<1>5. /\ next = Migrated(SurviveEach(kids))
      /\ a = IF ATTIC = 0 THEN <<>> ELSE AtticOf(Order(Pool), Uniq(FlattenSeq(next)))
  BY <1>4 DEF SelectNext
<1>6. IslandsOf(m, next)
  BY <1>2, <1>3, <1>5, SelectStep
<1>7. a \in Seq(Bred)
  BY <1>2, <1>3, <1>5, AtticStep
<1>8. IslandsOf(m, isl') /\ attic' \in Seq(Bred)
  BY <1>4, <1>6, <1>7
<1> QED
  BY <1>1, <1>3, <1>8 DEF SelInv

LEMMA SelKeeps == SelInv /\ [SelNext]_selVars => SelInv'
<1> SUFFICES ASSUME SelInv, [SelNext]_selVars PROVE SelInv'
  OBVIOUS
<1>1. CASE Breed
  BY <1>1, BreedKeeps
<1>2. CASE SelectNext
  BY <1>2, SelectKeeps
<1>3. CASE Stop
  <2>1. isl' = isl /\ attic' = attic /\ dead' = dead /\ phase' = "stopped"
    BY <1>3 DEF Stop
  <2> QED
    BY <2>1 DEF SelInv
<1>4. CASE UNCHANGED selVars
  <2>1. isl' = isl /\ attic' = attic /\ dead' = dead /\ phase' = phase /\ kids' = kids
    BY <1>4 DEF selVars
  <2> QED
    BY <2>1 DEF SelInv
<1> QED
  BY <1>1, <1>2, <1>3, <1>4 DEF SelNext

(* The islands, their children, the attic and the dead are designs, and     *)
(* there are as many litters as islands (evolve.py:2371).                  *)
THEOREM SelInductive == SelSpec => []SelInv
<1>1. SelInit => SelInv
  BY SelStarts
<1>2. SelInv /\ [SelNext]_selVars => SelInv'
  BY SelKeeps
<1> QED
  BY <1>1, <1>2, PTL DEF SelSpec

(* No family dies gone by crowding and the knee survives, whatever the       *)
(* designs, their measures and families, with any number of islands and    *)
(* migration or not: one design that is read dead is the only way gone      *)
(* (evolve.py:1705, 2371).                                                 *)
THEOREM NoFamilyDiesOutEver == SelSpec => NoFamilyDiesOut
<1> DEFINE Held == phase = "survive" =>
          LET pop == UNION {Range(isl'[j]) : j \in DOMAIN isl'}
          IN  /\ {Measures[i].enc : i \in Candidates} = {Measures[i].enc : i \in pop}
              /\ \A j \in Candidates : Q_KEEP > 0 /\ Measures[j].rss # 0 =>
                    \E i \in pop : Measures[i].rss # 0 /\ Quality(i) <= Quality(j)
<1>1. SelInv /\ [SelNext]_selVars => [Held]_selVars
  <2> SUFFICES ASSUME SelInv, SelNext, phase = "survive" PROVE Held
    BY DEF selVars
  <2>1. SelectNext
    BY DEF SelNext, Breed, Stop
  <2>2. PICK m \in Nat \ {0} : IslandsOf(m, isl) /\ IslandsOf(m, kids)
    BY DEF SelInv
  <2>3. attic \in Seq(Bred) /\ dead \subseteq Bred
    BY DEF SelInv
  <2>4. PICK next : next = isl'
    OBVIOUS
  <2>5. next = Migrated(SurviveEach(kids))
    BY <2>1, <2>4 DEF SelectNext
  <2>6. KeepsOf(Candidates, On(next))
    BY <2>2, <2>3, <2>5, SelectStep
  <2>7. PICK pop : pop = UNION {Range(isl'[j]) : j \in DOMAIN isl'}
    OBVIOUS
  <2>8. KeepsOf(Candidates, pop)
    BY <2>4, <2>6, <2>7 DEF On
  <2>9. {Measures[i].enc : i \in Candidates} = {Measures[i].enc : i \in pop}
    BY <2>8 DEF KeepsOf
  <2>10. \A j \in Candidates : Q_KEEP > 0 /\ Measures[j].rss # 0 =>
            \E i \in pop : Measures[i].rss # 0 /\ Quality(i) <= Quality(j)
    BY <2>8, Zenon DEF KeepsOf
  <2> QED
    BY <2>7, <2>9, <2>10
<1>2. SelSpec => []SelInv
  BY SelInductive
<1> QED
  BY <1>1, <1>2, PTL DEF SelSpec, NoFamilyDiesOut

(* Demoted, not deleted: where the attic has room, no gene value that a     *)
(* living candidate or the attic has is lost (evolve.py:1697, 2403).       *)
THEOREM NoGeneForgottenEver == SelSpec => NoGeneForgotten
<1> DEFINE Held == phase = "survive" /\ Len(attic') < ATTIC =>
          GenesOf(Candidates \cup Range(Living(attic)))
             \subseteq GenesOf((UNION {Range(isl'[j]) : j \in DOMAIN isl'}) \cup Range(attic'))
<1>1. SelInv /\ [SelNext]_selVars => [Held]_selVars
  <2> SUFFICES ASSUME SelInv, SelNext, phase = "survive", Len(attic') < ATTIC
               PROVE  GenesOf(Candidates \cup Range(Living(attic)))
                         \subseteq GenesOf((UNION {Range(isl'[j]) : j \in DOMAIN isl'}) \cup Range(attic'))
    BY DEF selVars
  <2>1. SelectNext
    BY DEF SelNext, Breed, Stop
  <2>2. PICK m \in Nat \ {0} : IslandsOf(m, isl) /\ IslandsOf(m, kids)
    BY DEF SelInv
  <2>3. attic \in Seq(Bred) /\ dead \subseteq Bred
    BY DEF SelInv
  <2>4. PICK next, a : next = isl' /\ a = attic'
    OBVIOUS
  <2>5. /\ next = Migrated(SurviveEach(kids))
        /\ a = IF ATTIC = 0 THEN <<>> ELSE AtticOf(Order(Pool), Uniq(FlattenSeq(next)))
    BY <2>1, <2>4 DEF SelectNext
  <2>6. Len(a) < ATTIC => GenesOf(Candidates \cup Range(Living(attic))) \subseteq GenesOf(On(next) \cup Range(a))
    BY <2>2, <2>3, <2>5, AtticStep
  <2> QED
    BY <2>4, <2>6 DEF On
<1>2. SelSpec => []SelInv
  BY SelInductive
<1> QED
  BY <1>1, <1>2, PTL DEF SelSpec, NoGeneForgotten

-----------------------------------------------------------------------------
(* ---- A design's evaluation (Trial) ---- *)

Eight(g) == fate[g.rest].at[8]
Four(g)  == fate[g.rest].at[4]

(* A worker's job j: its directory, and what becomes of the design there. *)
Mine(j)  == Dir(j.g, j.env)
Truth(j) == fate[j.g.rest].at[j.env]
Working(w) == job[w].at # "idle"

Run    == [fails : Checks \cup {"nothing"}, how : {"wrong", "quiet", "hangs"},
           time : Nat \ {0}, total : Nat, rss : Nat \ {0}]
Ends   == Checks \cup {"ok", "stopped", "reach limit", "timed out"}
Full   == [status : Ends, gen : Nat, speed : Nat, total : Nat, rss : Nat, speed32 : Nat]
Places == {"idle", "build", "alive", "first", "rounds", "clean"}
JobOf  == [at : Places, g : Designs \cup {NoDesign}, env : Width, ref : Width,
           rec : Full \cup {[status |-> "none"]}]
Point  == [speed : Nat, total : Nat, rss : Nat]

TrialTypes ==
    /\ fate \in [Rests -> Fates] /\ generation \in Nat /\ batch \subseteq Designs
    /\ job \in [Workers -> JobOf] /\ stair \subseteq Point
    /\ DOMAIN records \subseteq Designs /\ \A g \in DOMAIN records : records[g] \in Full
    /\ DOMAIN done \subseteq Designs /\ \A g \in DOMAIN done : done[g] \in Full

(* A design is in one place: to be taken, with one worker, done or recorded. *)
InOnePlace ==
    /\ \A g \in batch : g \notin DOMAIN done \cup DOMAIN records
    /\ \A g \in DOMAIN done : g \notin DOMAIN records
    /\ \A w \in Workers : Working(w) =>
           /\ job[w].g \in Designs \ (batch \cup DOMAIN done \cup DOMAIN records)
           /\ \A v \in Workers \ {w} : Working(v) => job[v].g # job[w].g

(* The globals are those of the width built for. *)
Swapped(j) ==
    /\ j.ref = j.env
    /\ j.env = 4 => TWO_WIDTHS /\ j.at \in {"build", "alive", "rounds"}
    /\ j.at = "first" => j.env = 8

(* The engine in a worker's directory is the one it built there. *)
Built(j) ==
    j.at \in {"alive", "first", "rounds"} =>
        /\ Mine(j) \in DOMAIN dirs
        /\ dirs[Mine(j)].of = IF j.env = 4 THEN Capped(j.g) ELSE j.g
        /\ dirs[Mine(j)].width = j.env

(* What it has passed so far, and written down. *)
Answers(g, run) ==
    run.fails \in {"nothing", "measure"} \/ (run.fails \in {"far", "full"} /\ fate[g.rest].hand)
Passed(j) ==
    /\ j.at \in {"build", "alive", "first", "rounds"} =>
          j.rec \in Full /\ j.rec.status = "ok" /\ j.rec.speed32 = 0 /\ ~ReachLethal(j.g)
    /\ j.at = "alive" => Truth(j).fails # "build"
    /\ j.at \in {"first", "rounds"} => Answers(j.g, Truth(j))
    /\ j.at \in {"alive", "first", "rounds"} \/ j.env = 4 => j.rec.total = Eight(j.g).total
    /\ j.env = 4 => /\ Outcome(j.g, Eight(j.g)) = "ok"
                    /\ j.rec.speed = Speed(Eight(j.g), 8) /\ j.rec.rss = Eight(j.g).rss

(* JudgedByItself, of one record. *)
Own(g, rec) ==
    LET alone == JudgedAlone(g)
    IN  \/ rec.status = "stopped" /\ alone.status = "ok" /\ g \notin Audited
        \/ rec.status = "ok" /\ alone = Restrict(rec, DOMAIN alone)
        \/ rec.status \notin {"ok", "stopped"} /\ alone.status = rec.status

Steady(j) ==
    /\ Swapped(j) /\ Passed(j)
    /\ j.at = "clean" => j.rec \in Full /\ Own(j.g, j.rec)

Fair ==
    /\ \A g \in DOMAIN records : Own(g, records[g])
    /\ \A g \in DOMAIN done : Own(g, done[g])
    /\ \A w \in Workers : Steady(job[w]) /\ Built(job[w])

TrialInv == TrialTypes /\ InOnePlace /\ Fair

(* StoppedIsDominated, of one record: by one measured before its generation. *)
Beats(p, rec, alone) ==
    p.status = "ok" /\ p.gen < rec.gen /\ Dominates(OneWidth(p), OneWidth(alone))
Beaten(g, rec) ==
    rec.status = "stopped" => \E p \in DOMAIN records : Beats(records[p], rec, JudgedAlone(g))
StairMeasured ==
    \A q \in stair : \E p \in DOMAIN records :
        /\ records[p].status = "ok" /\ records[p].gen < generation
        /\ q = [speed |-> records[p].speed, total |-> records[p].total, rss |-> records[p].rss]
Stops ==
    /\ StairMeasured
    /\ \A g \in DOMAIN records : Beaten(g, records[g])
    /\ \A g \in DOMAIN done : Beaten(g, done[g])
    /\ \A w \in Workers : /\ job[w].at = "clean" => Beaten(job[w].g, job[w].rec)
                          /\ Working(w) => job[w].rec.gen = generation
-----------------------------------------------------------------------------
(* What the constants are. *)
LEMMA RunFacts ==
    ASSUME NEW fs \in [Rests -> Fates], NEW g \in Designs, NEW x \in Width
    PROVE  /\ fs[g.rest] \in Fate /\ fs[g.rest].at[x] \in Run /\ fs[g.rest].hand \in BOOLEAN
           /\ RefTime[x] \in Nat \ {0}
<1>1. g.rest \in Rests
  BY DEF Rests
<1>2. fs[g.rest] \in Fate
  BY <1>1, TrialAssumption
<1> QED BY <1>2, TrialAssumption DEF Fate, Run

LEMMA CappedFacts ==
    ASSUME NEW g \in Designs
    PROVE  /\ Capped(g).rest = g.rest /\ Capped(g).scale \in 0 .. 2
           /\ Capped(g) # NoDesign /\ g # NoDesign /\ g.scale \in 0 .. 3
<1>1. g \in [rest : Rests, scale : 0 .. 3] /\ g # NoDesign
  BY TrialAssumption
<1>2. g = [rest |-> g.rest, scale |-> g.scale] /\ g.scale \in 0 .. 3
  BY <1>1
<1>3. Capped(g) = [rest |-> g.rest, scale |-> IF g.scale > 2 THEN 2 ELSE g.scale]
  BY <1>1 DEF Capped
<1>4. Capped(g) # NoDesign
  BY <1>1, <1>2, <1>3 DEF NoDesign
<1> QED BY <1>1, <1>2, <1>3, <1>4

LEMMA SpeedFacts ==
    ASSUME NEW run \in Run, NEW x \in Width
    PROVE  Speed(run, x) \in Nat
<1>1. run.time \in Nat /\ RefTime[x] \in Nat \ {0}
  BY TrialAssumption DEF Run
<1> QED BY <1>1 DEF Speed

(* Directories are by design and by width. *)
LEMMA DirApart ==
    ASSUME NEW g, NEW h, NEW x, NEW y
    PROVE  Dir(g, x) = Dir(h, y) <=> g = h /\ x = y
BY DEF Dir

(* How a check ends is none of the good ends. *)
LEMMA DeathFacts ==
    ASSUME NEW run \in Run, run.fails # "nothing"
    PROVE  Death(run) \in Ends /\ Death(run) \notin {"ok", "stopped"}
BY DEF Run, Checks, Death, Ends

LEMMA OutcomeFacts ==
    ASSUME NEW g, NEW run \in Run, ~Answers(g, run) \/ run.fails = "measure",
           fate[g.rest].hand \in BOOLEAN
    PROVE  /\ Outcome(g, run) = Death(run) /\ Outcome(g, run) \in Ends
           /\ Outcome(g, run) \notin {"ok", "stopped"}
<1>1. run.fails # "nothing" /\ ~(run.fails \in {"far", "full"} /\ fate[g.rest].hand)
  BY DEF Answers
<1>2. Outcome(g, run) = Death(run)
  BY <1>1 DEF Outcome
<1> QED BY <1>1, <1>2, DeathFacts

LEMMA AnswersOk ==
    ASSUME NEW g, NEW run, Answers(g, run), run.fails # "measure"
    PROVE  Outcome(g, run) = "ok"
BY DEF Answers, Outcome

(* A design's fate does not change. *)
LEMMA AloneKept ==
    ASSUME NEW g, fate' = fate
    PROVE  /\ JudgedAlone(g)' = JudgedAlone(g)
           /\ \A run : Outcome(g, run)' = Outcome(g, run) /\ (Answers(g, run)' <=> Answers(g, run))
BY DEF JudgedAlone, Outcome, Answers

LEMMA OwnKept ==
    ASSUME NEW g, NEW rec, fate' = fate
    PROVE  Own(g, rec)' <=> Own(g, rec)
BY AloneKept DEF Own

LEMMA SteadyKept ==
    ASSUME NEW j, fate' = fate, Steady(j)
    PROVE  Steady(j)'
<1>1. Truth(j)' = Truth(j) /\ Eight(j.g)' = Eight(j.g)
  BY DEF Truth, Eight
<1>2. Passed(j)'
  BY <1>1, AloneKept DEF Steady, Passed
<1> QED BY <1>2, OwnKept DEF Steady, Swapped
-----------------------------------------------------------------------------
Busy == {"build", "alive", "first", "rounds"}

(* The job a failed check leaves, and that a step leaves in place of one. *)
CaughtJob(j, why) ==
    IF j.env = 8 THEN [j EXCEPT !.at = "clean", !.rec.status = why]
                 ELSE [j EXCEPT !.at = "clean", !.env = 8, !.ref = 8]
Becomes(w, jn) == job' = [job EXCEPT ![w] = jn]

LEMMA JobFacts ==
    ASSUME TrialTypes, InOnePlace, NEW w \in Workers
    PROVE  /\ job[w] \in JobOf
           /\ Working(w) => job[w].g \in Designs
           /\ \A jn : Becomes(w, jn) => job'[w] = jn /\ \A v \in Workers \ {w} : job'[v] = job[v]
BY DEF TrialTypes, InOnePlace, Becomes

LEMMA CaughtIs ==
    ASSUME TrialTypes, NEW w \in Workers, NEW why, Caught(w, why)
    PROVE  Becomes(w, CaughtJob(job[w], why))
BY DEF TrialTypes, Caught, CaughtJob, Becomes

LEMMA GoesIs ==
    ASSUME TrialTypes, NEW w \in Workers, NEW at, Goes(w, at)
    PROVE  Becomes(w, [job[w] EXCEPT !.at = at])
BY DEF TrialTypes, Goes, Becomes

(* A failed check at 8 is the design's end, and as it would die alone; at 4 *)
(* it leaves it alive, with no speed there.                                *)
LEMMA CaughtFine ==
    ASSUME TrialTypes, NEW j \in JobOf, Steady(j), j.at \in Busy, j.g \in Designs,
           ~Answers(j.g, Truth(j)) \/ Truth(j).fails = "measure",
           NEW why, why = Death(Truth(j))
    PROVE  LET jn == CaughtJob(j, why)
           IN  /\ jn \in JobOf /\ Steady(jn) /\ jn.at = "clean" /\ jn.g = j.g
               /\ jn.rec \in Full /\ jn.rec.status # "stopped" /\ jn.rec.gen = j.rec.gen
<1> DEFINE run == Truth(j)
           jn == CaughtJob(j, why)
<1>1. /\ run \in Run /\ Eight(j.g) \in Run /\ Four(j.g) \in Run /\ fate[j.g.rest].hand \in BOOLEAN
      /\ j.env \in Width
  BY RunFacts DEF TrialTypes, JobOf, Width, Truth, Eight, Four
<1>2. Outcome(j.g, run) = why /\ why \in Ends \ {"ok", "stopped"}
  BY <1>1, OutcomeFacts
<1>3. j.rec \in Full /\ j.rec.status = "ok" /\ j.rec.speed32 = 0 /\ ~ReachLethal(j.g)
  BY DEF Steady, Passed, Busy
<1>4. CASE j.env = 8
  <2>1. jn = [at |-> "clean", g |-> j.g, env |-> 8, ref |-> j.ref, rec |-> [j.rec EXCEPT !.status = why]]
    BY <1>4 DEF CaughtJob, JobOf
  <2>2. jn.rec \in Full /\ jn.rec.status = why /\ jn.rec.gen = j.rec.gen
    BY <1>2, <1>3, <2>1 DEF Full
  <2>3. jn \in JobOf /\ Swapped(jn)
    BY <1>4, <2>1, <2>2 DEF JobOf, Steady, Swapped, Places, Width
  <2>4. JudgedAlone(j.g).status = why
    BY <1>2, <1>3, <1>4 DEF JudgedAlone, Truth
  <2>5. Own(j.g, jn.rec)
    BY <1>2, <2>2, <2>4 DEF Own
  <2>6. Passed(jn)
    BY <2>1 DEF Passed
  <2> QED BY <1>2, <2>1, <2>2, <2>3, <2>5, <2>6 DEF Steady
<1>5. CASE j.env = 4
  <2>1. jn = [at |-> "clean", g |-> j.g, env |-> 8, ref |-> 8, rec |-> j.rec]
    <3>1. jn = [j EXCEPT !.at = "clean", !.env = 8, !.ref = 8]
      BY <1>5 DEF CaughtJob
    <3>2. j = [at |-> j.at, g |-> j.g, env |-> j.env, ref |-> j.ref, rec |-> j.rec]
      BY DEF JobOf
    <3> HIDE DEF jn
    <3> QED BY ONLY <3>1, <3>2
  <2>2. jn \in JobOf /\ Swapped(jn)
    BY <1>3, <2>1 DEF JobOf, Swapped, Places, Width
  <2>3. /\ j.rec.total = Eight(j.g).total /\ j.rec.rss = Eight(j.g).rss
        /\ j.rec.speed = Speed(Eight(j.g), 8) /\ Outcome(j.g, Eight(j.g)) = "ok"
    BY <1>5 DEF Steady, Passed
  <2>4. Outcome(j.g, Four(j.g)) # "ok"
    BY <1>2, <1>5 DEF Truth, Four
  <2>5. JudgedAlone(j.g) = [status |-> "ok", speed |-> j.rec.speed, total |-> j.rec.total,
                            rss |-> j.rec.rss, speed32 |-> 0]
    BY <1>3, <2>3, <2>4 DEF JudgedAlone, Eight, Four, Speed
  <2>6. Own(j.g, j.rec)
    BY <1>3, <2>5 DEF Own, Restrict
  <2>7. Passed(jn)
    BY <2>1 DEF Passed
  <2> QED BY <1>3, <2>1, <2>2, <2>6, <2>7 DEF Steady
<1> QED BY <1>1, <1>4, <1>5 DEF Width
-----------------------------------------------------------------------------
(* A worker's step leaves the directories of the others' designs alone. *)
KeepsOthers(w) ==
    \A v \in Workers \ {w} : \A x \in Width :
        Working(v) /\ Dir(job[v].g, x) \in DOMAIN dirs
        => Dir(job[v].g, x) \in DOMAIN dirs' /\ dirs'[Dir(job[v].g, x)] = dirs[Dir(job[v].g, x)]

LEMMA OthersKept ==
    ASSUME TrialInv, NEW w \in Workers, NEW jn \in JobOf, Becomes(w, jn), fate' = fate,
           Steady(jn), Built(jn)', KeepsOthers(w)
    PROVE  /\ job' \in [Workers -> JobOf]
           /\ \A v \in Workers : (Steady(job[v]) /\ Built(job[v]))'
<1>1. TrialTypes /\ InOnePlace /\ Fair
  BY DEF TrialInv
<1>2. job' \in [Workers -> JobOf]
  BY <1>1 DEF TrialTypes, Becomes
<1>3. job'[w] = jn /\ \A v \in Workers \ {w} : job'[v] = job[v]
  BY <1>1, JobFacts
<1>4. ASSUME NEW v \in Workers, v # w
      PROVE  (Steady(job[v]) /\ Built(job[v]))'
  <2>1. PICK j \in JobOf : j = job[v]
    BY <1>1 DEF TrialTypes
  <2>2. Steady(j) /\ Built(j)
    BY <1>1, <2>1 DEF Fair
  <2>3. Steady(j)'
    BY <2>2, SteadyKept
  <2>4. Built(j)'
    <3>1. CASE j.at \notin {"alive", "first", "rounds"}
      BY <3>1 DEF Built
    <3>2. CASE j.at \in {"alive", "first", "rounds"}
      <4>1. Working(v) /\ Mine(j) = Dir(job[v].g, j.env) /\ j.env \in Width
        BY <2>1, <3>2 DEF Working, Mine, JobOf
      <4>2. Mine(j) \in DOMAIN dirs
        BY <2>2, <3>2 DEF Built
      <4>3. Mine(j) \in DOMAIN dirs' /\ dirs'[Mine(j)] = dirs[Mine(j)]
        BY <1>4, <4>1, <4>2 DEF KeepsOthers
      <4> QED BY <2>2, <3>2, <4>3 DEF Built, Mine
    <3> QED BY <3>1, <3>2
  <2>5. job'[v] = j
    BY <1>3, <1>4, <2>1
  <2> QED BY <2>3, <2>4, <2>5
<1>5. (Steady(job[w]) /\ Built(job[w]))'
  <2>1. Steady(jn)'
    BY SteadyKept
  <2> QED BY <1>3, <2>1
<1> QED BY <1>2, <1>4, <1>5

(* A step of a worker's that goes on with its design. *)
GoesOn(w, jn) ==
    /\ jn \in JobOf /\ Becomes(w, jn) /\ Steady(jn) /\ Working(w) /\ jn.g = job[w].g
    /\ KeepsOthers(w)
    /\ UNCHANGED <<given, batch, done>>

(* ... and is not stopped by it. *)
Quiet(w, jn) ==
    /\ GoesOn(w, jn) /\ jn.rec.gen = job[w].rec.gen
    /\ jn.at = "clean" => jn.rec.status # "stopped"

LEMMA GoesOnFine ==
    ASSUME TrialInv, NEW w \in Workers, NEW jn, GoesOn(w, jn), Built(jn)'
    PROVE  TrialInv'
<1>1. TrialTypes /\ InOnePlace /\ Fair
  BY DEF TrialInv
<1>2. /\ fate' = fate /\ records' = records /\ generation' = generation /\ stair' = stair
      /\ batch' = batch /\ done' = done
  BY DEF GoesOn, given
<1>3. /\ job' \in [Workers -> JobOf]
      /\ \A v \in Workers : (Steady(job[v]) /\ Built(job[v]))'
  BY <1>2, OthersKept DEF GoesOn
<1>4. TrialTypes'
  BY <1>1, <1>2, <1>3 DEF TrialTypes
<1>5. \A v \in Workers : job'[v].g = job[v].g /\ (Working(v)' => Working(v))
  <2>1. job'[w] = jn /\ \A v \in Workers \ {w} : job'[v] = job[v]
    BY <1>1, JobFacts DEF GoesOn
  <2> QED BY <2>1 DEF GoesOn, Working
<1>6. InOnePlace'
  BY <1>1, <1>2, <1>5, Zenon DEF InOnePlace
<1>7. Fair'
  BY <1>1, <1>2, <1>3, OwnKept, Zenon DEF Fair
<1> QED BY <1>4, <1>6, <1>7 DEF TrialInv
-----------------------------------------------------------------------------
(* What a worker runs is the design it built, at the width it built for. *)
LEMMA DoesTruth ==
    ASSUME TrialTypes, NEW j \in JobOf, Steady(j), Built(j), j.g \in Designs,
           j.at \in {"alive", "first", "rounds"}
    PROVE  /\ Mine(j) \in DOMAIN dirs /\ dirs[Mine(j)].width = j.env
           /\ Does(Mine(j)) = Truth(j) /\ Truth(j) \in Run
<1>1. /\ Mine(j) \in DOMAIN dirs
      /\ dirs[Mine(j)].of = IF j.env = 4 THEN Capped(j.g) ELSE j.g
      /\ dirs[Mine(j)].width = j.env
  BY DEF Built
<1>2. dirs[Mine(j)].of # NoDesign /\ dirs[Mine(j)].of.rest = j.g.rest
  BY <1>1, CappedFacts
<1>3. ~(j.env = 4 /\ dirs[Mine(j)].of.scale > 2)
  BY <1>1, CappedFacts
<1>4. Does(Mine(j)) = fate[j.g.rest].at[j.env]
  BY <1>1, <1>2, <1>3 DEF Does
<1>5. fate[j.g.rest].at[j.env] \in Run
  BY RunFacts DEF TrialTypes, JobOf
<1> QED BY <1>1, <1>4, <1>5 DEF Truth

(* The job of a worker that works, and that it is fine. *)
LEMMA BusyFacts ==
    ASSUME TrialInv, NEW w \in Workers, Working(w)
    PROVE  /\ job[w] \in JobOf /\ Steady(job[w]) /\ Built(job[w]) /\ job[w].g \in Designs
           /\ job[w].env \in Width /\ TrialTypes
           /\ \A v \in Workers \ {w} : Working(v) => job[v].g # job[w].g
BY JobFacts DEF TrialInv, Fair, JobOf, InOnePlace

(* Whoever is caught goes on to be cleaned away. *)
LEMMA CaughtGoesOn ==
    ASSUME TrialInv, NEW w \in Workers, job[w].at \in Busy,
           ~Answers(job[w].g, Truth(job[w])) \/ Truth(job[w]).fails = "measure",
           Caught(w, Death(Truth(job[w]))), KeepsOthers(w), UNCHANGED <<given, batch, done>>
    PROVE  TrialInv' /\ \E jn : Quiet(w, jn)
<1>1. Working(w)
  BY DEF Working, Busy
<1>2. PICK j \in JobOf : j = job[w]
  BY <1>1, BusyFacts
<1>3. PICK why : why = Death(Truth(job[w]))
  OBVIOUS
<1>4. PICK jn : jn = CaughtJob(j, why)
  OBVIOUS
<1>5. TrialTypes /\ Steady(j) /\ j.g \in Designs
  BY <1>1, <1>2, BusyFacts
<1>6. /\ jn \in JobOf /\ Steady(jn) /\ jn.at = "clean" /\ jn.g = j.g
      /\ jn.rec.status # "stopped" /\ jn.rec.gen = j.rec.gen
  BY <1>2, <1>3, <1>4, <1>5, CaughtFine
<1>7. Becomes(w, jn)
  BY <1>2, <1>3, <1>4, <1>5, CaughtIs
<1>8. GoesOn(w, jn)
  BY <1>1, <1>2, <1>6, <1>7 DEF GoesOn
<1>9. Built(jn)'
  BY <1>6 DEF Built
<1> QED BY <1>2, <1>6, <1>8, <1>9, GoesOnFine DEF Quiet

(* A directory written is the worker's own. *)
LEMMA OwnDirectory ==
    ASSUME TrialInv, NEW w \in Workers, Working(w),
           \A d \in DOMAIN dirs : d # Mine(job[w]) => d \in DOMAIN dirs' /\ dirs'[d] = dirs[d]
    PROVE  KeepsOthers(w)
<1>1. \A v \in Workers \ {w} : Working(v) => job[v].g # job[w].g
  BY BusyFacts
<1>2. ASSUME NEW v \in Workers \ {w}, NEW x \in Width, Working(v), Dir(job[v].g, x) \in DOMAIN dirs
      PROVE  Dir(job[v].g, x) \in DOMAIN dirs' /\ dirs'[Dir(job[v].g, x)] = dirs[Dir(job[v].g, x)]
  <2>1. Dir(job[v].g, x) # Mine(job[w])
    BY <1>1, <1>2 DEF Mine, Dir
  <2> QED BY <1>2, <2>1
<1> QED BY <1>2 DEF KeepsOthers

LEMMA BuildFine ==
    ASSUME TrialInv, NEW w \in Workers, BuildDesign(w)
    PROVE  TrialInv' /\ \E jn : Quiet(w, jn)
<1>1. Working(w) /\ job[w].at = "build" /\ job[w].at \in Busy
  BY DEF BuildDesign, Working, Busy
<1>2. PICK j \in JobOf : j = job[w]
  BY <1>1, BusyFacts
<1>3. TrialTypes /\ Steady(j) /\ j.g \in Designs /\ j.env \in Width
  BY <1>1, <1>2, BusyFacts
<1> DEFINE g == IF j.env = 4 THEN Capped(j.g) ELSE j.g
           made == [of |-> g, width |-> j.env, kernel |-> j.ref]
<1>4. g.rest = j.g.rest /\ fate[g.rest].at[j.env] = Truth(j)
  BY <1>3, CappedFacts DEF Truth
<1>5. \A x : dirs' = [d \in DOMAIN dirs \cup {Mine(j)} |-> IF d = Mine(j) THEN x ELSE dirs[d]]
             => KeepsOthers(w)
  BY <1>1, <1>2, OwnDirectory, Zenon
<1>6. CASE Truth(j).fails = "build"
  <2>1. Caught(w, Death(Truth(j)))
    BY <1>2, <1>4, <1>6 DEF BuildDesign
  <2>2. KeepsOthers(w)
    <3>1. PICK x : x = NoEngine
      OBVIOUS
    <3>2. dirs' = [d \in DOMAIN dirs \cup {Mine(j)} |-> IF d = Mine(j) THEN x ELSE dirs[d]]
      BY <1>2, <1>4, <1>6, <3>1 DEF BuildDesign, Mine
    <3> QED BY <1>5, <3>2
  <2>3. ~Answers(j.g, Truth(j))
    BY <1>6 DEF Answers
  <2> QED BY <1>1, <1>2, <2>1, <2>2, <2>3, CaughtGoesOn DEF BuildDesign
<1>7. CASE Truth(j).fails # "build"
  <2>1. /\ job' = [job EXCEPT ![w].at = "alive",
                              ![w].rec.total = IF j.env = 8 THEN Truth(j).total ELSE @]
        /\ dirs' = [d \in DOMAIN dirs \cup {Mine(j)} |-> IF d = Mine(j) THEN made ELSE dirs[d]]
    BY <1>2, <1>4, <1>7 DEF BuildDesign, Mine
  <2>2. PICK t : t = IF j.env = 8 THEN Truth(j).total ELSE j.rec.total
    OBVIOUS
  <2>3. PICK jn : jn = [j EXCEPT !.at = "alive", !.rec.total = t]
    OBVIOUS
  <2>4. /\ j.rec \in Full /\ j.rec.status = "ok" /\ j.rec.speed32 = 0 /\ ~ReachLethal(j.g)
        /\ j.ref = j.env /\ (j.env = 4 => TWO_WIDTHS)
        /\ j.env = 4 => /\ j.rec.total = Eight(j.g).total /\ Outcome(j.g, Eight(j.g)) = "ok"
                        /\ j.rec.speed = Speed(Eight(j.g), 8) /\ j.rec.rss = Eight(j.g).rss
    BY <1>1, <1>2, <1>3 DEF Steady, Swapped, Passed
  <2>5. t = Eight(j.g).total /\ t \in Nat
    <3>1. j.env = 8 => Truth(j) = Eight(j.g)
      BY DEF Truth, Eight
    <3>2. Eight(j.g) \in Run
      BY <1>3, RunFacts DEF Eight, Width, TrialTypes
    <3> QED BY <1>3, <2>2, <2>4, <3>1, <3>2 DEF Run, Width
  <2>6. jn = [at |-> "alive", g |-> j.g, env |-> j.env, ref |-> j.ref, rec |-> [j.rec EXCEPT !.total = t]]
    BY <2>3 DEF JobOf
  <2>7. /\ jn.rec \in Full /\ jn.rec.status = "ok" /\ jn.rec.speed32 = 0 /\ jn.rec.total = t
        /\ jn.rec.speed = j.rec.speed /\ jn.rec.rss = j.rec.rss /\ jn.rec.gen = j.rec.gen
    BY <2>4, <2>5, <2>6 DEF Full
  <2>8. jn \in JobOf
    BY <2>6, <2>7 DEF JobOf, Places
  <2>9. Steady(jn)
    <3>1. Truth(jn) = Truth(j)
      BY <2>6 DEF Truth
    <3> QED BY <1>7, <2>4, <2>5, <2>6, <2>7, <3>1 DEF Steady, Swapped, Passed
  <2>10. Becomes(w, jn)
    BY <1>2, <1>3, <2>1, <2>2, <2>3 DEF Becomes, TrialTypes
  <2>11. KeepsOthers(w)
    BY <1>5, <2>1
  <2>12. GoesOn(w, jn)
    BY <1>1, <1>2, <2>6, <2>8, <2>9, <2>10, <2>11 DEF GoesOn, BuildDesign
  <2>13. Built(jn)'
    <3>1. Mine(jn) = Mine(j)
      BY <2>6 DEF Mine
    <3>2. Mine(j) \in DOMAIN dirs' /\ dirs'[Mine(j)] = made
      BY <2>1
    <3> QED BY <2>6, <3>1, <3>2 DEF Built, Mine
  <2> QED BY <1>2, <2>6, <2>7, <2>12, <2>13, GoesOnFine DEF Quiet
<1> QED BY <1>6, <1>7

(* A worker that goes on with the engine it has, its job's place moved on.  *)
LEMMA MovedOn ==
    ASSUME NEW j \in JobOf, Steady(j), NEW at \in {"first", "rounds"}, j.at \in Busy,
           at = "first" => j.env = 8, j.at # "build",
           Answers(j.g, Truth(j)), NEW jn, jn = [j EXCEPT !.at = at]
    PROVE  /\ jn \in JobOf /\ Steady(jn) /\ jn.g = j.g /\ jn.env = j.env /\ jn.rec = j.rec
           /\ jn.at = at
<1>1. jn = [at |-> at, g |-> j.g, env |-> j.env, ref |-> j.ref, rec |-> j.rec]
  BY DEF JobOf
<1>2. jn \in JobOf
  BY <1>1 DEF JobOf, Places
<1>3. Swapped(jn)
  BY <1>1 DEF Steady, Swapped
<1>4. Passed(jn)
  <2>1. Truth(jn) = Truth(j)
    BY <1>1 DEF Truth
  <2> QED BY <1>1, <2>1 DEF Steady, Passed, Busy
<1> QED BY <1>1, <1>2, <1>3, <1>4 DEF Steady

LEMMA AnswersFine ==
    ASSUME TrialInv, NEW w \in Workers, HeldToAnswers(w)
    PROVE  TrialInv' /\ \E jn : Quiet(w, jn)
<1>1. Working(w) /\ job[w].at = "alive" /\ job[w].at \in Busy
  BY DEF HeldToAnswers, Working, Busy
<1>2. PICK j \in JobOf : j = job[w]
  BY <1>1, BusyFacts
<1>3. TrialTypes /\ Steady(j) /\ Built(j) /\ j.g \in Designs /\ j.env \in Width
  BY <1>1, <1>2, BusyFacts
<1>4. PICK d : d = Dir(j.g, j.env)
  OBVIOUS
<1>5. PICK run \in Run : run = Truth(j)
  BY <1>1, <1>2, <1>3, DoesTruth
<1>6. /\ Mine(j) = d /\ d \in DOMAIN dirs /\ dirs[d].width = j.env /\ Does(d) = run /\ j.ref = j.env
  BY <1>1, <1>2, <1>3, <1>4, <1>5, DoesTruth DEF Mine, Steady, Swapped
<1>7. KernelWritten(d) = j.ref <=> run.fails # "kernel"
  BY <1>3, <1>6 DEF KernelWritten, Width
<1>8. /\ run.fails \in Checks \cup {"nothing"} /\ run.fails # "build"
      /\ fate[j.g.rest].hand \in BOOLEAN
  <2>1. fate[j.g.rest].hand \in BOOLEAN
    BY <1>3, RunFacts DEF TrialTypes
  <2>2. Truth(j).fails # "build"
    BY <1>1, <1>2, <1>3 DEF Steady, Passed
  <2> QED BY <1>5, <2>1, <2>2 DEF Run
<1>9. UNCHANGED <<given, batch, done>>
  BY DEF HeldToAnswers
<1>10. ASSUME NEW k, dirs' = [dirs EXCEPT ![d].kernel = k]
       PROVE  /\ KeepsOthers(w)
              /\ d \in DOMAIN dirs' /\ dirs'[d].of = dirs[d].of /\ dirs'[d].width = dirs[d].width
  <2>1. \A e \in DOMAIN dirs : e # Mine(job[w]) => e \in DOMAIN dirs' /\ dirs'[e] = dirs[e]
    BY <1>2, <1>6, <1>10
  <2>2. KeepsOthers(w)
    BY <1>1, <2>1, OwnDirectory
  <2>3. d \in DOMAIN dirs' /\ dirs'[d] = [dirs[d] EXCEPT !.kernel = k]
    BY <1>6, <1>10
  <2> QED BY <2>2, <2>3
<1>11. ASSUME ~Answers(j.g, run), Caught(w, Death(run)), KeepsOthers(w)
       PROVE  TrialInv' /\ \E jn : Quiet(w, jn)
  BY <1>1, <1>2, <1>5, <1>9, <1>11, CaughtGoesOn
<1>12. CASE run.fails = "corpus" /\ Caught(w, Death(run)) /\ UNCHANGED dirs
  <2>1. ~Answers(j.g, run)
    BY <1>12 DEF Answers
  <2>2. KeepsOthers(w)
    BY <1>12 DEF KeepsOthers
  <2> QED BY <1>11, <1>12, <2>1, <2>2
<1>13. CASE /\ run.fails # "corpus" /\ KernelWritten(d) # j.ref
            /\ Caught(w, IF run.fails = "kernel" THEN Death(run) ELSE "kernel")
            /\ dirs' = [dirs EXCEPT ![d].kernel = KernelWritten(d)]
  <2>1. run.fails = "kernel" /\ Caught(w, Death(run))
    BY <1>7, <1>13
  <2>2. ~Answers(j.g, run)
    BY <2>1 DEF Answers
  <2>3. KeepsOthers(w)
    BY <1>10, <1>13
  <2> QED BY <1>11, <2>1, <2>2, <2>3
<1>14. CASE /\ run.fails # "corpus" /\ KernelWritten(d) = j.ref
            /\ dirs' = [dirs EXCEPT ![d].kernel = KernelWritten(d)]
            /\ IF run.fails \in {"far", "full"} /\ ~fate[j.g.rest].hand THEN Caught(w, run.fails)
               ELSE Goes(w, IF j.env = 8 /\ stair # {} THEN "first" ELSE "rounds")
  <2>1. /\ KeepsOthers(w)
        /\ d \in DOMAIN dirs' /\ dirs'[d].of = dirs[d].of /\ dirs'[d].width = dirs[d].width
    BY <1>10, <1>14
  <2>2. CASE run.fails \in {"far", "full"} /\ ~fate[j.g.rest].hand
    <3>1. Death(run) = run.fails /\ ~Answers(j.g, run)
      BY <2>2 DEF Death, Answers
    <3>2. Caught(w, Death(run))
      BY <1>14, <2>2, <3>1
    <3> QED BY <1>11, <2>1, <3>1, <3>2
  <2>3. CASE ~(run.fails \in {"far", "full"} /\ ~fate[j.g.rest].hand)
    <3>1. Answers(j.g, Truth(j))
      BY <1>5, <1>7, <1>8, <1>14, <2>3 DEF Answers, Checks
    <3>2. PICK at : at = IF j.env = 8 /\ stair # {} THEN "first" ELSE "rounds"
      OBVIOUS
    <3>3. Goes(w, at) /\ at \in {"first", "rounds"} /\ (at = "first" => j.env = 8)
      BY <1>14, <2>3, <3>2
    <3>4. PICK jn : jn = [j EXCEPT !.at = at]
      OBVIOUS
    <3>5. jn \in JobOf /\ Steady(jn) /\ jn.g = j.g /\ jn.env = j.env /\ jn.at = at /\ jn.rec = j.rec
      BY <1>1, <1>2, <1>3, <3>1, <3>3, <3>4, MovedOn
    <3>6. Becomes(w, jn)
      BY <1>2, <1>3, <3>3, <3>4, GoesIs
    <3>7. GoesOn(w, jn)
      BY <1>1, <1>2, <1>9, <2>1, <3>5, <3>6 DEF GoesOn
    <3>8. Built(jn)'
      <4>1. Mine(jn) = d
        BY <1>4, <3>5 DEF Mine
      <4>2. /\ dirs[d].of = IF j.env = 4 THEN Capped(j.g) ELSE j.g
            /\ dirs[d].width = j.env
        BY <1>1, <1>2, <1>3, <1>6 DEF Built
      <4> QED BY <2>1, <3>5, <4>1, <4>2 DEF Built, Mine
    <3> QED BY <1>2, <3>3, <3>5, <3>7, <3>8, GoesOnFine DEF Quiet
  <2> QED BY <2>2, <2>3
<1> QED BY <1>2, <1>4, <1>6, <1>12, <1>13, <1>14 DEF HeldToAnswers

(* A design stopped after one round: it lives, and is not one audited. *)
StoppedJob(j, m) == [j EXCEPT !.at = "clean", !.rec.status = "stopped", !.rec.rss = m]

LEMMA StoppedFine ==
    ASSUME TrialTypes, NEW j \in JobOf, Steady(j), j.at = "first", j.g \in Designs,
           Truth(j).fails # "measure", j.g \notin Audited,
           NEW m \in Nat, NEW jn, jn = StoppedJob(j, m)
    PROVE  /\ jn \in JobOf /\ Steady(jn) /\ jn.at = "clean" /\ jn.g = j.g
           /\ jn.rec \in Full /\ jn.rec.status = "stopped" /\ jn.rec.gen = j.rec.gen
<1>1. /\ j.env = 8 /\ j.ref = 8 /\ j.rec \in Full /\ ~ReachLethal(j.g) /\ Answers(j.g, Truth(j))
  BY DEF Steady, Swapped, Passed
<1>2. jn = [at |-> "clean", g |-> j.g, env |-> 8, ref |-> 8,
            rec |-> [j.rec EXCEPT !.status = "stopped", !.rss = m]]
  BY <1>1 DEF JobOf, StoppedJob
<1>3. jn.rec \in Full /\ jn.rec.status = "stopped" /\ jn.rec.gen = j.rec.gen
  <2>1. PICK r \in Full : r = j.rec
    BY <1>1
  <2>2. PICK s : s = [r EXCEPT !.status = "stopped", !.rss = m]
    OBVIOUS
  <2>3. jn.rec = s
    BY <1>2, <2>1, <2>2
  <2>4. s = [status |-> "stopped", gen |-> r.gen, speed |-> r.speed, total |-> r.total,
             rss |-> m, speed32 |-> r.speed32]
    BY <2>2 DEF Full
  <2>5. s \in Full
    BY <2>4 DEF Full, Ends
  <2> QED BY <2>1, <2>3, <2>4, <2>5
<1>4. jn \in JobOf /\ Swapped(jn) /\ Passed(jn)
  BY <1>2, <1>3 DEF JobOf, Places, Width, Swapped, Passed
<1>5. JudgedAlone(j.g).status = "ok"
  <2>1. Outcome(j.g, fate[j.g.rest].at[8]) = "ok"
    BY <1>1, AnswersOk DEF Truth
  <2> QED BY <1>1, <2>1 DEF JudgedAlone
<1>6. Own(jn.g, jn.rec)
  BY <1>2, <1>3, <1>5 DEF Own
<1> QED BY <1>2, <1>3, <1>4, <1>6 DEF Steady

Stopped(w, jn) ==
    /\ GoesOn(w, jn) /\ job[w].at = "first" /\ jn.rec.gen = job[w].rec.gen
    /\ \E k \in Strays : StopBeaten((Speed(Truth(job[w]), 8) * (100 + k)) \div 100,
                                   job[w].rec.total, Truth(job[w]).rss)

LEMMA FirstFine ==
    ASSUME TrialInv, NEW w \in Workers, FirstRound(w)
    PROVE  TrialInv' /\ \E jn : Quiet(w, jn) \/ Stopped(w, jn)
<1>1. Working(w) /\ job[w].at = "first" /\ job[w].at \in Busy
  BY DEF FirstRound, Working, Busy
<1>2. PICK j \in JobOf : j = job[w]
  BY <1>1, BusyFacts
<1>3. TrialTypes /\ Steady(j) /\ Built(j) /\ j.g \in Designs
  BY <1>1, <1>2, BusyFacts
<1>4. PICK run \in Run : run = Truth(j) /\ run = Does(Mine(j))
  BY <1>1, <1>2, <1>3, DoesTruth
<1>5. j.env = 8 /\ j.ref = 8 /\ Dir(j.g, 8) = Mine(j) /\ Answers(j.g, run)
  BY <1>1, <1>2, <1>3, <1>4 DEF Steady, Swapped, Mine, Passed
<1>6. UNCHANGED <<given, batch, done, dirs>> /\ KeepsOthers(w)
  BY DEF FirstRound, KeepsOthers
<1>7. CASE run.fails \in {"measure", "corpus"} /\ Caught(w, Death(run))
  <2>1. run.fails = "measure"
    BY <1>5, <1>7 DEF Answers
  <2> QED BY <1>1, <1>2, <1>4, <1>6, <1>7, <2>1, CaughtGoesOn
<1>8. CASE Goes(w, "rounds")
  <2>1. PICK jn : jn = [j EXCEPT !.at = "rounds"]
    OBVIOUS
  <2>2. jn \in JobOf /\ Steady(jn) /\ jn.g = j.g /\ jn.env = j.env /\ jn.at = "rounds" /\ jn.rec = j.rec
    <3>1. j \in JobOf /\ j.at \in Busy /\ j.at # "build" /\ Answers(j.g, Truth(j)) /\ Steady(j)
      BY <1>1, <1>2, <1>3, <1>4, <1>5
    <3>2. PICK at \in {"first", "rounds"} : at = "rounds"
      OBVIOUS
    <3>3. jn = [j EXCEPT !.at = at] /\ (at = "first" => j.env = 8)
      BY <2>1, <3>2
    <3> QED BY ONLY <3>1, <3>2, <3>3, MovedOn
  <2>3. Becomes(w, jn)
    BY <1>2, <1>3, <1>8, <2>1, GoesIs
  <2>4. GoesOn(w, jn)
    BY <1>1, <1>2, <1>6, <2>2, <2>3 DEF GoesOn
  <2>5. Built(jn)'
    BY <1>1, <1>2, <1>3, <1>6, <2>2 DEF Built, Mine
  <2> QED BY <1>2, <2>2, <2>4, <2>5, GoesOnFine DEF Quiet
<1>9. CASE /\ run.fails \notin {"measure", "corpus"} /\ j.g \notin Audited
           /\ \E k \in Strays : StopBeaten((Speed(run, 8) * (100 + k)) \div 100, j.rec.total, run.rss)
           /\ job' = [job EXCEPT ![w].at = "clean", ![w].rec.status = "stopped", ![w].rec.rss = run.rss]
  <2>1. PICK m \in Nat : m = run.rss
    BY DEF Run
  <2>2. PICK jn : jn = StoppedJob(j, m)
    OBVIOUS
  <2>3. j \in JobOf /\ m \in Nat /\ j.at = "first" /\ Truth(j).fails # "measure" /\ j.g \notin Audited
    BY <1>1, <1>2, <1>4, <1>9, <2>1
  <2>4. jn \in JobOf /\ Steady(jn) /\ jn.g = j.g /\ jn.at = "clean" /\ jn.rec.gen = j.rec.gen
    BY ONLY <1>3, <2>2, <2>3, StoppedFine
  <2>5. Becomes(w, jn)
    BY <1>2, <1>3, <1>9, <2>1, <2>2 DEF Becomes, StoppedJob, TrialTypes
  <2>6. GoesOn(w, jn)
    BY <1>1, <1>2, <1>6, <2>4, <2>5 DEF GoesOn
  <2>7. Built(jn)'
    BY <2>4 DEF Built
  <2>8. Stopped(w, jn)
    BY <1>1, <1>2, <1>4, <1>9, <2>4, <2>6 DEF Stopped
  <2> QED BY <2>6, <2>7, <2>8, GoesOnFine
<1> QED BY <1>2, <1>4, <1>5, <1>7, <1>8, <1>9 DEF FirstRound

Rewrite(j, r, a, x, y) == [j EXCEPT !.rec = r, !.at = a, !.env = x, !.ref = y]

LEMMA Rewritten ==
    ASSUME NEW j \in JobOf, NEW r, NEW a, NEW x, NEW y
    PROVE  Rewrite(j, r, a, x, y)
           = [at |-> a, g |-> j.g, env |-> x, ref |-> y, rec |-> r]
<1>1. PICK j1 : j1 = [j EXCEPT !.rec = r]
  OBVIOUS
<1>2. j1 = [at |-> j.at, g |-> j.g, env |-> j.env, ref |-> j.ref, rec |-> r]
  BY <1>1 DEF JobOf
<1>3. PICK j2 : j2 = [j1 EXCEPT !.at = a]
  OBVIOUS
<1>4. j2 = [at |-> a, g |-> j.g, env |-> j.env, ref |-> j.ref, rec |-> r]
  BY ONLY <1>2, <1>3
<1>5. PICK j3 : j3 = [j2 EXCEPT !.env = x]
  OBVIOUS
<1>6. j3 = [at |-> a, g |-> j.g, env |-> x, ref |-> j.ref, rec |-> r]
  BY ONLY <1>4, <1>5
<1>7. [j3 EXCEPT !.ref = y] = [at |-> a, g |-> j.g, env |-> x, ref |-> y, rec |-> r]
  BY ONLY <1>6
<1> QED BY <1>1, <1>3, <1>5, <1>7 DEF Rewrite

(* Measured at 8, a design goes on to 4, or out; measured at 4, out. *)
LEMMA RoundsFine ==
    ASSUME TrialInv, NEW w \in Workers, Rounds(w)
    PROVE  TrialInv' /\ \E jn : Quiet(w, jn)
<1>1. Working(w) /\ job[w].at = "rounds" /\ job[w].at \in Busy
  BY DEF Rounds, Working, Busy
<1>2. PICK j \in JobOf : j = job[w]
  BY <1>1, BusyFacts
<1>3. TrialTypes /\ Steady(j) /\ Built(j) /\ j.g \in Designs
  BY <1>1, <1>2, BusyFacts
<1>4. PICK run \in Run : run = Truth(j) /\ run = Does(Mine(j))
  BY <1>1, <1>2, <1>3, DoesTruth
<1>5. /\ Answers(j.g, run) /\ ~ReachLethal(j.g) /\ j.ref = j.env /\ j.rec.total = Eight(j.g).total
      /\ j.rec \in Full /\ j.rec.status = "ok" /\ j.rec.speed32 = 0
  BY <1>1, <1>2, <1>3, <1>4 DEF Steady, Swapped, Passed
<1>6. UNCHANGED <<given, batch, done, dirs>> /\ KeepsOthers(w)
  BY DEF Rounds, KeepsOthers
<1>7. ASSUME NEW jn \in JobOf, Steady(jn), Becomes(w, jn), jn.g = j.g, jn.at \in {"clean", "build"},
             jn.rec.status = "ok", jn.rec.gen = j.rec.gen
      PROVE  TrialInv' /\ \E jm : Quiet(w, jm)
  <2>1. GoesOn(w, jn)
    BY <1>1, <1>2, <1>6, <1>7 DEF GoesOn
  <2>2. Built(jn)'
    BY <1>7 DEF Built
  <2> QED BY <1>2, <1>7, <2>1, <2>2, GoesOnFine DEF Quiet
<1>8. CASE run.fails \in {"measure", "corpus"} /\ Caught(w, Death(run))
  <2>1. run.fails = "measure"
    BY <1>5, <1>8 DEF Answers
  <2> QED BY <1>1, <1>2, <1>4, <1>6, <1>8, <2>1, CaughtGoesOn
<1>9. CASE /\ run.fails \notin {"measure", "corpus"} /\ j.env = 8
           /\ job' = [job EXCEPT ![w].rec.speed = Speed(run, j.ref), ![w].rec.rss = run.rss,
                                 ![w].at = IF TWO_WIDTHS THEN "build" ELSE "clean",
                                 ![w].env = IF TWO_WIDTHS THEN 4 ELSE 8, ![w].ref = IF TWO_WIDTHS THEN 4 ELSE 8]
  <2>1. PICK s \in Nat : s = Speed(run, 8)
    BY SpeedFacts DEF Width
  <2>2. PICK at : at = IF TWO_WIDTHS THEN "build" ELSE "clean"
    OBVIOUS
  <2>3. PICK x : x = IF TWO_WIDTHS THEN 4 ELSE 8
    OBVIOUS
  <2>4. PICK rec : rec = [j.rec EXCEPT !.speed = s, !.rss = run.rss]
    OBVIOUS
  <2>5. rec \in Full /\ rec = [status |-> "ok", gen |-> j.rec.gen, speed |-> s, total |-> j.rec.total,
                               rss |-> run.rss, speed32 |-> 0]
    BY <1>5, <2>4 DEF Full, Run
  <2>6. PICK jn : jn = [at |-> at, g |-> j.g, env |-> x, ref |-> x, rec |-> rec]
    OBVIOUS
  <2>7. Becomes(w, jn)
    <3>1. job' = [job EXCEPT ![w].rec.speed = s, ![w].rec.rss = run.rss,
                             ![w].at = at, ![w].env = x, ![w].ref = x]
      BY <1>5, <1>9, <2>1, <2>2, <2>3
    <3>2. j = [at |-> j.at, g |-> j.g, env |-> j.env, ref |-> j.ref, rec |-> j.rec]
      BY DEF JobOf
    <3>3. job \in [Workers -> JobOf]
      BY <1>3 DEF TrialTypes
    <3>4. job' = [job EXCEPT ![w] = [j EXCEPT !.rec = [j.rec EXCEPT !.speed = s, !.rss = run.rss],
                                              !.at = at, !.env = x, !.ref = x]]
      BY ONLY <1>2, <3>1, <3>2, <3>3, w \in Workers, ZenonT(40)
    <3>5. Rewrite(j, rec, at, x, x) = jn
      BY <2>6, Rewritten
    <3> QED BY <2>4, <3>4, <3>5 DEF Becomes, Rewrite
  <2>8. jn \in JobOf
    BY <2>2, <2>3, <2>5, <2>6 DEF JobOf, Places, Width
  <2>9. Eight(j.g) = run /\ Outcome(j.g, run) = "ok"
    BY <1>4, <1>5, <1>9, AnswersOk DEF Truth, Eight
  <2>10. Swapped(jn)
    BY <2>2, <2>3, <2>6 DEF Swapped
  <2>11. Passed(jn)
    BY <1>5, <2>1, <2>2, <2>3, <2>5, <2>6, <2>9 DEF Passed
  <2>12. at = "clean" => Own(j.g, rec)
    <3>1. SUFFICES ASSUME ~TWO_WIDTHS PROVE Own(j.g, rec)
      BY <2>2
    <3>2. JudgedAlone(j.g) = [status |-> "ok", speed |-> s, total |-> j.rec.total, rss |-> run.rss, speed32 |-> 0]
      BY <1>5, <2>1, <2>9, <3>1 DEF JudgedAlone, Eight, Speed
    <3> QED BY <2>5, <3>2 DEF Own, Restrict
  <2>13. Steady(jn)
    BY <2>5, <2>6, <2>10, <2>11, <2>12 DEF Steady
  <2>14. jn.g = j.g /\ jn.at \in {"clean", "build"} /\ jn.rec.status = "ok" /\ jn.rec.gen = j.rec.gen
    BY <2>2, <2>5, <2>6
  <2> QED BY <1>7, <2>7, <2>8, <2>13, <2>14
<1>10. CASE /\ run.fails \notin {"measure", "corpus"} /\ j.env = 4
            /\ job' = [job EXCEPT ![w].rec.speed32 = Speed(run, j.ref), ![w].at = "clean", ![w].env = 8, ![w].ref = 8]
  <2>1. PICK s \in Nat : s = Speed(run, 4)
    BY SpeedFacts DEF Width
  <2>2. /\ j.rec.speed = Speed(Eight(j.g), 8) /\ j.rec.rss = Eight(j.g).rss
        /\ Outcome(j.g, Eight(j.g)) = "ok" /\ TWO_WIDTHS
    BY <1>3, <1>10 DEF Steady, Swapped, Passed
  <2>3. PICK rec : rec = [j.rec EXCEPT !.speed32 = s]
    OBVIOUS
  <2>4. rec \in Full /\ rec = [status |-> "ok", gen |-> j.rec.gen, speed |-> j.rec.speed,
                               total |-> j.rec.total, rss |-> j.rec.rss, speed32 |-> s]
    BY <1>5, <2>3 DEF Full
  <2>5. PICK jn : jn = [at |-> "clean", g |-> j.g, env |-> 8, ref |-> 8, rec |-> rec]
    OBVIOUS
  <2>6. Becomes(w, jn)
    <3>1. job' = [job EXCEPT ![w].rec.speed32 = s, ![w].at = "clean", ![w].env = 8, ![w].ref = 8]
      BY <1>5, <1>10, <2>1
    <3>2. j = [at |-> j.at, g |-> j.g, env |-> j.env, ref |-> j.ref, rec |-> j.rec]
      BY DEF JobOf
    <3>3. job \in [Workers -> JobOf]
      BY <1>3 DEF TrialTypes
    <3>4. job' = [job EXCEPT ![w] = [j EXCEPT !.rec = [j.rec EXCEPT !.speed32 = s],
                                              !.at = "clean", !.env = 8, !.ref = 8]]
      BY ONLY <1>2, <3>1, <3>2, <3>3, w \in Workers
    <3>5. Rewrite(j, rec, "clean", 8, 8) = jn
      BY <2>5, Rewritten
    <3> QED BY <2>3, <3>4, <3>5 DEF Becomes, Rewrite
  <2>7. jn \in JobOf /\ Swapped(jn) /\ Passed(jn)
    BY <2>4, <2>5 DEF JobOf, Places, Width, Swapped, Passed
  <2>8. Four(j.g) = run /\ Outcome(j.g, run) = "ok"
    BY <1>4, <1>5, <1>10, AnswersOk DEF Truth, Four
  <2>9. JudgedAlone(j.g) = [status |-> "ok", speed |-> j.rec.speed, total |-> j.rec.total,
                            rss |-> j.rec.rss, speed32 |-> s]
    BY <1>5, <2>1, <2>2, <2>8 DEF JudgedAlone, Eight, Four, Speed
  <2>10. Own(j.g, rec)
    BY <2>4, <2>9 DEF Own, Restrict
  <2>11. Steady(jn)
    BY <2>4, <2>5, <2>7, <2>10 DEF Steady
  <2>12. jn.g = j.g /\ jn.at = "clean" /\ jn.rec.status = "ok" /\ jn.rec.gen = j.rec.gen
    BY <2>4, <2>5
  <2> QED BY <1>7, <2>6, <2>7, <2>11, <2>12
<1>11. Mine(j) = Dir(job[w].g, job[w].env)
  BY <1>2 DEF Mine
<1> QED BY <1>2, <1>4, <1>8, <1>9, <1>10, <1>11 DEF Rounds
-----------------------------------------------------------------------------
Retake(j, d, a, r)  == [j EXCEPT !.g = d, !.at = a, !.rec = r]
Release(j, d, a, r) == [j EXCEPT !.at = a, !.g = d, !.rec = r]

LEMMA Retaken ==
    ASSUME NEW j \in JobOf, NEW d, NEW a, NEW r
    PROVE  /\ Retake(j, d, a, r) = [at |-> a, g |-> d, env |-> j.env, ref |-> j.ref, rec |-> r]
           /\ Release(j, d, a, r) = [at |-> a, g |-> d, env |-> j.env, ref |-> j.ref, rec |-> r]
<1> DEFINE Job(b, e, q) == [at |-> b, g |-> e, env |-> j.env, ref |-> j.ref, rec |-> q]
<1>1. j = Job(j.at, j.g, j.rec)
  BY DEF JobOf
<1>2. PICK j1 : j1 = [j EXCEPT !.g = d]
  OBVIOUS
<1>3. PICK j2 : j2 = [j1 EXCEPT !.at = a]
  OBVIOUS
<1>4. PICK k1 : k1 = [j EXCEPT !.at = a]
  OBVIOUS
<1>5. PICK k2 : k2 = [k1 EXCEPT !.g = d]
  OBVIOUS
<1>6. j1 = Job(j.at, d, j.rec) /\ k1 = Job(a, j.g, j.rec)
  BY ONLY <1>1, <1>2, <1>4
<1>7. j2 = Job(a, d, j.rec) /\ k2 = Job(a, d, j.rec)
  BY ONLY <1>3, <1>5, <1>6
<1>8. [j2 EXCEPT !.rec = r] = Job(a, d, r) /\ [k2 EXCEPT !.rec = r] = Job(a, d, r)
  BY ONLY <1>7
<1> QED BY <1>2, <1>3, <1>4, <1>5, <1>8 DEF Retake, Release

(* A worker takes a design nobody else has. *)
LEMMA TakeUpFine ==
    ASSUME TrialInv, NEW w \in Workers, TakeUp(w)
    PROVE  TrialInv'
<1>1. TrialTypes /\ InOnePlace /\ Fair /\ job[w].at = "idle" /\ ~Working(w)
  BY DEF TrialInv, TakeUp, Working
<1>2. PICK g \in batch :
        /\ batch' = batch \ {g}
        /\ job' = [job EXCEPT ![w].g = g, ![w].at = IF ReachLethal(g) THEN "clean" ELSE "build",
                              ![w].rec = NotMeasured(IF ReachLethal(g) THEN "reach limit" ELSE "ok")]
  BY DEF TakeUp
<1>3. PICK j \in JobOf : j = job[w]
  BY <1>1 DEF TrialTypes
<1>4. Steady(j) /\ j.env = 8 /\ j.ref = 8 /\ g \in Designs /\ generation \in Nat
  BY <1>1, <1>3 DEF Fair, Steady, Swapped, TrialTypes, JobOf, Width
<1>5. PICK at : at = IF ReachLethal(g) THEN "clean" ELSE "build"
  OBVIOUS
<1>6. PICK rec : rec = NotMeasured(IF ReachLethal(g) THEN "reach limit" ELSE "ok")
  OBVIOUS
<1>7. PICK jn : jn = [at |-> at, g |-> g, env |-> 8, ref |-> 8, rec |-> rec]
  OBVIOUS
<1>8. Becomes(w, jn)
  <2>1. job' = [job EXCEPT ![w].g = g, ![w].at = at, ![w].rec = rec]
    BY <1>2, <1>5, <1>6
  <2>2. Retake(j, g, at, rec) = jn
    BY <1>4, <1>7, Retaken
  <2> QED BY <1>1, <1>3, <2>1, <2>2 DEF Becomes, TrialTypes, Retake
<1>9. rec \in Full /\ rec.status = (IF ReachLethal(g) THEN "reach limit" ELSE "ok") /\ rec.speed32 = 0
  BY <1>4, <1>6 DEF NotMeasured, Full, Ends
<1>10. jn \in JobOf
  BY <1>4, <1>5, <1>7, <1>9 DEF JobOf, Places, Width
<1>11. Steady(jn)
  <2>1. Swapped(jn) /\ Passed(jn)
    <3>1. /\ jn.at = at /\ jn.g = g /\ jn.env = 8 /\ jn.ref = 8 /\ jn.rec = rec
          /\ at \in {"build", "clean"} /\ (at = "build" <=> ~ReachLethal(g))
      BY <1>5, <1>7
    <3>2. Swapped(jn)
      BY ONLY <3>1 DEF Swapped
    <3>3. jn.at = "build" => rec.status = "ok" /\ ~ReachLethal(jn.g)
      BY <1>9, <3>1
    <3>4. Passed(jn)
      <4>1. jn.at \notin {"alive", "first", "rounds"} /\ jn.env # 4
        BY ONLY <3>1
      <4>2. /\ jn.rec \in Full /\ jn.rec.speed32 = 0
            /\ jn.at = "build" => jn.rec.status = "ok" /\ ~ReachLethal(jn.g)
        BY ONLY <1>9, <3>1, <3>3
      <4> QED BY ONLY <4>1, <4>2 DEF Passed
    <3> QED BY <3>2, <3>4
  <2>2. jn.at = "clean" => Own(jn.g, jn.rec)
    <3>1. jn.at = "clean" => ReachLethal(g)
      BY <1>5, <1>7
    <3>2. ReachLethal(g) => JudgedAlone(g).status = "reach limit"
      BY DEF JudgedAlone
    <3> QED BY <1>7, <1>9, <3>1, <3>2 DEF Own
  <2> QED BY <1>7, <1>9, <2>1, <2>2 DEF Steady
<1>12. /\ fate' = fate /\ records' = records /\ generation' = generation /\ stair' = stair
       /\ done' = done /\ dirs' = dirs
  BY DEF TakeUp, given
<1>13. Built(jn)'
  BY <1>5, <1>7 DEF Built
<1>14. KeepsOthers(w)
  BY <1>12 DEF KeepsOthers
<1>15. /\ job' \in [Workers -> JobOf]
       /\ \A v \in Workers : (Steady(job[v]) /\ Built(job[v]))'
  BY <1>8, <1>10, <1>11, <1>12, <1>13, <1>14, OthersKept
<1>16. TrialTypes'
  BY <1>1, <1>2, <1>12, <1>15 DEF TrialTypes
<1>17. InOnePlace'
  <2>1. job'[w].g = g /\ \A v \in Workers \ {w} : job'[v] = job[v]
    BY <1>1, <1>7, <1>8, JobFacts
  <2>2. \A v \in Workers : Working(v) => job[v].g # g
    BY <1>1, <1>2 DEF InOnePlace
  <2>3. \A v \in Workers \ {w} : (Working(v)' <=> Working(v)) /\ job'[v].g = job[v].g
    BY <2>1 DEF Working
  <2>4. g \notin DOMAIN done \cup DOMAIN records
    BY <1>1 DEF InOnePlace
  <2>5. \A h \in batch' : h \notin (DOMAIN done)' \cup (DOMAIN records)'
    BY <1>1, <1>2, <1>12 DEF InOnePlace
  <2>6. \A h \in (DOMAIN done)' : h \notin (DOMAIN records)'
    BY <1>1, <1>12 DEF InOnePlace
  <2>7. ASSUME NEW v \in Workers, Working(v)'
        PROVE  /\ job'[v].g \in Designs \ (batch' \cup (DOMAIN done)' \cup (DOMAIN records)')
               /\ \A u \in Workers \ {v} : Working(u)' => job'[u].g # job'[v].g
    <3>1. CASE v = w
      <4>1. g \in Designs \ (batch' \cup (DOMAIN done)' \cup (DOMAIN records)')
        BY <1>2, <1>4, <1>12, <2>4
      <4>2. ASSUME NEW u \in Workers \ {v}, Working(u)'
            PROVE  job'[u].g # job'[v].g
        <5>1. Working(u) /\ job'[u].g = job[u].g
          BY <2>3, <3>1, <4>2
        <5> QED BY <2>1, <2>2, <3>1, <5>1
      <4> QED BY <2>1, <3>1, <4>1, <4>2
    <3>2. CASE v # w
      <4>1. Working(v) /\ job'[v].g = job[v].g
        BY <2>3, <2>7, <3>2
      <4>2. /\ job[v].g \in Designs \ (batch \cup DOMAIN done \cup DOMAIN records)
            /\ \A u \in Workers \ {v} : Working(u) => job[u].g # job[v].g
        BY <1>1, <4>1 DEF InOnePlace
      <4>3. ASSUME NEW u \in Workers \ {v}, Working(u)'
            PROVE  job'[u].g # job'[v].g
        <5>1. CASE u = w
          BY <1>1, <2>1, <2>2, <4>1, <5>1
        <5>2. CASE u # w
          BY <2>3, <4>1, <4>2, <4>3, <5>2
        <5> QED BY <5>1, <5>2
      <4>4. job'[v].g \in Designs \ (batch' \cup (DOMAIN done)' \cup (DOMAIN records)')
        <5>1. (DOMAIN done)' = DOMAIN done /\ (DOMAIN records)' = DOMAIN records
          BY <1>12
        <5>2. batch' \subseteq batch
          BY <1>2
        <5> QED BY ONLY <4>1, <4>2, <5>1, <5>2
      <4> QED BY <4>3, <4>4
    <3> QED BY <3>1, <3>2
  <2> QED BY <2>5, <2>6, <2>7, Zenon DEF InOnePlace
<1>18. Fair'
  BY <1>1, <1>12, <1>15, OwnKept, Zenon DEF Fair
<1> QED BY <1>16, <1>17, <1>18 DEF TrialInv

(* It puts its record with those done, and its directories go. *)
LEMMA CleanFine ==
    ASSUME TrialInv, NEW w \in Workers, Clean(w)
    PROVE  TrialInv'
<1>1. TrialTypes /\ InOnePlace /\ Fair /\ job[w].at = "clean" /\ Working(w)
  BY DEF TrialInv, Clean, Working
<1>2. PICK j \in JobOf : j = job[w]
  BY <1>1 DEF TrialTypes
<1>3. /\ Steady(j) /\ j.env = 8 /\ j.ref = 8 /\ j.g \in Designs
      /\ j.rec \in Full /\ Own(j.g, j.rec)
  BY <1>1, <1>2, BusyFacts DEF Steady, Swapped, JobOf, Width
<1>4. PICK jn : jn = [at |-> "idle", g |-> NoDesign, env |-> 8, ref |-> 8, rec |-> [status |-> "none"]]
  OBVIOUS
<1>5. Becomes(w, jn)
  <2>1. job' = [job EXCEPT ![w].at = "idle", ![w].g = NoDesign, ![w].rec = [status |-> "none"]]
    BY DEF Clean
  <2>2. PICK r : r = [status |-> "none"]
    OBVIOUS
  <2>3. Release(j, NoDesign, "idle", r) = jn
    BY <1>3, <1>4, <2>2, Retaken
  <2> QED BY <1>1, <1>2, <2>1, <2>2, <2>3 DEF Becomes, TrialTypes, Release
<1>6. jn \in JobOf /\ Steady(jn)
  BY <1>4 DEF JobOf, Places, Width, Steady, Swapped, Passed
<1>7. /\ fate' = fate /\ records' = records /\ generation' = generation /\ stair' = stair
      /\ batch' = batch
      /\ done' = [g \in DOMAIN done \cup {j.g} |-> IF g = j.g THEN j.rec ELSE done[g]]
  BY <1>2 DEF Clean, given
<1>8. Built(jn)'
  BY <1>4 DEF Built
<1>9. KeepsOthers(w)
  <2>1. dirs' = [d \in DOMAIN dirs \ {Dir(j.g, 4), Dir(j.g, 8)} |-> dirs[d]]
    BY <1>2 DEF Clean, Restrict
  <2>2. ASSUME NEW v \in Workers \ {w}, NEW x \in Width, Working(v), Dir(job[v].g, x) \in DOMAIN dirs
        PROVE  Dir(job[v].g, x) \in DOMAIN dirs' /\ dirs'[Dir(job[v].g, x)] = dirs[Dir(job[v].g, x)]
    <3>1. job[v].g # j.g
      BY <1>1, <1>2, <2>2, BusyFacts
    <3>2. Dir(job[v].g, x) \notin {Dir(j.g, 4), Dir(j.g, 8)}
      BY <3>1 DEF Dir
    <3> QED BY <2>1, <2>2, <3>2
  <2> QED BY <2>2 DEF KeepsOthers
<1>10. /\ job' \in [Workers -> JobOf]
       /\ \A v \in Workers : (Steady(job[v]) /\ Built(job[v]))'
  BY <1>5, <1>6, <1>7, <1>8, <1>9, OthersKept
<1>11. TrialTypes'
  BY <1>1, <1>3, <1>7, <1>10 DEF TrialTypes
<1>12. InOnePlace'
  <2>1. job'[w].at = "idle" /\ \A v \in Workers \ {w} : job'[v] = job[v]
    BY <1>1, <1>4, <1>5, JobFacts
  <2>2. \A v \in Workers : Working(v)' => v # w /\ Working(v) /\ job'[v].g = job[v].g
    BY <2>1 DEF Working
  <2>3. \A v \in Workers \ {w} : Working(v) => job[v].g # j.g
    BY <1>1, <1>2, BusyFacts
  <2>4. j.g \notin batch \cup DOMAIN records
    BY <1>1, <1>2 DEF InOnePlace
  <2>5. DOMAIN done' = DOMAIN done \cup {j.g}
    BY <1>7
  <2>6. /\ \A h \in batch' : h \notin DOMAIN done' \cup DOMAIN records'
        /\ \A h \in DOMAIN done' : h \notin DOMAIN records'
    BY <1>1, <1>7, <2>4, <2>5 DEF InOnePlace
  <2>7. ASSUME NEW v \in Workers, Working(v)'
        PROVE  /\ job'[v].g \in Designs \ (batch' \cup DOMAIN done' \cup DOMAIN records')
               /\ \A u \in Workers \ {v} : Working(u)' => job'[u].g # job'[v].g
    <3>1. v # w /\ Working(v) /\ job'[v].g = job[v].g
      BY <2>2, <2>7
    <3>2. /\ job[v].g \in Designs \ (batch \cup DOMAIN done \cup DOMAIN records)
          /\ \A u \in Workers \ {v} : Working(u) => job[u].g # job[v].g
      BY <1>1, <3>1 DEF InOnePlace
    <3> QED BY <1>7, <2>2, <2>3, <2>5, <3>1, <3>2
  <2> QED BY <2>6, <2>7, Zenon DEF InOnePlace
<1>13. Fair'
  <2>1. \A g \in DOMAIN done' : Own(g, done'[g])
    BY <1>1, <1>3, <1>7 DEF Fair
  <2>2. (\A g \in DOMAIN done : Own(g, done[g]))'
    BY <1>7, <2>1, OwnKept, Zenon
  <2>3. (\A g \in DOMAIN records : Own(g, records[g]))'
    BY <1>1, <1>7, OwnKept, Zenon DEF Fair
  <2> QED BY <1>10, <2>2, <2>3, Zenon DEF Fair
<1> QED BY <1>11, <1>12, <1>13 DEF TrialInv

(* A generation is given out, or recorded: no worker has anything.         *)
LEMMA FlushFine ==
    ASSUME TrialInv, Flush
    PROVE  TrialInv'
<1>1. TrialTypes /\ InOnePlace /\ Fair
  BY DEF TrialInv
<1>2. /\ fate' = fate /\ records' = records /\ done' = done /\ job' = job /\ dirs' = dirs
      /\ generation' = generation + 1 /\ batch' \subseteq Designs \ DOMAIN records
      /\ done = <<>> /\ \A w \in Workers : job[w].at = "idle"
      /\ stair' = IF STOP1 = 0 THEN {} ELSE StopStair
  BY DEF Flush
<1>3. StopStair \subseteq Point
  BY <1>1 DEF StopStair, TrialTypes, Full, Point
<1>4. TrialTypes'
  <2>1. stair' \subseteq Point
    BY <1>2, <1>3
  <2> QED BY <1>1, <1>2, <2>1 DEF TrialTypes
<1>5. InOnePlace'
  <2>1. \A w \in Workers : ~Working(w)'
    BY <1>2 DEF Working
  <2>2. DOMAIN done' = {}
    BY <1>2
  <2>3. DOMAIN records' = DOMAIN records
    BY <1>2
  <2> QED BY <1>2, <2>1, <2>2, <2>3 DEF InOnePlace
<1>6. Fair'
  <2>1. \A w \in Workers : (Steady(job[w]) /\ Built(job[w]))'
    <3>1. TAKE w \in Workers
    <3>2. PICK j : j = job[w]
      OBVIOUS
    <3>3. Steady(j)' /\ Built(j)'
      BY <1>1, <1>2, <3>2, SteadyKept DEF Fair, Built, Mine
    <3> QED BY <1>2, <3>2, <3>3
  <2> QED BY <1>1, <1>2, <2>1, OwnKept, Zenon DEF Fair
<1> QED BY <1>4, <1>5, <1>6 DEF TrialInv

LEMMA RecordFine ==
    ASSUME TrialInv, RecordAll
    PROVE  TrialInv'
<1>1. TrialTypes /\ InOnePlace /\ Fair
  BY DEF TrialInv
<1>2. /\ fate' = fate /\ generation' = generation /\ batch' = batch /\ stair' = stair
      /\ job' = job /\ dirs' = dirs /\ done' = <<>> /\ batch = {}
      /\ \A w \in Workers : job[w].at = "idle"
      /\ records' = [g \in DOMAIN records \cup DOMAIN done |-> IF g \in DOMAIN done THEN done[g] ELSE records[g]]
  BY DEF RecordAll
<1>3. DOMAIN records' = DOMAIN records \cup DOMAIN done /\ DOMAIN done' = {}
  BY <1>2
<1>4. TrialTypes'
  BY <1>1, <1>2, <1>3 DEF TrialTypes
<1>5. InOnePlace'
  <2>1. \A w \in Workers : ~Working(w)'
    BY <1>2 DEF Working
  <2> QED BY <1>2, <1>3, <2>1 DEF InOnePlace
<1>6. Fair'
  <2>1. \A g \in DOMAIN records' : Own(g, records'[g])
    BY <1>1, <1>2 DEF Fair
  <2>2. (\A g \in DOMAIN records : Own(g, records[g]))'
    BY <1>2, <2>1, OwnKept, Zenon
  <2>3. \A w \in Workers : (Steady(job[w]) /\ Built(job[w]))'
    <3>1. TAKE w \in Workers
    <3>2. PICK j : j = job[w]
      OBVIOUS
    <3>3. Steady(j)' /\ Built(j)'
      BY <1>1, <1>2, <3>2, SteadyKept DEF Fair, Built, Mine
    <3> QED BY <1>2, <3>2, <3>3
  <2> QED BY <1>3, <2>2, <2>3 DEF Fair
<1> QED BY <1>4, <1>5, <1>6 DEF TrialInv

LEMMA InitFine == TrialInit => TrialInv
<1> SUFFICES ASSUME TrialInit PROVE TrialInv
  OBVIOUS
<1>1. /\ fate \in [Rests -> Fates] /\ generation = 0 /\ batch = {} /\ stair = {}
      /\ DOMAIN records = {} /\ DOMAIN done = {}
      /\ job = [w \in Workers |-> IdleJob]
  BY DEF TrialInit
<1>2. IdleJob \in JobOf /\ IdleJob.at = "idle" /\ IdleJob.env = 8 /\ IdleJob.ref = 8
  BY DEF IdleJob, JobOf, Places, Width
<1>3. TrialTypes
  BY <1>1, <1>2 DEF TrialTypes
<1>4. InOnePlace
  BY <1>1, <1>2 DEF InOnePlace, Working
<1>5. Steady(IdleJob) /\ Built(IdleJob)
  BY <1>2 DEF Steady, Swapped, Passed, Built
<1>6. Fair
  BY <1>1, <1>5 DEF Fair
<1> QED BY <1>3, <1>4, <1>6 DEF TrialInv

LEMMA StutterFine ==
    ASSUME TrialInv, UNCHANGED trialVars
    PROVE  TrialInv'
<1>1. /\ fate' = fate /\ records' = records /\ generation' = generation /\ batch' = batch
      /\ done' = done /\ stair' = stair /\ job' = job /\ dirs' = dirs
  BY DEF trialVars
<1>2. TrialTypes' /\ InOnePlace'
  BY <1>1 DEF TrialInv, TrialTypes, InOnePlace, Working
<1>3. Fair'
  <2>1. \A w \in Workers : (Steady(job[w]) /\ Built(job[w]))'
    <3>1. TAKE w \in Workers
    <3>2. PICK j : j = job[w]
      OBVIOUS
    <3>3. Steady(j)' /\ Built(j)'
      BY <1>1, <3>2, SteadyKept DEF TrialInv, Fair, Built, Mine
    <3> QED BY <1>1, <3>2, <3>3
  <2> QED BY <1>1, <2>1, OwnKept, Zenon DEF TrialInv, Fair
<1> QED BY <1>2, <1>3 DEF TrialInv

LEMMA NextFine ==
    ASSUME TrialInv, [TrialNext]_trialVars
    PROVE  TrialInv'
BY FlushFine, RecordFine, StutterFine, TakeUpFine, BuildFine, AnswersFine, FirstFine, RoundsFine,
   CleanFine DEF TrialNext, AllTried

LEMMA TrialInductive == TrialSpec => []TrialInv
BY InitFine, NextFine, PTL DEF TrialSpec
-----------------------------------------------------------------------------
(* What a design stopped after one round has against it.  No round is so   *)
(* much luckier than the median that STOP1 does not make up for it, and    *)
(* no design is so fast that its speed is nothing, in whole percents.      *)
RoundsStrayLess == \A k \in Strays : 100 * (100 + k) < (100 - SPEED_TOL) * (100 + STOP1)
SpeedsCount     == \A f \in Fates : Speed(f.at[8], 8) > 0

LEMMA StoppedSlower ==
    ASSUME NEW p \in Nat, NEW V \in Nat \ {0}, NEW k \in -99 .. 99,
           100 * (100 + k) < (100 - SPEED_TOL) * (100 + STOP1),
           p * (100 + STOP1) <= ((V * (100 + k)) \div 100) * 100
    PROVE  Faster(p, V) /\ NoSlower(p, V)
<1> DEFINE A == 100 + STOP1
           B == 100 + k
           C == 100 - SPEED_TOL
<1>1. A \in Nat \ {0} /\ B \in Nat \ {0} /\ C \in Nat /\ 100 * B < C * A
  BY TrialAssumption, ToleranceAssumption
<1>2. NoSlower(p, V) <=> p * 100 <= V * (100 + SPEED_TOL)
  BY DEF NoSlower
<1>3. Faster(p, V) <=> p * 100 < V * C
  BY DEF Faster
<1>4. p * A <= ((V * B) \div 100) * 100
  OBVIOUS
<1> HIDE DEF A, B, C
<1>5. PICK v \in Nat : v = V * B
  BY <1>1
<1>6. (v \div 100) * 100 <= v
  OBVIOUS
<1>7. p * A <= V * B
  <2>1. PICK q \in Nat : q = (v \div 100) * 100
    BY <1>5
  <2>2. p * A <= q /\ q <= v
    BY <1>4, <1>5, <1>6, <2>1
  <2> QED BY <1>1, <1>5, <2>1, <2>2
<1>8. (p * 100) * A < (V * C) * A
  <2>1. (p * 100) * A = (p * A) * 100 /\ (V * C) * A = V * (C * A) /\ (V * B) * 100 = V * (100 * B)
    BY <1>1
  <2>2. V * (100 * B) < V * (C * A)
    <3>1. PICK x \in Nat : x = 100 * B
      BY <1>1
    <3>2. PICK y \in Nat : y = C * A
      BY <1>1
    <3>3. x < y /\ V > 0
      BY <1>1, <3>1, <3>2
    <3>4. V * x < V * y
      BY ONLY <3>3, x \in Nat, y \in Nat, V \in Nat
    <3> QED BY <3>1, <3>2, <3>4
  <2>3. (p * A) * 100 <= (V * B) * 100
    BY <1>1, <1>7
  <2> QED BY <1>1, <2>1, <2>2, <2>3
<1>9. p * 100 < V * C
  <2>1. PICK x \in Nat : x = p * 100
    OBVIOUS
  <2>2. PICK y \in Nat : y = V * C
    BY <1>1
  <2>3. x * A < y * A
    BY <1>8, <2>1, <2>2
  <2>4. x < y
    BY ONLY <1>1, <2>3, x \in Nat, y \in Nat
  <2> QED BY <2>1, <2>2, <2>4
<1>10. V * C <= V * (100 + SPEED_TOL)
  <2>1. C <= 100 + SPEED_TOL /\ 100 + SPEED_TOL \in Nat
    BY ToleranceAssumption DEF C
  <2> QED BY <1>1, <2>1
<1>11. p * 100 <= V * (100 + SPEED_TOL)
  BY <1>1, <1>9, <1>10, ToleranceAssumption
<1> QED BY <1>2, <1>3, <1>9, <1>11

LEMMA OneWidthOf ==
    ASSUME NEW r
    PROVE  /\ OneWidth(r).speed = r.speed /\ OneWidth(r).total = r.total
           /\ OneWidth(r).rss = r.rss /\ OneWidth(r).speed32 = 1
BY DEF OneWidth

(* Beaten in a round is dominated in them all. *)
LEMMA BeatenIsDominated ==
    ASSUME TrialTypes, RoundsStrayLess, SpeedsCount, NEW g \in Designs, StairMeasured,
           NEW k \in Strays,
           StopBeaten((Speed(Eight(g), 8) * (100 + k)) \div 100, Eight(g).total, Eight(g).rss)
    PROVE  \E p \in DOMAIN records :
              /\ records[p].status = "ok" /\ records[p].gen < generation
              /\ Dominates(OneWidth(records[p]), OneWidth(JudgedAlone(g)))
<1> DEFINE V == Speed(Eight(g), 8)
<1>1. /\ Eight(g) \in Run /\ V \in Nat \ {0} /\ k \in -99 .. 99
      /\ 100 * (100 + k) < (100 - SPEED_TOL) * (100 + STOP1)
  <2>1. Eight(g) \in Run /\ fate[g.rest] \in Fates
    BY RunFacts, TrialAssumption DEF TrialTypes, Eight, Rests, Width
  <2>2. V \in Nat /\ V > 0
    BY <2>1, SpeedFacts DEF SpeedsCount, Eight, Width
  <2> QED BY <2>1, <2>2, TrialAssumption DEF RoundsStrayLess
<1>2. PICK q \in stair :
        /\ q.rss <= Eight(g).rss + MEM_TOL /\ q.total <= Eight(g).total
        /\ q.speed * (100 + STOP1) <= ((V * (100 + k)) \div 100) * 100
  BY DEF StopBeaten
<1>3. q \in Point /\ q.speed \in Nat
  BY DEF TrialTypes, Point
<1>4. PICK p \in DOMAIN records :
        /\ records[p].status = "ok" /\ records[p].gen < generation
        /\ q = [speed |-> records[p].speed, total |-> records[p].total, rss |-> records[p].rss]
  BY DEF StairMeasured
<1>5. q.speed = records[p].speed /\ q.total = records[p].total /\ q.rss = records[p].rss
  BY <1>4
<1>6. Faster(q.speed, V) /\ NoSlower(q.speed, V)
  <2> HIDE DEF V
  <2> QED BY <1>1, <1>2, <1>3, StoppedSlower
<1>7. /\ JudgedAlone(g).speed = V /\ JudgedAlone(g).total = Eight(g).total
      /\ JudgedAlone(g).rss = Eight(g).rss
  BY DEF JudgedAlone, Speed, Eight
<1>8. NoSlower(1, 1)
  BY ToleranceAssumption DEF NoSlower
<1>9. NoLarger(q.rss, Eight(g).rss)
  BY <1>2 DEF NoLarger
<1>10. Dominates(OneWidth(records[p]), OneWidth(JudgedAlone(g)))
  <2> HIDE DEF V
  <2> QED BY <1>2, <1>5, <1>6, <1>7, <1>8, <1>9, OneWidthOf DEF Dominates
<1> QED BY <1>4, <1>10

(* The records there are stay, and only new ones come.                     *)
RecordsGrow == \A p \in DOMAIN records : p \in DOMAIN records' /\ records'[p] = records[p]

LEMMA BeatenKept ==
    ASSUME NEW g, NEW rec, fate' = fate, RecordsGrow, Beaten(g, rec)
    PROVE  Beaten(g, rec)'
<1>1. JudgedAlone(g)' = JudgedAlone(g)
  BY AloneKept
<1> QED BY <1>1, Zenon DEF Beaten, RecordsGrow

(* A worker's step that stops nobody, or one who has been beaten.          *)
LEMMA StopsGoesOn ==
    ASSUME TrialInv, Stops, NEW w \in Workers, NEW jn, GoesOn(w, jn),
           jn.rec.gen = job[w].rec.gen, jn.at = "clean" => Beaten(jn.g, jn.rec)
    PROVE  Stops'
<1>1. /\ fate' = fate /\ records' = records /\ generation' = generation /\ stair' = stair
      /\ done' = done
  BY DEF GoesOn, given
<1>2. RecordsGrow
  BY <1>1 DEF RecordsGrow
<1>3. job'[w] = jn /\ \A v \in Workers \ {w} : job'[v] = job[v]
  BY JobFacts DEF TrialInv, GoesOn
<1>4. StairMeasured'
  BY <1>1 DEF Stops, StairMeasured
<1>5. (\A g \in DOMAIN records : Beaten(g, records[g]))'
  BY <1>1, <1>2, BeatenKept, Zenon DEF Stops
<1>6. (\A g \in DOMAIN done : Beaten(g, done[g]))'
  BY <1>1, <1>2, BeatenKept, Zenon DEF Stops
<1>7. ASSUME NEW v \in Workers
      PROVE  (/\ job[v].at = "clean" => Beaten(job[v].g, job[v].rec)
              /\ Working(v) => job[v].rec.gen = generation)'
  <2>1. PICK j : j = job'[v]
    OBVIOUS
  <2>2. (j.at = "clean" => Beaten(j.g, j.rec)) /\ (j.at # "idle" => j.rec.gen = generation)
    <3>1. CASE v = w
      BY <1>3, <2>1, <3>1 DEF Stops, GoesOn, Working
    <3>2. CASE v # w
      <4>1. j = job[v]
        BY <1>3, <2>1, <3>2
      <4> QED BY <4>1 DEF Stops, Working
    <3> QED BY <3>1, <3>2
  <2>3. j.at = "clean" => Beaten(j.g, j.rec)'
    BY <1>1, <1>2, <2>2, BeatenKept
  <2> QED BY <1>1, <2>1, <2>2, <2>3 DEF Working
<1> QED BY <1>4, <1>5, <1>6, <1>7, Zenon DEF Stops

LEMMA StopsQuiet ==
    ASSUME TrialInv, Stops, NEW w \in Workers, NEW jn, Quiet(w, jn)
    PROVE  Stops'
<1>1. jn.at = "clean" => Beaten(jn.g, jn.rec)
  BY DEF Quiet, Beaten
<1> QED BY <1>1, StopsGoesOn DEF Quiet

LEMMA StopsFirst ==
    ASSUME TrialInv, Stops, RoundsStrayLess, SpeedsCount, NEW w \in Workers, NEW jn, Stopped(w, jn)
    PROVE  Stops'
<1>1. GoesOn(w, jn) /\ jn.rec.gen = job[w].rec.gen /\ jn.g = job[w].g /\ Working(w)
  BY DEF Stopped, GoesOn
<1>2. PICK j \in JobOf : j = job[w]
  BY <1>1, BusyFacts
<1>3. /\ Steady(j) /\ j.g \in Designs /\ j.at = "first" /\ TrialTypes /\ StairMeasured
      /\ j.rec.gen = generation
  BY <1>1, <1>2, BusyFacts DEF Stopped, Stops
<1>4. Truth(j) = Eight(j.g) /\ j.rec.total = Eight(j.g).total
  BY <1>3 DEF Steady, Swapped, Passed, Truth, Eight
<1>5. PICK k \in Strays : StopBeaten((Speed(Eight(j.g), 8) * (100 + k)) \div 100,
                                     Eight(j.g).total, Eight(j.g).rss)
  BY <1>2, <1>4 DEF Stopped
<1>6. Beaten(jn.g, jn.rec)
  <2>1. \E p \in DOMAIN records :
              /\ records[p].status = "ok" /\ records[p].gen < generation
              /\ Dominates(OneWidth(records[p]), OneWidth(JudgedAlone(j.g)))
    BY <1>3, <1>5, BeatenIsDominated
  <2>2. jn.g = j.g /\ jn.rec.gen = generation
    BY <1>1, <1>2, <1>3
  <2> QED BY <2>1, <2>2, Zenon DEF Beaten, Beats
<1> QED BY <1>1, <1>6, StopsGoesOn

(* What does not come from a worker's going on: the stair holds who was    *)
(* measured before the generation, and what is cleaned away is done.        *)
LEMMA StopsTakeUp ==
    ASSUME TrialInv, Stops, NEW w \in Workers, TakeUp(w)
    PROVE  Stops'
<1>1. /\ fate' = fate /\ records' = records /\ generation' = generation /\ stair' = stair
      /\ done' = done
  BY DEF TakeUp, given
<1>2. RecordsGrow
  BY <1>1 DEF RecordsGrow
<1>3. /\ \A v \in Workers \ {w} : job'[v] = job[v]
      /\ job'[w].rec.gen = generation /\ job'[w].rec.status # "stopped"
  <2>1. job \in [Workers -> JobOf]
    BY DEF TrialInv, TrialTypes
  <2>2. PICK g \in batch :
          job' = [job EXCEPT ![w].g = g, ![w].at = IF ReachLethal(g) THEN "clean" ELSE "build",
                             ![w].rec = NotMeasured(IF ReachLethal(g) THEN "reach limit" ELSE "ok")]
    BY DEF TakeUp
  <2>3. PICK rec : rec = NotMeasured(IF ReachLethal(g) THEN "reach limit" ELSE "ok")
    OBVIOUS
  <2>4. rec.gen = generation /\ rec.status # "stopped"
    BY <2>3 DEF NotMeasured
  <2>5. job'[w].rec = rec /\ \A v \in Workers \ {w} : job'[v] = job[v]
    BY <2>1, <2>2, <2>3 DEF JobOf
  <2> QED BY <2>4, <2>5
<1>4. StairMeasured'
  BY <1>1 DEF Stops, StairMeasured
<1>5. (\A g \in DOMAIN records : Beaten(g, records[g]))'
  BY <1>1, <1>2, BeatenKept, Zenon DEF Stops
<1>6. (\A g \in DOMAIN done : Beaten(g, done[g]))'
  BY <1>1, <1>2, BeatenKept, Zenon DEF Stops
<1>7. ASSUME NEW v \in Workers
      PROVE  (/\ job[v].at = "clean" => Beaten(job[v].g, job[v].rec)
              /\ Working(v) => job[v].rec.gen = generation)'
  <2>1. CASE v = w
    BY <1>1, <1>3, <2>1 DEF Beaten
  <2>2. CASE v # w
    <3>1. PICK j : j = job[v]
      OBVIOUS
    <3>2. (j.at = "clean" => Beaten(j.g, j.rec)) /\ (j.at # "idle" => j.rec.gen = generation)
      BY <3>1 DEF Stops, Working
    <3>3. j.at = "clean" => Beaten(j.g, j.rec)'
      BY <1>1, <1>2, <3>2, BeatenKept
    <3>4. job'[v] = j
      BY <1>3, <2>2, <3>1
    <3> QED BY <1>1, <3>2, <3>3, <3>4 DEF Working
  <2> QED BY <2>1, <2>2
<1> QED BY <1>4, <1>5, <1>6, <1>7, Zenon DEF Stops

LEMMA StopsClean ==
    ASSUME TrialInv, Stops, NEW w \in Workers, Clean(w)
    PROVE  Stops'
<1>1. /\ fate' = fate /\ records' = records /\ generation' = generation /\ stair' = stair
      /\ done' = [g \in DOMAIN done \cup {job[w].g} |-> IF g = job[w].g THEN job[w].rec ELSE done[g]]
  BY DEF Clean, given
<1>2. RecordsGrow
  BY <1>1 DEF RecordsGrow
<1>3. job'[w].at = "idle" /\ \A v \in Workers \ {w} : job'[v] = job[v]
  BY DEF TrialInv, TrialTypes, Clean, JobOf
<1>4. StairMeasured'
  BY <1>1 DEF Stops, StairMeasured
<1>5. (\A g \in DOMAIN records : Beaten(g, records[g]))'
  BY <1>1, <1>2, BeatenKept, Zenon DEF Stops
<1>6. (\A g \in DOMAIN done : Beaten(g, done[g]))'
  <2>1. \A g \in DOMAIN done' : Beaten(g, done'[g])
    BY <1>1 DEF Stops, Clean
  <2> QED BY <1>1, <1>2, <2>1, BeatenKept, Zenon
<1>7. ASSUME NEW v \in Workers
      PROVE  (/\ job[v].at = "clean" => Beaten(job[v].g, job[v].rec)
              /\ Working(v) => job[v].rec.gen = generation)'
  <2>1. CASE v = w
    BY <1>3, <2>1 DEF Working
  <2>2. CASE v # w
    <3>1. PICK j : j = job[v]
      OBVIOUS
    <3>2. (j.at = "clean" => Beaten(j.g, j.rec)) /\ (j.at # "idle" => j.rec.gen = generation)
      BY <3>1 DEF Stops, Working
    <3>3. j.at = "clean" => Beaten(j.g, j.rec)'
      BY <1>1, <1>2, <3>2, BeatenKept
    <3>4. job'[v] = j
      BY <1>3, <2>2, <3>1
    <3> QED BY <1>1, <3>2, <3>3, <3>4 DEF Working
  <2> QED BY <2>1, <2>2
<1> QED BY <1>4, <1>5, <1>6, <1>7, Zenon DEF Stops

LEMMA StopsFlush ==
    ASSUME TrialInv, Stops, Flush
    PROVE  Stops'
<1>1. /\ fate' = fate /\ records' = records /\ done' = done /\ job' = job
      /\ generation' = generation + 1 /\ done = <<>> /\ \A w \in Workers : job[w].at = "idle"
      /\ stair' = IF STOP1 = 0 THEN {} ELSE StopStair
  BY DEF Flush
<1>2. RecordsGrow
  BY <1>1 DEF RecordsGrow
<1>3. StairMeasured'
  <2>1. \A q \in StopStair : \E p \in DOMAIN records :
          /\ records[p].status = "ok" /\ records[p].gen < generation + 1
          /\ q = [speed |-> records[p].speed, total |-> records[p].total, rss |-> records[p].rss]
    BY DEF StopStair
  <2> QED BY <1>1, <2>1 DEF StairMeasured
<1>4. (\A g \in DOMAIN records : Beaten(g, records[g]))'
  BY <1>1, <1>2, BeatenKept, Zenon DEF Stops
<1>5. DOMAIN done' = {}
  BY <1>1
<1> QED BY <1>1, <1>3, <1>4, <1>5 DEF Stops, Working

LEMMA StopsRecord ==
    ASSUME TrialInv, Stops, RecordAll
    PROVE  Stops'
<1>1. /\ fate' = fate /\ generation' = generation /\ stair' = stair /\ job' = job
      /\ done' = <<>> /\ \A w \in Workers : job[w].at = "idle"
      /\ records' = [g \in DOMAIN records \cup DOMAIN done |-> IF g \in DOMAIN done THEN done[g] ELSE records[g]]
  BY DEF RecordAll
<1>2. RecordsGrow
  BY <1>1 DEF RecordsGrow, TrialInv, InOnePlace
<1>3. StairMeasured'
  <2>1. ASSUME NEW q \in stair
        PROVE  \E p \in DOMAIN records' :
                 /\ records'[p].status = "ok" /\ records'[p].gen < generation
                 /\ q = [speed |-> records'[p].speed, total |-> records'[p].total, rss |-> records'[p].rss]
    <3>1. PICK p \in DOMAIN records :
            /\ records[p].status = "ok" /\ records[p].gen < generation
            /\ q = [speed |-> records[p].speed, total |-> records[p].total, rss |-> records[p].rss]
      BY DEF Stops, StairMeasured
    <3>2. p \in DOMAIN records' /\ records'[p] = records[p]
      BY <1>2 DEF RecordsGrow
    <3> QED BY <3>1, <3>2
  <2>2. stair' = stair /\ generation' = generation
    BY <1>1
  <2> QED BY ONLY <2>1, <2>2 DEF StairMeasured
<1>4. (\A g \in DOMAIN records : Beaten(g, records[g]))'
  <2>1. \A g \in DOMAIN records' : Beaten(g, records'[g])
    BY <1>1 DEF Stops
  <2> QED BY <1>1, <1>2, <2>1, BeatenKept, Zenon
<1>5. DOMAIN done' = {}
  BY <1>1
<1> QED BY <1>1, <1>3, <1>4, <1>5 DEF Stops, Working

LEMMA StopsStutter ==
    ASSUME Stops, UNCHANGED trialVars
    PROVE  Stops'
<1>1. /\ fate' = fate /\ records' = records /\ generation' = generation /\ done' = done
      /\ stair' = stair /\ job' = job
  BY DEF trialVars
<1>2. RecordsGrow
  BY <1>1 DEF RecordsGrow
<1>3. (\A g \in DOMAIN records : Beaten(g, records[g]))' /\ (\A g \in DOMAIN done : Beaten(g, done[g]))'
  BY <1>1, <1>2, BeatenKept, Zenon DEF Stops
<1>4. (\A v \in Workers : /\ job[v].at = "clean" => Beaten(job[v].g, job[v].rec)
                          /\ Working(v) => job[v].rec.gen = generation)'
  BY <1>1, <1>2, BeatenKept, Zenon DEF Stops, Working
<1>5. StairMeasured'
  BY <1>1 DEF Stops, StairMeasured
<1> QED BY <1>3, <1>4, <1>5, Zenon DEF Stops

LEMMA NextStops ==
    ASSUME TrialInv, Stops, RoundsStrayLess, SpeedsCount, [TrialNext]_trialVars
    PROVE  Stops'
<1>1. ASSUME NEW w \in Workers, BuildDesign(w) \/ HeldToAnswers(w) \/ Rounds(w)
      PROVE  Stops'
  <2>1. \E jn : Quiet(w, jn)
    BY <1>1, BuildFine, AnswersFine, RoundsFine
  <2> QED BY <2>1, StopsQuiet
<1>2. ASSUME NEW w \in Workers, FirstRound(w)
      PROVE  Stops'
  <2>1. \E jn : Quiet(w, jn) \/ Stopped(w, jn)
    BY <1>2, FirstFine
  <2> QED BY <2>1, StopsQuiet, StopsFirst
<1> QED BY <1>1, <1>2, StopsTakeUp, StopsClean, StopsFlush, StopsRecord, StopsStutter
        DEF TrialNext, AllTried
-----------------------------------------------------------------------------
(* No design is in two places and no worker has another's.                 *)
THEOREM TrialTypeCorrect == TrialSpec => [](TrialTypes /\ InOnePlace)
<1>1. TrialInv => TrialTypes /\ InOnePlace
  BY DEF TrialInv
<1> QED BY <1>1, TrialInductive, PTL

(* A design is judged by what it does itself, at both widths, whatever its  *)
(* worker evaluated before and the others build and remove meanwhile        *)
(* (evaluate(), alive(), eval32() and at_width() of evolve.py).             *)
THEOREM JudgedByItselfAlways == TrialSpec => []JudgedByItself
<1>1. TrialInv => JudgedByItself
  BY DEF TrialInv, Fair, Own, JudgedByItself
<1> QED BY <1>1, TrialInductive, PTL

(* Who is stopped after one round would have been dominated, 32-bit speed   *)
(* aside, by a design measured before: stop_stair() and stop_beaten() lose  *)
(* nothing of the front, if no round strays more than STOP1 makes up for.   *)
THEOREM StoppedIsDominatedAlways ==
    ASSUME RoundsStrayLess, SpeedsCount
    PROVE  TrialSpec => []StoppedIsDominated
<1>1. TrialInit => Stops
  BY DEF TrialInit, IdleJob, Stops, StairMeasured, Working
<1>2. TrialInv /\ Stops /\ [TrialNext]_trialVars => Stops'
  BY NextStops
<1>3. Stops => StoppedIsDominated
  BY DEF Stops, Beaten, Beats, StoppedIsDominated
<1> QED BY <1>1, <1>2, <1>3, TrialInductive, PTL DEF TrialSpec
=============================================================================

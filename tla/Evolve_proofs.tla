----------------------------- MODULE Evolve_proofs ----------------------------
(***************************************************************************)
(* What lab/evolve/evolve.py's run keeps through its crashes, for any      *)
(* population, genome space, readings, screen and number of generations.   *)
(***************************************************************************)
EXTENDS Evolve, FiniteSetTheorems, SequenceTheorems, TLAPS

-----------------------------------------------------------------------------
(* Lists put in order.                                                     *)
Lt == {p \in Nat \X Nat : p[1] < p[2]}

LEMMA LeastOf ==
    ASSUME NEW T \in SUBSET Nat, T # {}
    PROVE  \E x \in T : \A y \in T : x <= y
<1>1. Lt = OpToRel(<, Nat)
  BY Zenon DEF Lt, OpToRel
<1>2. IsWellFoundedOn(Lt, Nat)
  BY <1>1, NatLessThanWellFounded, Zenon
<1>3. PICK x \in T : \A y \in T : ~(<<y, x>> \in Lt)
  BY <1>2, WFMin, Zenon
<1>4. \A y \in T : ~(y < x)
  BY <1>3 DEF Lt
<1> QED
  BY <1>4

(* A set of naturals that goes on from each of its members below n has all  *)
(* of them.                                                                *)
LEMMA UpTo ==
    ASSUME NEW n \in Nat, NEW S, 0 \in S, \A k \in 1 .. n : k - 1 \in S => k \in S
    PROVE  0 .. n \subseteq S
<1> DEFINE T == {k \in 0 .. n : k \notin S}
<1> SUFFICES ASSUME T # {} PROVE FALSE
  OBVIOUS
<1>1. T \in SUBSET Nat
  OBVIOUS
<1>2. PICK k \in T : \A j \in T : k <= j
  BY <1>1, LeastOf
<1>3. k \in 1 .. n /\ k - 1 \in 0 .. n /\ ~(k <= k - 1)
  OBVIOUS
<1>4. k - 1 \in S
  BY <1>2, <1>3
<1> QED
  BY <1>3, <1>4

(* What Listed puts in order, and before which places of the list a place   *)
(* comes.                                                                  *)
Firsts(s, key) == {k \in DOMAIN s : s[k] \in DOMAIN key /\ \A j \in 1 .. k - 1 : s[j] # s[k]}
Ahead(s, key, k) == {j \in Firsts(s, key) : \/ key[s[j]] < key[s[k]]
                                            \/ (key[s[j]] = key[s[k]] /\ j < k)}

IsList(s)  == Len(s) \in Nat /\ DOMAIN s = 1 .. Len(s)
Keys(key)  == \A i \in DOMAIN key : key[i] \in Nat
NoTwice(s) == \A j, k \in DOMAIN s : s[j] = s[k] => j = k

LEMMA FirstsFinite ==
    ASSUME NEW s, NEW key, IsList(s)
    PROVE  /\ Firsts(s, key) \subseteq 1 .. Len(s)
           /\ IsFiniteSet(Firsts(s, key)) /\ Cardinality(Firsts(s, key)) \in Nat
           /\ \A T \in SUBSET Firsts(s, key) :
                 /\ IsFiniteSet(T) /\ Cardinality(T) \in Nat
                 /\ Cardinality(T) <= Cardinality(Firsts(s, key))
                 /\ Cardinality(T) = Cardinality(Firsts(s, key)) => T = Firsts(s, key)
<1>1. Firsts(s, key) \subseteq 1 .. Len(s)
  BY DEF Firsts, IsList
<1>2. IsFiniteSet(1 .. Len(s))
  BY FS_Interval DEF IsList
<1>3. IsFiniteSet(Firsts(s, key))
  BY <1>1, <1>2, FS_Subset
<1>4. ASSUME NEW T \in SUBSET Firsts(s, key)
      PROVE  /\ IsFiniteSet(T) /\ Cardinality(T) \in Nat
             /\ Cardinality(T) <= Cardinality(Firsts(s, key))
             /\ Cardinality(T) = Cardinality(Firsts(s, key)) => T = Firsts(s, key)
  BY <1>3, FS_Subset, FS_CardinalityType
<1> QED
  BY <1>1, <1>3, <1>4, FS_CardinalityType

(* Of any places, one comes first. *)
LEMMA FirstOfPlaces ==
    ASSUME NEW s, NEW key, IsList(s), Keys(key),
           NEW T \in SUBSET Firsts(s, key), T # {}
    PROVE  \E k \in T : \A j \in T \ {k} : k \in Ahead(s, key, j)
<1> DEFINE K == {key[s[j]] : j \in T}
<1>1. \A j \in Firsts(s, key) : j \in Nat /\ key[s[j]] \in Nat
  BY DEF Firsts, IsList, Keys
<1>2. K \in SUBSET Nat /\ K # {}
  BY <1>1
<1>3. PICK m \in K : \A x \in K : m <= x
  BY <1>2, LeastOf
<1> DEFINE J == {j \in T : key[s[j]] = m}
<1>4. J \in SUBSET Nat /\ J # {}
  BY <1>1
<1>5. PICK k \in J : \A j \in J : k <= j
  BY <1>4, LeastOf
<1>6. ASSUME NEW j \in T \ {k}
      PROVE  k \in Ahead(s, key, j)
  <2>1. m <= key[s[j]] /\ m \in Nat /\ key[s[j]] \in Nat /\ j \in Nat /\ k \in Nat /\ key[s[k]] = m
    BY <1>1, <1>2, <1>3
  <2>2. CASE key[s[j]] = m
    <3>1. j \in J
      BY <2>2
    <3>2. k < j
      BY <3>1, <2>1, <1>5
    <3> QED
      BY <3>2, <2>2, <2>1 DEF Ahead
  <2>3. CASE key[s[j]] # m
    BY <2>1, <2>3 DEF Ahead
  <2> QED
    BY <2>2, <2>3
<1> QED
  BY <1>6

(* The order is one: of two places one is ahead of the other, none of       *)
(* itself, and what is ahead of a place is ahead of those it is ahead of.  *)
LEMMA AheadOrders ==
    ASSUME NEW s, NEW key, IsList(s), Keys(key)
    PROVE  /\ \A k \in Firsts(s, key) : k \notin Ahead(s, key, k)
           /\ \A j, k \in Firsts(s, key) : j \in Ahead(s, key, k) => Ahead(s, key, j) \subseteq Ahead(s, key, k)
           /\ \A j, k \in Firsts(s, key) : j # k => j \in Ahead(s, key, k) \/ k \in Ahead(s, key, j)
           /\ \A j, k \in Firsts(s, key) : ~(j \in Ahead(s, key, k) /\ k \in Ahead(s, key, j))
<1>1. \A j \in Firsts(s, key) : j \in Nat /\ key[s[j]] \in Nat
  BY DEF Firsts, IsList, Keys
<1> QED
  BY <1>1 DEF Ahead

(* For every number of places there are so many that come before all others. *)
LEMMA FirstPlaces ==
    ASSUME NEW s, NEW key, IsList(s), Keys(key),
           NEW n \in 0 .. Cardinality(Firsts(s, key))
    PROVE  \E D \in SUBSET Firsts(s, key) :
              Cardinality(D) = n /\ \A d \in D : Ahead(s, key, d) \subseteq D
<1> DEFINE F == Firsts(s, key)
           N0 == Cardinality(F)
           Low(D) == \A d \in D : Ahead(s, key, d) \subseteq D
           Good == {k \in 0 .. N0 : \E D \in SUBSET F : Cardinality(D) = k /\ Low(D)}
<1>0. N0 \in Nat /\ \A T \in SUBSET F : IsFiniteSet(T) /\ Cardinality(T) \in Nat
  BY FirstsFinite
<1>1. 0 \in Good
  <2>1. {} \in SUBSET F /\ Cardinality({}) = 0 /\ Low({})
    BY FS_EmptySet
  <2> QED
    BY <1>0, <2>1
<1>2. ASSUME NEW k \in 1 .. N0, k - 1 \in Good
      PROVE  k \in Good
  <2>1. PICK D \in SUBSET F : Cardinality(D) = k - 1 /\ Low(D)
    BY <1>2
  <2>2. F \ D # {} /\ F \ D \in SUBSET F
    BY <2>1, <1>0
  <2>3. PICK m \in F \ D : \A j \in (F \ D) \ {m} : m \in Ahead(s, key, j)
    BY <2>2, FirstOfPlaces
  <2>4. Cardinality(D \cup {m}) = k
    BY <2>1, <2>3, <1>0, FS_AddElement
  <2>5. Ahead(s, key, m) \subseteq D
    <3>1. \A j \in F : ~(j \in Ahead(s, key, m) /\ m \in Ahead(s, key, j))
      BY <2>3, AheadOrders
    <3>2. m \notin Ahead(s, key, m)
      BY <2>3, AheadOrders
    <3>3. Ahead(s, key, m) \subseteq F
      BY DEF Ahead
    <3> QED
      BY <3>1, <3>2, <3>3, <2>3
  <2>6. Low(D \cup {m}) /\ D \cup {m} \in SUBSET F
    BY <2>1, <2>3, <2>5
  <2> QED
    BY <2>4, <2>6
<1> HIDE DEF Good
<1>3. 0 .. N0 \subseteq Good
  BY <1>0, <1>1, <1>2, UpTo
<1>4. n \in Good
  BY <1>3
<1> QED
  BY <1>4 DEF Good

(* Every place there is has one member of Firsts, by how many are ahead.    *)
LEMMA PlaceAt ==
    ASSUME NEW s, NEW key, IsList(s), Keys(key),
           NEW n \in 1 .. Cardinality(Firsts(s, key))
    PROVE  \E k \in Firsts(s, key) : Cardinality(Ahead(s, key, k)) = n - 1
<1> DEFINE F == Firsts(s, key)
<1>0. Cardinality(F) \in Nat /\ n - 1 \in 0 .. Cardinality(F)
  BY FirstsFinite
<1>1. PICK D \in SUBSET F : Cardinality(D) = n - 1 /\ \A d \in D : Ahead(s, key, d) \subseteq D
  BY <1>0, FirstPlaces
<1>2. F \ D # {} /\ F \ D \in SUBSET F
  BY <1>0, <1>1
<1>3. PICK m \in F \ D : \A j \in (F \ D) \ {m} : m \in Ahead(s, key, j)
  BY <1>2, FirstOfPlaces
<1>4. Ahead(s, key, m) \subseteq D
  <2>1. \A j \in F : ~(j \in Ahead(s, key, m) /\ m \in Ahead(s, key, j))
    BY <1>3, AheadOrders
  <2>2. m \notin Ahead(s, key, m)
    BY <1>3, AheadOrders
  <2>3. Ahead(s, key, m) \subseteq F
    BY DEF Ahead
  <2> QED
    BY <2>1, <2>2, <2>3, <1>3
<1>5. D \subseteq Ahead(s, key, m)
  <2>1. ASSUME NEW d \in D, d \notin Ahead(s, key, m)
        PROVE  FALSE
    <3>1. d \in F /\ d # m
      BY <1>3
    <3>2. m \in Ahead(s, key, d)
      BY <3>1, <2>1, <1>3, AheadOrders
    <3> QED
      BY <3>2, <1>1, <1>3
  <2> QED
    BY <2>1
<1>6. Ahead(s, key, m) = D
  BY <1>4, <1>5
<1> QED
  BY <1>1, <1>3, <1>6

LEMMA PlaceOnce ==
    ASSUME NEW s, NEW key, IsList(s), Keys(key),
           NEW j \in Firsts(s, key), NEW k \in Firsts(s, key),
           Cardinality(Ahead(s, key, j)) = Cardinality(Ahead(s, key, k))
    PROVE  j = k
<1>1. ASSUME NEW a \in Firsts(s, key), NEW b \in Firsts(s, key), a \in Ahead(s, key, b),
             Cardinality(Ahead(s, key, a)) = Cardinality(Ahead(s, key, b))
      PROVE  FALSE
  <2>1. Ahead(s, key, b) \in SUBSET Firsts(s, key)
    BY DEF Ahead
  <2>2. IsFiniteSet(Ahead(s, key, b))
    BY <2>1, FirstsFinite
  <2>3. Ahead(s, key, a) \in SUBSET Ahead(s, key, b)
    BY <1>1, AheadOrders
  <2>4. Ahead(s, key, b) = Ahead(s, key, a)
    BY <2>2, <2>3, <1>1, FS_Subset
  <2> QED
    BY <2>4, <1>1, AheadOrders
<1>2. CASE j # k
  <2>1. j \in Ahead(s, key, k) \/ k \in Ahead(s, key, j)
    BY <1>2, AheadOrders
  <2> QED
    BY <2>1, <1>1
<1> QED
  BY <1>2

(* A place has fewer ahead than there are, so it is one of the list's.      *)
LEMMA PlaceInList ==
    ASSUME NEW s, NEW key, IsList(s), Keys(key), NEW k \in Firsts(s, key)
    PROVE  Cardinality(Ahead(s, key, k)) + 1 \in 1 .. Cardinality(Firsts(s, key))
<1>1. Ahead(s, key, k) \in SUBSET Firsts(s, key) /\ k \notin Ahead(s, key, k)
  BY AheadOrders DEF Ahead
<1>2. /\ Cardinality(Ahead(s, key, k)) \in Nat /\ Cardinality(Firsts(s, key)) \in Nat
      /\ Cardinality(Ahead(s, key, k)) <= Cardinality(Firsts(s, key))
      /\ Cardinality(Ahead(s, key, k)) # Cardinality(Firsts(s, key))
  BY <1>1, FirstsFinite
<1> QED
  BY <1>2

(* Listed gives the designs of s that have a key, each once.                *)
LEMMA ListedAll ==
    ASSUME NEW s, NEW key, IsList(s), Keys(key)
    PROVE  /\ IsList(Listed(s, key)) /\ Listed(s, key) = [n \in 1 .. Len(Listed(s, key)) |-> Listed(s, key)[n]]
           /\ Range(Listed(s, key)) = Range(s) \cap DOMAIN key
           /\ NoTwice(Listed(s, key))
<1> DEFINE F == Firsts(s, key)
           at(n) == CHOOSE k \in F : Cardinality(Ahead(s, key, k)) = n - 1
           L == [n \in 1 .. Cardinality(F) |-> s[at(n)]]
<1>1. Listed(s, key) = L
  BY DEF Listed, Firsts, Ahead
<1>2. Cardinality(F) \in Nat
  BY FirstsFinite
<1>3. \A n \in 1 .. Cardinality(F) : at(n) \in F /\ Cardinality(Ahead(s, key, at(n))) = n - 1
  BY PlaceAt
<1>4. Len(L) = Cardinality(F) /\ DOMAIN L = 1 .. Cardinality(F) /\ \A n \in DOMAIN L : L[n] = s[at(n)]
  BY <1>2
<1>5. \A j, k \in F : s[j] = s[k] => j = k
  <2>1. \A j, k \in F : j \in Nat /\ k \in Nat /\ (j < k => s[j] # s[k])
    BY DEF Firsts, IsList
  <2> QED
    BY <2>1
<1> HIDE DEF at, L
<1>6. NoTwice(L)
  <2>1. ASSUME NEW j \in DOMAIN L, NEW k \in DOMAIN L, L[j] = L[k]
        PROVE  j = k
    <3>1. at(j) = at(k)
      BY <2>1, <1>3, <1>4, <1>5
    <3>2. j - 1 = k - 1 /\ j \in Int /\ k \in Int
      BY <3>1, <1>2, <1>3, <1>4
    <3> QED
      BY <3>2
  <2> QED
    BY <2>1 DEF NoTwice
<1>7. Range(L) = {s[k] : k \in F}
  <2>1. \A n \in DOMAIN L : L[n] \in {s[k] : k \in F}
    BY <1>3, <1>4
  <2>2. ASSUME NEW k \in F
        PROVE  \E n \in DOMAIN L : L[n] = s[k]
    <3> DEFINE n == Cardinality(Ahead(s, key, k)) + 1
    <3>1. n \in DOMAIN L /\ Cardinality(Ahead(s, key, k)) = n - 1
      <4>1. Ahead(s, key, k) \in SUBSET F
        BY DEF Ahead
      <4>2. Cardinality(Ahead(s, key, k)) \in Nat
        BY <4>1, FirstsFinite
      <4> QED
        BY <4>2, <1>4, PlaceInList
    <3>2. at(n) = k
      BY <3>1, <1>3, <1>4, PlaceOnce
    <3> QED
      BY <3>1, <3>2, <1>4
  <2> QED
    BY <2>1, <2>2 DEF Range
<1>8. {s[k] : k \in F} = Range(s) \cap DOMAIN key
  <2>1. ASSUME NEW i \in Range(s) \cap DOMAIN key
        PROVE  \E k \in F : s[k] = i
    <3> DEFINE T == {k \in DOMAIN s : s[k] = i}
    <3>1. T \in SUBSET Nat /\ T # {}
      BY DEF IsList, Range
    <3>2. PICK k \in T : \A j \in T : k <= j
      BY <3>1, LeastOf
    <3>3. \A j \in 1 .. k - 1 : s[j] # s[k]
      <4>1. \A j \in 1 .. k - 1 : j \in DOMAIN s /\ ~(k <= j)
        BY DEF IsList
      <4> QED
        BY <4>1, <3>2
    <3> QED
      BY <3>2, <3>3 DEF Firsts
  <2>2. \A k \in F : s[k] \in Range(s) \cap DOMAIN key
    BY DEF Firsts, Range
  <2> QED
    BY <2>1, <2>2
<1>9. L = [n \in 1 .. Len(L) |-> L[n]]
  BY <1>4 DEF L
<1> QED
  BY <1>1, <1>2, <1>4, <1>6, <1>7, <1>8, <1>9 DEF IsList
-----------------------------------------------------------------------------
(* What one generation computes.                                           *)
LEMMA SeqIsList ==
    ASSUME NEW T, NEW s \in Seq(T)
    PROVE  IsList(s) /\ Range(s) \subseteq T /\ \A k \in DOMAIN s : s[k] \in T
  BY LenProperties, ElementOfSeq DEF IsList, Range

LEMMA ListIsSeq ==
    ASSUME NEW s, NEW T, IsList(s), s = [n \in 1 .. Len(s) |-> s[n]], Range(s) \subseteq T
    PROVE  s \in Seq(T)
<1>1. \A n \in 1 .. Len(s) : s[n] \in T
  BY DEF IsList, Range
<1>2. s \in [1 .. Len(s) -> T] /\ Len(s) \in Nat
  BY <1>1 DEF IsList
<1> QED
  BY <1>2

LEMMA FirstsInAll ==
    ASSUME NEW T, NEW s \in Seq(T), NEW S
    PROVE  /\ FirstsIn(s, S) \in Seq(T)
           /\ Range(FirstsIn(s, S)) = Range(s) \cap S
           /\ NoTwice(FirstsIn(s, S))
<1> DEFINE key == [i \in S |-> 0]
<1>1. IsList(s) /\ Range(s) \subseteq T
  BY SeqIsList
<1>2. Keys(key) /\ DOMAIN key = S
  BY DEF Keys
<1>3. FirstsIn(s, S) = Listed(s, key)
  BY DEF FirstsIn
<1> HIDE DEF key
<1>4. /\ IsList(FirstsIn(s, S)) /\ FirstsIn(s, S) = [n \in 1 .. Len(FirstsIn(s, S)) |-> FirstsIn(s, S)[n]]
      /\ Range(FirstsIn(s, S)) = Range(s) \cap S
      /\ NoTwice(FirstsIn(s, S))
  BY <1>1, <1>2, <1>3, ListedAll
<1>5. FirstsIn(s, S) \in Seq(T)
  BY <1>1, <1>4, ListIsSeq
<1> QED
  BY <1>4, <1>5

LEMMA RankedAll ==
    ASSUME NEW s \in Seq(Designs), NEW Q, \A i \in DOMAIN Q : Q[i].speed \in Nat
    PROVE  Ranked(s, Q) \in Seq(Designs) /\ Range(Ranked(s, Q)) = Range(s) \cap Alive(Q)
<1> DEFINE key == [i \in Range(s) \cap Alive(Q) |-> Q[i].speed]
<1>1. IsList(s) /\ Range(s) \subseteq Designs
  BY SeqIsList
<1>2. Keys(key) /\ DOMAIN key = Range(s) \cap Alive(Q)
  BY DEF Keys, Alive
<1>3. Ranked(s, Q) = Listed(s, key)
  BY DEF Ranked
<1> HIDE DEF key
<1>4. /\ IsList(Ranked(s, Q)) /\ Ranked(s, Q) = [n \in 1 .. Len(Ranked(s, Q)) |-> Ranked(s, Q)[n]]
      /\ Range(Ranked(s, Q)) = Range(s) \cap Alive(Q)
  BY <1>1, <1>2, <1>3, ListedAll
<1>5. Ranked(s, Q) \in Seq(Designs)
  BY <1>1, <1>4, ListIsSeq
<1> QED
  BY <1>4, <1>5

(* What get() leaves, and how the screen divides it.                        *)
LEMMA PendingAll ==
    ASSUME NEW s \in Seq(Designs), NEW Q
    PROVE  /\ Pending(s, Q) \in Seq(Designs)
           /\ Range(Pending(s, Q)) = Range(s) \ DOMAIN Q
           /\ NoTwice(Pending(s, Q))
  BY FirstsInAll DEF Pending

LEMMA ScreenDivides ==
    ASSUME NEW items \in Seq(Designs), NEW m, NEW Q, NEW g
    PROVE  /\ Kept(m, items, Q, g) \in Seq(Designs) /\ Screened(m, items, Q, g) \in Seq(Designs)
           /\ NoTwice(Kept(m, items, Q, g)) /\ NoTwice(Screened(m, items, Q, g))
           /\ Range(Kept(m, items, Q, g)) = Range(items) \ SetAside(m, items, Q, g)
           /\ Range(Screened(m, items, Q, g)) = SetAside(m, items, Q, g)
           /\ SetAside(m, items, Q, g) \subseteq Range(items)
<1>1. SetAside(m, items, Q, g) \subseteq Range(items)
  BY DEF SetAside
<1> QED
  BY <1>1, FirstsInAll DEF Kept, Screened

(* A child of a design is one.                                              *)
LEMMA ChildIsDesign ==
    ASSUME NEW p \in Designs, NEW S
    PROVE  Child(p, S) \in Designs
<1> DEFINE new == {t \in 1 .. Tries : (p + t) % M \notin S}
           t == IF new = {} THEN Tries ELSE Min(new)
<1>1. Tries \in Nat /\ M \in Nat \ {0}
  BY BreedingAssumption
<1>2. t \in Nat
  <2>1. CASE new # {}
    <3>1. new \in SUBSET Nat
      OBVIOUS
    <3>2. PICK x \in new : \A y \in new : x <= y
      BY <3>1, <2>1, LeastOf
    <3>3. Min(new) \in new
      BY <3>2 DEF Min
    <3> QED
      BY <3>1, <3>3, <2>1
  <2> QED
    BY <2>1, <1>1
<1>3. Child(p, S) = (p + t) % M
  BY DEF Child
<1> HIDE DEF t
<1>4. p + t \in Int
  BY <1>2 DEF Designs
<1>5. (p + t) % M \in 0 .. M - 1
  BY <1>1, <1>4
<1> QED
  BY <1>3, <1>5 DEF Designs

(* What is bred of a living population is a list of designs.                *)
LEMMA BredAll ==
    ASSUME NEW live \in Seq(Designs), live # <<>>, NEW S
    PROVE  Bred(live, S) \in Seq(Designs)
<1> DEFINE C(k, q) == Child(live[((k - 1) % Len(live)) + 1], S \cup Range(q))
           kids0 == CHOOSE f : f = [k \in 0 .. N |-> IF k = 0 THEN <<>> ELSE Append(f[k - 1], C(k, f[k - 1]))]
<1>1. N \in Nat
  BY BreedingAssumption
<1>2. \A k \in 1 .. N : \A q : C(k, q) \in Designs
  <2>1. Len(live) \in Nat \ {0}
    BY EmptySeq
  <2>2. \A k \in 1 .. N : ((k - 1) % Len(live)) + 1 \in 1 .. Len(live)
    <3> DEFINE l == Len(live)
    <3> HIDE DEF l
    <3>1. l \in Nat \ {0}
      BY <2>1 DEF l
    <3>2. \A k \in 1 .. N : (k - 1) % l \in 0 .. l - 1
      BY <3>1, <1>1
    <3>3. \A k \in 1 .. N : ((k - 1) % l) + 1 \in 1 .. l
      BY <3>1, <3>2
    <3> QED
      BY <3>3 DEF l
  <2>3. \A k \in 1 .. N : live[((k - 1) % Len(live)) + 1] \in Designs
    BY <2>2, ElementOfSeq
  <2> QED
    BY <2>3, ChildIsDesign
<1> HIDE DEF C
<1>3. <<>> \in Seq(Designs)
  BY EmptySeq
<1>4. \A k \in 1 .. N : \A q \in Seq(Designs) : Append(q, C(k, q)) \in Seq(Designs)
  BY <1>2, AppendProperties
<1> DEFINE Is(f, m) == f[0] = <<>> /\ \A k \in 1 .. m : f[k] = Append(f[k - 1], C(k, f[k - 1]))
           Can == {m \in 0 .. N : \E f \in [0 .. m -> Seq(Designs)] : Is(f, m)}
<1>5. 0 \in Can
  <2> DEFINE f == [k \in 0 .. 0 |-> <<>>]
  <2>1. f \in [0 .. 0 -> Seq(Designs)] /\ Is(f, 0)
    BY <1>3
  <2>2. 0 \in 0 .. N
    BY <1>1
  <2> HIDE DEF f, Is
  <2> QED
    BY <2>1, <2>2
<1>6. ASSUME NEW m \in 1 .. N, m - 1 \in Can
      PROVE  m \in Can
  <2>1. PICK f \in [0 .. m - 1 -> Seq(Designs)] : Is(f, m - 1)
    BY <1>6
  <2> DEFINE q == f[m - 1]
             g == [k \in 0 .. m |-> IF k = m THEN Append(q, C(m, q)) ELSE f[k]]
  <2>2. m \in Nat \ {0} /\ m \in 0 .. N
    BY <1>1
  <2>3. \A k \in 0 .. m : k # m => k \in 0 .. m - 1
    BY <2>2
  <2>4. q \in Seq(Designs)
    BY <2>2
  <2>5. g \in [0 .. m -> Seq(Designs)]
    BY <2>3, <2>4, <1>4
  <2>6. f[0] = <<>> /\ \A k \in 1 .. m - 1 : f[k] = Append(f[k - 1], C(k, f[k - 1]))
    BY <2>1
  <2>7. ASSUME NEW k \in 1 .. m, k # m
        PROVE  g[k] = Append(g[k - 1], C(k, g[k - 1]))
    <3>1. k \in 1 .. m - 1 /\ k - 1 \in 0 .. m /\ k - 1 # m /\ k \in 0 .. m
      BY <2>2, <2>7
    <3>2. g[k] = f[k] /\ g[k - 1] = f[k - 1]
      BY <3>1, <2>7
    <3> HIDE DEF g
    <3> QED
      BY <3>1, <3>2, <2>6
  <2>8. m # 0 /\ m - 1 \in 0 .. m /\ m - 1 # m /\ 0 \in 0 .. m /\ m \in 0 .. m
    BY <2>2
  <2>9. g[0] = <<>> /\ g[m - 1] = q /\ g[m] = Append(q, C(m, q))
    BY <2>6, <2>8
  <2>10. Is(g, m)
    <3> HIDE DEF g, q
    <3> QED
      BY <2>7, <2>9
  <2> HIDE DEF g, Is
  <2> QED
    BY <2>2, <2>5, <2>10
<1>7. PICK f \in [0 .. N -> Seq(Designs)] : Is(f, N)
  <2> HIDE DEF Can
  <2>1. N \in Can
    <3>1. 0 .. N \subseteq Can
      BY <1>1, <1>5, <1>6, UpTo
    <3> QED
      BY <3>1, <1>1
  <2> QED
    BY <2>1 DEF Can
<1>15. f = [k \in 0 .. N |-> IF k = 0 THEN <<>> ELSE Append(f[k - 1], C(k, f[k - 1]))]
  <2>1. \A k \in 0 .. N : k = 0 \/ k \in 1 .. N
    BY <1>1
  <2>2. \A k \in 0 .. N : f[k] = IF k = 0 THEN <<>> ELSE Append(f[k - 1], C(k, f[k - 1]))
    BY <2>1, <1>7
  <2> QED
    BY <2>2
<1>8. kids0 = [k \in 0 .. N |-> IF k = 0 THEN <<>> ELSE Append(kids0[k - 1], C(k, kids0[k - 1]))]
  BY <1>15
<1>9. Bred(live, S) = kids0[N]
  BY DEF Bred, C
<1> HIDE DEF kids0
<1>13. \A k \in 0 .. N : kids0[k] = IF k = 0 THEN <<>> ELSE Append(kids0[k - 1], C(k, kids0[k - 1]))
  BY <1>8
<1>14. 0 \in 0 .. N /\ \A k \in 1 .. N : k \in 0 .. N /\ k # 0
  BY <1>1
<1> DEFINE Good == {k \in 0 .. N : kids0[k] \in Seq(Designs)}
<1>10. 0 \in Good
  BY <1>3, <1>13, <1>14
<1>11. ASSUME NEW k \in 1 .. N, k - 1 \in Good
       PROVE  k \in Good
  <2>1. kids0[k] = Append(kids0[k - 1], C(k, kids0[k - 1]))
    BY <1>13, <1>14
  <2>2. kids0[k - 1] \in Seq(Designs)
    BY <1>11
  <2>3. C(k, kids0[k - 1]) \in Designs
    BY <1>2
  <2>4. kids0[k] \in Seq(Designs)
    BY <2>1, <2>2, <2>3, AppendProperties
  <2> QED
    BY <2>4, <1>14
<1> HIDE DEF Good
<1>12. N \in Good
  <2>1. 0 .. N \subseteq Good
    BY <1>1, <1>10, <1>11, UpTo
  <2> QED
    BY <2>1, <1>1
<1> QED
  BY <1>9, <1>12 DEF Good

(* So is what a generation asks for, and what survives it.                  *)
Recs == UNION {[D -> Record] : D \in SUBSET Designs}

LEMMA RecsAre ==
    ASSUME NEW Q \in Recs
    PROVE  /\ DOMAIN Q \subseteq Designs /\ Q \in [DOMAIN Q -> Record]
           /\ \A i \in DOMAIN Q : Q[i] \in Record /\ Q[i].speed \in Nat
           /\ Alive(Q) \subseteq DOMAIN Q
  BY DEF Recs, Record, Alive

LEMMA KidsAll ==
    ASSUME NEW g, NEW p \in Seq(Designs), NEW S, NEW Q \in Recs, ~Barren(g, p, Q), g \in Nat
    PROVE  Kids(g, p, S, Q) \in Seq(Designs)
<1>1. CASE g = 0
  <2>1. N \in Nat /\ M \in Nat /\ N <= M
    BY BreedingAssumption
  <2>2. Founders \in [1 .. N -> Designs]
    BY <2>1 DEF Founders, Designs
  <2>3. Founders \in Seq(Designs)
    BY <2>1, <2>2
  <2> QED
    BY <1>1, <2>3 DEF Kids
<1>2. CASE g # 0
  <2>1. Ranked(p, Q) \in Seq(Designs)
    BY RankedAll, RecsAre
  <2>2. Ranked(p, Q) # <<>>
    BY <1>2 DEF Barren
  <2> QED
    BY <2>1, <2>2, <1>2, BredAll DEF Kids
<1> QED
  BY <1>1, <1>2

LEMMA SurvivorsAll ==
    ASSUME NEW g, NEW p \in Seq(Designs), NEW k \in Seq(Designs), NEW Q \in Recs
    PROVE  /\ Survivors(g, p, k, Q) \in Seq(Designs)
           /\ Range(Survivors(g, p, k, Q)) \subseteq IF g = 0 THEN Range(k) ELSE DOMAIN Q
<1>1. CASE g = 0
  BY <1>1 DEF Survivors
<1>2. CASE g # 0
  <2> DEFINE best == Ranked(p \o k, Q)
             n == IF Len(best) < N THEN Len(best) ELSE N
  <2>1. p \o k \in Seq(Designs)
    BY ConcatProperties
  <2>2. best \in Seq(Designs) /\ Range(best) \subseteq Alive(Q)
    BY <2>1, RankedAll, RecsAre
  <2>3. Survivors(g, p, k, Q) = SubSeq(best, 1, n)
    BY <1>2 DEF Survivors
  <2> HIDE DEF best
  <2>4. Len(best) \in Nat /\ N \in Nat
    BY <2>2, BreedingAssumption
  <2>5. n \in 0 .. Len(best)
    BY <2>4
  <2> HIDE DEF n
  <2>6. \A i \in 1 .. n : best[i] \in Range(best) /\ best[i] \in Designs
    <3>1. \A i \in 1 .. n : i \in 1 .. Len(best)
      BY <2>4, <2>5
    <3>2. DOMAIN best = 1 .. Len(best)
      BY <2>2
    <3> QED
      BY <3>1, <3>2, <2>2 DEF Range
  <2>7. /\ SubSeq(best, 1, n) \in Seq(Designs) /\ SubSeq(best, 1, n) \in Seq(Range(best))
    BY <2>4, <2>5, <2>6, SubSeqProperties
  <2>8. Range(SubSeq(best, 1, n)) \subseteq Range(best)
    BY <2>7, SeqIsList
  <2> QED
    BY <2>2, <2>3, <2>7, <2>8, <1>2, RecsAre
<1> QED
  BY <1>1, <1>2
-----------------------------------------------------------------------------
(* The types.                                                              *)
Line == Designs \X Record

Typed ==
    /\ db \in Seq({Bad} \cup Line) /\ ended \in BOOLEAN /\ (~ended => db # <<>>)
    /\ pc \in {"down", "ask", "record", "done", "failed"}
    /\ gen \in 0 .. G + 1 /\ (pc \in {"ask", "record"} => gen <= G)
    /\ pop \in Seq(Designs) /\ R \in Recs
    /\ kids \in Seq(Designs) /\ pending \in Seq(Designs) /\ todo \in Seq(Line)
    /\ crashes \in 0 .. MaxCrashes
    /\ saved \subseteq Designs /\ asked \in Seq(Seq(Designs))
    /\ pc = "down" => /\ gen = 0 /\ pop = <<>> /\ R = <<>>
                      /\ kids = <<>> /\ pending = <<>> /\ todo = <<>>

LEMMA NoRecs == <<>> \in Recs /\ DOMAIN <<>> = {}
<1>1. <<>> = [i \in {} |-> Bad]
  OBVIOUS
<1>2. <<>> \in [{} -> Record]
  BY <1>1
<1>3. {} \in SUBSET Designs
  OBVIOUS
<1>4. DOMAIN [i \in {} |-> Bad] = {}
  OBVIOUS
<1> QED
  BY <1>1, <1>2, <1>3, <1>4 DEF Recs

LEMMA LinesAreGood == \A l \in Line : l # Bad /\ l[1] \in Designs /\ l[2] \in Record
  BY DEF Line, Bad

LEMMA GreatestOf ==
    ASSUME NEW n \in Nat, NEW T \in SUBSET (1 .. n), T # {}
    PROVE  Max(T) \in T /\ \A y \in T : y <= Max(T)
<1> DEFINE D == {n - x : x \in T}
<1>0. \A x \in T : x \in Int /\ n - x \in Nat
  OBVIOUS
<1>1. D \in SUBSET Nat /\ D # {}
  BY <1>0
<1>2. PICK d \in D : \A e \in D : d <= e
  BY <1>1, LeastOf
<1>3. PICK x \in T : d = n - x
  OBVIOUS
<1>4. ASSUME NEW y \in T PROVE x >= y
  <2>1. n - x <= n - y
    BY <1>2, <1>3
  <2> QED
    BY <2>1, <1>0
<1>5. Max(T) \in T /\ \A y \in T : Max(T) >= y
  BY <1>3, <1>4 DEF Max
<1> QED
  BY <1>5

(* load(): the designs with a readable line, each with its last one.        *)
Good    == {k \in DOMAIN db : db[k] # Bad}
GoodIds == {db[k][1] : k \in Good}

LEMMA LoadAll ==
    ASSUME db \in Seq({Bad} \cup Line)
    PROVE  /\ Load \in Recs /\ DOMAIN Load = GoodIds
           /\ \A i \in GoodIds : \E k \in Good : /\ db[k][1] = i /\ Load[i] = db[k][2]
                                                 /\ \A j \in Good : db[j][1] = i => j <= k
<1> DEFINE last(i) == Max({k \in Good : db[k][1] = i})
<1>1. Load = [i \in GoodIds |-> db[last(i)][2]]
  BY DEF Load, Good, GoodIds
<1>2. Len(db) \in Nat /\ DOMAIN db = 1 .. Len(db)
  BY LenProperties
<1>3. \A k \in Good : db[k] \in Line
  BY <1>2, ElementOfSeq DEF Good
<1>4. ASSUME NEW i \in GoodIds
      PROVE  /\ last(i) \in Good /\ db[last(i)][1] = i
             /\ \A j \in Good : db[j][1] = i => j <= last(i)
  <2> DEFINE T == {k \in Good : db[k][1] = i}
  <2>1. T \in SUBSET (1 .. Len(db)) /\ T # {}
    BY <1>2 DEF Good, GoodIds
  <2>2. Max(T) \in T /\ \A y \in T : y <= Max(T)
    BY <1>2, <2>1, GreatestOf
  <2> QED
    BY <2>2
<1> HIDE DEF last
<1>5. GoodIds \in SUBSET Designs
  BY <1>3, LinesAreGood DEF GoodIds
<1>6. Load \in [GoodIds -> Record]
  BY <1>1, <1>3, <1>4, LinesAreGood
<1>7. Load \in Recs
  BY <1>5, <1>6 DEF Recs
<1> QED
  BY <1>1, <1>4, <1>7

LEMMA AppendedLine ==
    ASSUME Typed, NEW l \in {Bad} \cup Line
    PROVE  Appended(l) \in Seq({Bad} \cup Line) /\ Appended(l) # <<>>
<1> DEFINE T == {Bad} \cup Line
<1>1. db \in Seq(T) /\ Bad \in T /\ l \in T /\ (~ended => db # <<>>)
  BY DEF Typed
<1> HIDE DEF T
<1>2. Front(db) \in Seq(T)
  <2>1. Len(db) \in Nat /\ \A i \in 1 .. Len(db) - 1 : db[i] \in T
    BY <1>1, ElementOfSeq
  <2> QED
    BY <2>1, SubSeqProperties DEF Front
<1>3. \A q \in Seq(T), e \in T : Append(q, e) \in Seq(T) /\ Append(q, e) # <<>>
  BY AppendProperties
<1> QED
  BY <1>1, <1>2, <1>3 DEF Appended, T

LEMMA RecordsAre ==
    ASSUME NEW g \in Nat, NEW x \in Readings \cup {Dead}
    PROVE  /\ ScreenedRecord(g) \in Record /\ \A Q : Measured(x, g, Q) \in Record
           /\ \A r \in Record : GateAgain(r, x) \in Record /\ GateAgain(r, x).gated = 2
<1>1. x \in Nat
  BY BreedingAssumption DEF Dead
<1>2. ScreenedRecord(g) \in Record
  BY DEF ScreenedRecord, Record
<1>3. ASSUME NEW Q PROVE Measured(x, g, Q) \in Record
  BY <1>1 DEF Measured, Record
<1>4. ASSUME NEW r \in Record
      PROVE  GateAgain(r, x) \in Record /\ GateAgain(r, x).gated = 2
  <2>1. r.speed \in Nat
    BY DEF Record
  <2>2. (r.speed \div 2) + x \in Nat
    <3>1. r.speed \div 2 \in Nat
      BY <2>1
    <3> QED
      BY <3>1, <1>1
  <2> DEFINE v == (r.speed \div 2) + x
  <2> HIDE DEF v
  <2>3. GateAgain(r, x) = IF x = Dead THEN [r EXCEPT !.status = "died", !.gated = 2]
                          ELSE [r EXCEPT !.speed = v, !.gated = 2]
    BY DEF GateAgain, v
  <2>4. v \in Nat
    BY <2>2 DEF v
  <2>5. \A q \in Record : [q EXCEPT !.gated = 2] \in Record /\ [q EXCEPT !.gated = 2].gated = 2
    BY DEF Record
  <2>6. [r EXCEPT !.status = "died"] \in Record
    BY DEF Record
  <2>7. [r EXCEPT !.speed = v] \in Record
    BY <2>4 DEF Record
  <2>8. [r EXCEPT !.status = "died", !.gated = 2] = [[r EXCEPT !.status = "died"] EXCEPT !.gated = 2]
    BY DEF Record
  <2>9. [r EXCEPT !.speed = v, !.gated = 2] = [[r EXCEPT !.speed = v] EXCEPT !.gated = 2]
    BY <2>4 DEF Record
  <2> QED
    BY <2>3, <2>5, <2>6, <2>7, <2>8, <2>9
<1> QED
  BY <1>2, <1>3, <1>4

(* The records of a batch, in the order they are saved.                     *)
LEMMA Batch ==
    ASSUME Typed, Measure
    PROVE  /\ todo' \in Seq(Line)
           /\ \A k \in DOMAIN todo' :
                 \/ /\ todo'[k][1] \in Range(pending)
                    /\ \E x \in Readings \cup {Dead} : todo'[k][2] = Measured(x, gen, R)
                 \/ /\ todo'[k][1] \in Again(pending, R)
                    /\ todo'[k][2].gated = 2
           /\ \A i \in Range(pending) : \E k \in DOMAIN todo' : todo'[k][1] = i
           /\ Range(pending) \cap DOMAIN R = {} /\ NoTwice(pending) =>
                 \A j, k \in DOMAIN todo' : todo'[j][1] = todo'[k][1] => j = k
<1> DEFINE again == FirstsIn(ByNumber, Again(pending, R))
<1>1. /\ R \in Recs /\ pending \in Seq(Designs) /\ gen \in Nat
  BY DEF Typed
<1>2. /\ again \in Seq(Designs) /\ Range(again) \subseteq Again(pending, R) /\ NoTwice(again)
  <2>1. ByNumber \in Seq(Designs)
    <3>1. M \in Nat
      BY BreedingAssumption
    <3>2. ByNumber \in [1 .. M -> Designs]
      BY <3>1 DEF ByNumber, Designs
    <3> QED
      BY <3>1, <3>2
  <2> QED
    BY <2>1, FirstsInAll
<1>3. Again(pending, R) \subseteq DOMAIN R
  BY <1>1, RecsAre DEF Again
<1> HIDE DEF again
<1>4. PICK reread \in [Range(again) -> Readings \cup {Dead}],
           read \in [Range(pending) -> Readings \cup {Dead}] :
             todo' = [k \in DOMAIN again |-> <<again[k], GateAgain(R[again[k]], reread[again[k]])>>]
                     \o [k \in DOMAIN pending |-> <<pending[k], Measured(read[pending[k]], gen, R)>>]
  BY DEF Measure, again
<1> DEFINE a == [k \in DOMAIN again |-> <<again[k], GateAgain(R[again[k]], reread[again[k]])>>]
           b == [k \in DOMAIN pending |-> <<pending[k], Measured(read[pending[k]], gen, R)>>]
<1>5. /\ DOMAIN again = 1 .. Len(again) /\ Len(again) \in Nat
      /\ DOMAIN pending = 1 .. Len(pending) /\ Len(pending) \in Nat
      /\ \A k \in DOMAIN again : again[k] \in Designs /\ again[k] \in Range(again)
      /\ \A k \in DOMAIN pending : pending[k] \in Designs /\ pending[k] \in Range(pending)
  BY <1>1, <1>2, ElementOfSeq DEF Range
<1>6. \A k \in DOMAIN again : /\ GateAgain(R[again[k]], reread[again[k]]) \in Record
                              /\ GateAgain(R[again[k]], reread[again[k]]).gated = 2
  <2> TAKE k \in DOMAIN again
  <2>1. R[again[k]] \in Record
    BY <1>1, <1>2, <1>3, <1>5, RecsAre
  <2>2. reread[again[k]] \in Readings \cup {Dead}
    BY <1>5
  <2> QED
    BY <1>1, <2>1, <2>2, RecordsAre
<1>7. \A k \in DOMAIN pending : Measured(read[pending[k]], gen, R) \in Record
  <2> TAKE k \in DOMAIN pending
  <2>1. read[pending[k]] \in Readings \cup {Dead}
    BY <1>5
  <2> QED
    BY <1>1, <2>1, RecordsAre
<1>8. a \in Seq(Line) /\ Len(a) = Len(again)
  BY <1>5, <1>6 DEF Line
<1>9. b \in Seq(Line) /\ Len(b) = Len(pending)
  BY <1>5, <1>7 DEF Line
<1>10. /\ \A k \in 1 .. Len(again) : a[k][1] = again[k] /\ a[k][2].gated = 2
       /\ \A k \in 1 .. Len(pending) : /\ b[k][1] = pending[k]
                                       /\ \E x \in Readings \cup {Dead} : b[k][2] = Measured(x, gen, R)
  <2>1. \A k \in 1 .. Len(again) : a[k][1] = again[k] /\ a[k][2].gated = 2
    BY <1>5, <1>6
  <2>2. \A k \in 1 .. Len(pending) : b[k][1] = pending[k] /\ b[k][2] = Measured(read[pending[k]], gen, R)
    BY <1>5
  <2>3. \A k \in 1 .. Len(pending) : read[pending[k]] \in Readings \cup {Dead}
    BY <1>5
  <2> QED
    BY <2>1, <2>2, <2>3
<1> HIDE DEF a, b
<1>11. /\ todo' \in Seq(Line) /\ Len(todo') = Len(again) + Len(pending)
       /\ \A k \in 1 .. Len(again) : todo'[k] = a[k]
       /\ \A k \in 1 .. Len(pending) : todo'[Len(again) + k] = b[k]
       /\ DOMAIN todo' = 1 .. Len(again) + Len(pending)
  <2>1. todo' = a \o b
    BY <1>4 DEF a, b
  <2> DEFINE l == Len(again)
             m == Len(pending)
  <2>2. l \in Nat /\ m \in Nat /\ Len(a) = l /\ Len(b) = m
    BY <1>5, <1>8, <1>9
  <2> HIDE DEF l, m
  <2>7. /\ a \o b \in Seq(Line) /\ Len(a \o b) = Len(a) + Len(b)
        /\ \A k \in 1 .. Len(a) + Len(b) : (a \o b)[k] = IF k <= Len(a) THEN a[k] ELSE b[k - Len(a)]
    BY <1>8, <1>9, ConcatProperties
  <2>3. /\ a \o b \in Seq(Line) /\ Len(a \o b) = l + m
        /\ \A k \in 1 .. l + m : (a \o b)[k] = IF k <= l THEN a[k] ELSE b[k - l]
    BY <2>2, <2>7
  <2>4. /\ \A k \in 1 .. l : k \in 1 .. l + m /\ k <= l
        /\ \A k \in 1 .. m : l + k \in 1 .. l + m /\ ~(l + k <= l) /\ (l + k) - l = k
    BY <2>2
  <2>5. /\ \A k \in 1 .. l : (a \o b)[k] = a[k]
        /\ \A k \in 1 .. m : (a \o b)[l + k] = b[k]
    BY <2>3, <2>4
  <2>6. DOMAIN (a \o b) = 1 .. l + m
    BY <2>3, LenProperties
  <2> QED
    BY <2>1, <2>3, <2>5, <2>6 DEF l, m
<1>12. \A k \in DOMAIN todo' : k \in 1 .. Len(again) \/ \E i \in 1 .. Len(pending) : k = Len(again) + i
  <2> TAKE k \in DOMAIN todo'
  <2>1. k > Len(again) => k - Len(again) \in 1 .. Len(pending) /\ k = Len(again) + (k - Len(again))
    BY <1>5, <1>11
  <2> QED
    BY <2>1, <1>5, <1>11
<1>13. ASSUME NEW k \in DOMAIN todo'
       PROVE  \/ \E i \in 1 .. Len(pending) : k = Len(again) + i /\ todo'[k][1] = pending[i]
              \/ (k \in 1 .. Len(again) /\ todo'[k][1] = again[k] /\ todo'[k][2].gated = 2)
  <2>1. CASE k \in 1 .. Len(again)
    BY <2>1, <1>10, <1>11
  <2>2. ASSUME NEW i \in 1 .. Len(pending), k = Len(again) + i
        PROVE  todo'[k][1] = pending[i]
    BY <2>2, <1>10, <1>11
  <2> QED
    BY <2>1, <2>2, <1>12
<1>14. ASSUME Range(pending) \cap DOMAIN R = {}, NoTwice(pending),
              NEW j \in DOMAIN todo', NEW k \in DOMAIN todo', todo'[j][1] = todo'[k][1]
       PROVE  j = k
  <2>1. \A x \in 1 .. Len(again), y \in 1 .. Len(pending) : again[x] # pending[y]
    BY <1>2, <1>3, <1>5, <1>14
  <2>2. \A x, y \in 1 .. Len(again) : again[x] = again[y] => x = y
    BY <1>2, <1>5 DEF NoTwice
  <2>3. \A x, y \in 1 .. Len(pending) : pending[x] = pending[y] => x = y
    BY <1>5, <1>14 DEF NoTwice
  <2>4. CASE j \in 1 .. Len(again) /\ todo'[j][1] = again[j]
    <3>1. CASE k \in 1 .. Len(again) /\ todo'[k][1] = again[k]
      BY ONLY <2>2, <2>4, <3>1, <1>14
    <3>2. ASSUME NEW h \in 1 .. Len(pending), k = Len(again) + h, todo'[k][1] = pending[h]
          PROVE  j = k
      BY ONLY <2>1, <2>4, <3>2, <1>14
    <3>3. \/ \E h \in 1 .. Len(pending) : k = Len(again) + h /\ todo'[k][1] = pending[h]
          \/ k \in 1 .. Len(again) /\ todo'[k][1] = again[k]
      BY ONLY <1>13, <1>14
    <3> QED
      BY ONLY <3>1, <3>2, <3>3
  <2>5. ASSUME NEW i \in 1 .. Len(pending), j = Len(again) + i, todo'[j][1] = pending[i]
        PROVE  j = k
    <3>1. CASE k \in 1 .. Len(again) /\ todo'[k][1] = again[k]
      BY ONLY <2>1, <2>5, <3>1, <1>14
    <3>2. ASSUME NEW h \in 1 .. Len(pending), k = Len(again) + h, todo'[k][1] = pending[h]
          PROVE  j = k
      <4>1. i = h
        BY ONLY <2>3, <2>5, <3>2, <1>14
      <4> QED
        BY ONLY <4>1, <2>5, <3>2
    <3>3. \/ \E h \in 1 .. Len(pending) : k = Len(again) + h /\ todo'[k][1] = pending[h]
          \/ k \in 1 .. Len(again) /\ todo'[k][1] = again[k]
      BY ONLY <1>13, <1>14
    <3> QED
      BY ONLY <3>1, <3>2, <3>3
  <2> QED
    BY <2>4, <2>5, <1>13
<1>15. \A k \in DOMAIN todo' :
          \/ /\ todo'[k][1] \in Range(pending)
             /\ \E x \in Readings \cup {Dead} : todo'[k][2] = Measured(x, gen, R)
          \/ /\ todo'[k][1] \in Again(pending, R)
             /\ todo'[k][2].gated = 2
  <2>1. ASSUME NEW k \in DOMAIN todo', NEW i \in 1 .. Len(pending), k = Len(again) + i
        PROVE  /\ todo'[k][1] \in Range(pending)
               /\ \E x \in Readings \cup {Dead} : todo'[k][2] = Measured(x, gen, R)
    BY <1>5, <1>10, <1>11, <2>1, SMTT(30)
  <2>2. ASSUME NEW k \in 1 .. Len(again)
        PROVE  todo'[k][1] \in Again(pending, R) /\ todo'[k][2].gated = 2
    BY <1>2, <1>5, <1>10, <1>11
  <2> QED
    BY <2>1, <2>2, <1>12
<1>16. \A i \in Range(pending) : \E k \in DOMAIN todo' : todo'[k][1] = i
  <2>1. ASSUME NEW i \in Range(pending) PROVE \E k \in DOMAIN todo' : todo'[k][1] = i
    <3>1. PICK j \in 1 .. Len(pending) : pending[j] = i
      BY <1>5 DEF Range
    <3>2. Len(again) + j \in DOMAIN todo'
      BY <1>5, <1>11
    <3>3. todo'[Len(again) + j][1] = i
      BY <3>1, <1>10, <1>11
    <3> QED
      BY <3>2, <3>3
  <2> QED
    BY <2>1
<1> QED
  BY <1>11, <1>14, <1>15, <1>16

LEMMA AskDoes ==
    ASSUME Typed, Ask
    PROVE  /\ kids' = Kids(gen, pop, seen, R) /\ kids' \in Seq(Designs)
           /\ asked' = IF gen < Len(asked) THEN asked ELSE Append(asked, kids')
           /\ seen' = seen \cup Range(kids')
           /\ scr' = Refitted(scr, Pending(kids', R), R, gen)
           /\ pending' = Kept(scr', Pending(kids', R), R, gen)
           /\ pending' \in Seq(Designs) /\ NoTwice(pending')
           /\ todo' \in Seq(Line)
           /\ \A k \in DOMAIN todo' : /\ todo'[k][1] \notin Range(pending')
                                      /\ todo'[k][2] = ScreenedRecord(gen)
           /\ \A j, k \in DOMAIN todo' : todo'[j][1] = todo'[k][1] => j = k
           /\ {todo'[k][1] : k \in DOMAIN todo'} \cup Range(pending') = Range(kids') \ DOMAIN R
           /\ {todo'[k][1] : k \in DOMAIN todo'} = SetAside(scr', Pending(kids', R), R, gen)
<1> DEFINE new == Pending(kids', R)
           out == Screened(scr', new, R, gen)
<1>1. /\ kids' = Kids(gen, pop, seen, R)
      /\ seen' = seen \cup Range(kids')
      /\ scr' = Refitted(scr, new, R, gen)
      /\ pending' = Kept(scr', new, R, gen)
      /\ todo' = [k \in DOMAIN out |-> <<out[k], ScreenedRecord(gen)>>]
      /\ asked' = IF gen < Len(asked) THEN asked ELSE Append(asked, kids')
  BY DEF Ask
<1>2. pop \in Seq(Designs) /\ R \in Recs /\ gen \in Nat /\ ~Barren(gen, pop, R)
  BY DEF Typed, Ask
<1>3. kids' \in Seq(Designs)
  BY <1>1, <1>2, KidsAll
<1>4. new \in Seq(Designs) /\ Range(new) = Range(kids') \ DOMAIN R
  BY <1>3, PendingAll
<1> HIDE DEF new
<1>5. /\ pending' \in Seq(Designs) /\ out \in Seq(Designs)
      /\ NoTwice(pending') /\ NoTwice(out)
      /\ Range(pending') = Range(new) \ SetAside(scr', new, R, gen)
      /\ Range(out) = SetAside(scr', new, R, gen)
      /\ SetAside(scr', new, R, gen) \subseteq Range(new)
  BY <1>1, <1>4, ScreenDivides
<1>6. ScreenedRecord(gen) \in Record
  BY <1>2 DEF ScreenedRecord, Record
<1> HIDE DEF out
<1>7. /\ DOMAIN out = 1 .. Len(out) /\ Len(out) \in Nat
      /\ \A k \in DOMAIN out : out[k] \in Designs /\ out[k] \in Range(out)
  BY <1>5, ElementOfSeq DEF Range
<1>8. todo' \in Seq(Line) /\ DOMAIN todo' = DOMAIN out
  BY <1>1, <1>6, <1>7 DEF Line
<1>9. \A k \in DOMAIN todo' : todo'[k][1] = out[k] /\ todo'[k][2] = ScreenedRecord(gen)
  BY <1>1, <1>8
<1>10. \A k \in DOMAIN todo' : todo'[k][1] \notin Range(pending')
  BY <1>5, <1>7, <1>8, <1>9
<1>11. \A j, k \in DOMAIN todo' : todo'[j][1] = todo'[k][1] => j = k
  BY <1>5, <1>8, <1>9 DEF NoTwice
<1>12. {todo'[k][1] : k \in DOMAIN todo'} = Range(out)
  BY <1>8, <1>9 DEF Range
<1>13. {todo'[k][1] : k \in DOMAIN todo'} \cup Range(pending') = Range(kids') \ DOMAIN R
  BY <1>4, <1>5, <1>12
<1> QED
  BY <1>1, <1>3, <1>5, <1>8, <1>9, <1>10, <1>11, <1>12, <1>13 DEF new

LEMMA SavedRecs ==
    ASSUME Typed, SaveOne
    PROVE  /\ R' \in Recs /\ DOMAIN R' = DOMAIN R \cup {todo[1][1]}
           /\ R'[todo[1][1]] = todo[1][2]
           /\ \A j \in DOMAIN R : j # todo[1][1] => R'[j] = R[j]
           /\ todo[1] \in Line /\ db' = Appended(todo[1]) /\ saved' = saved \cup {todo[1][1]}
           /\ todo' \in Seq(Line) /\ DOMAIN todo' = 1 .. Len(todo) - 1 /\ Len(todo) \in Nat \ {0}
           /\ \A k \in DOMAIN todo' : k + 1 \in DOMAIN todo /\ k + 1 # 1 /\ todo'[k] = todo[k + 1]
           /\ 1 \in DOMAIN todo
<1>1. todo \in Seq(Line) /\ todo # <<>> /\ R \in Recs
  BY DEF Typed, SaveOne
<1>2. Len(todo) \in Nat \ {0} /\ DOMAIN todo = 1 .. Len(todo)
  BY <1>1, EmptySeq, LenProperties
<1>3. /\ Tail(todo) \in Seq(Line) /\ Len(Tail(todo)) = Len(todo) - 1
      /\ \A i \in 1 .. Len(Tail(todo)) : Tail(todo)[i] = todo[i + 1]
      /\ Head(todo) \in Line /\ Head(todo) = todo[1]
  BY <1>1, HeadTailProperties
<1>4. /\ R' = [j \in DOMAIN R \cup {todo[1][1]} |-> IF j = todo[1][1] THEN todo[1][2] ELSE R[j]]
      /\ saved' = saved \cup {todo[1][1]} /\ db' = Appended(todo[1]) /\ todo' = Tail(todo)
  BY <1>3 DEF SaveOne
<1>5. todo[1][1] \in Designs /\ todo[1][2] \in Record
  BY <1>3, LinesAreGood
<1>6. DOMAIN R \cup {todo[1][1]} \in SUBSET Designs /\ \A j \in DOMAIN R : R[j] \in Record
  BY <1>1, <1>5, RecsAre
<1>7. R' \in [DOMAIN R \cup {todo[1][1]} -> Record]
  BY <1>4, <1>5, <1>6
<1>8. R' \in Recs
  BY <1>6, <1>7 DEF Recs
<1>9. DOMAIN Tail(todo) = 1 .. Len(todo) - 1
  BY <1>3, LenProperties
<1>10. \A k \in 1 .. Len(todo) - 1 : k + 1 \in DOMAIN todo /\ k + 1 # 1
  BY <1>2
<1> QED
  BY <1>2, <1>3, <1>4, <1>8, <1>9, <1>10

LEMMA TypedStep ==
    ASSUME Typed, [Next]_vars
    PROVE  Typed'
<1> USE EvolveAssumption
<1>d. <<>> \in Seq(Designs) /\ <<>> \in Seq(Line)
  BY EmptySeq
<1>e. <<>> \in Recs
  BY NoRecs
<1>1. CASE Start
  <2>1. Load \in Recs
    BY LoadAll DEF Typed
  <2> QED
    BY <1>1, <1>d, <2>1 DEF Typed, Start, Idle, disk, history
<1>2. CASE Ask
  <2>1. asked' \in Seq(Seq(Designs))
    <3> DEFINE S == Seq(Designs)
    <3>1. kids' \in S /\ asked \in Seq(S) /\ asked' = IF gen < Len(asked) THEN asked ELSE Append(asked, kids')
      BY <1>2, AskDoes DEF Typed
    <3> HIDE DEF S
    <3>2. asked' \in Seq(S)
      BY <3>1, AppendProperties
    <3> QED
      BY <3>2 DEF S
  <2>2. kids' \in Seq(Designs) /\ pending' \in Seq(Designs) /\ todo' \in Seq(Line)
    BY <1>2, AskDoes
  <2> QED
    BY <1>2, <2>1, <2>2 DEF Typed, Ask, disk
<1>3. CASE GiveUp
  BY <1>3 DEF Typed, GiveUp, disk, history
<1>4. CASE SaveOne
  <2>1. todo[1] \in Line /\ todo[1][1] \in Designs
    BY <1>4, SavedRecs, LinesAreGood
  <2>2. Appended(todo[1]) \in Seq({Bad} \cup Line) /\ db' = Appended(todo[1])
    BY <1>4, <2>1, SavedRecs, AppendedLine
  <2>3. R' \in Recs /\ todo' \in Seq(Line) /\ saved' = saved \cup {todo[1][1]}
    BY <1>4, SavedRecs
  <2> QED
    BY <1>4, <2>1, <2>2, <2>3 DEF Typed, SaveOne
<1>5. CASE Measure
  <2>1. todo' \in Seq(Line)
    BY <1>5, Batch
  <2> QED
    BY <1>5, <1>d, <2>1 DEF Typed, Measure, disk, history
<1>6. CASE Select
  <2>1. pop' \in Seq(Designs)
    BY <1>6, SurvivorsAll DEF Typed, Select
  <2>2. gen \in 0 .. G /\ gen' = gen + 1 /\ pc' = (IF gen = G THEN "done" ELSE "ask") /\ G \in Nat
    BY <1>6 DEF Typed, Select
  <2>3. gen' \in 0 .. G + 1 /\ (pc' \in {"ask", "record"} => gen' <= G) /\ pc' \in {"ask", "done"}
    BY <2>2
  <2> QED
    BY <1>6, <1>d, <2>1, <2>3 DEF Typed, Select, disk
<1>7. CASE Crash
  BY <1>7, <1>d, <1>e DEF Typed, Crash, Idle, disk, history
<1>8. CASE CrashWriting
  <2>1. todo \in Seq(Line) /\ todo # <<>>
    BY <1>8 DEF Typed, CrashWriting
  <2>2. Head(todo) \in Line
    BY <2>1, HeadTailProperties
  <2>3. PICK l \in {Bad} \cup Line : db' = Appended(l)
    BY <1>8, <2>2 DEF CrashWriting
  <2>4. db' \in Seq({Bad} \cup Line) /\ db' # <<>>
    BY <2>3, AppendedLine
  <2>5. crashes' \in 0 .. MaxCrashes
    BY <1>8 DEF CrashWriting, Typed
  <2>6. /\ pc' = "down" /\ R' = <<>> /\ gen' = 0 /\ pop' = <<>> /\ kids' = <<>> /\ pending' = <<>> /\ todo' = <<>>
        /\ ended' = FALSE /\ saved' = saved /\ asked' = asked
    BY <1>8 DEF CrashWriting, Idle, history
  <2>7. saved \subseteq Designs /\ asked \in Seq(Seq(Designs)) /\ 0 \in 0 .. G + 1
    BY DEF Typed
  <2>8. ended' \in BOOLEAN /\ pc' = "down" /\ gen' \in 0 .. G + 1 /\ gen' = 0
    BY <2>6, <2>7
  <2> QED
    BY ONLY <1>d, <1>e, <2>4, <2>5, <2>6, <2>7, <2>8 DEF Typed
<1>9. CASE UNCHANGED vars
  BY <1>9 DEF Typed, vars, disk, process, history
<1>10. CASE Over
  BY <1>9, <1>10 DEF Over
<1> QED
  BY <1>1, <1>2, <1>3, <1>4, <1>5, <1>6, <1>7, <1>8, <1>9, <1>10 DEF Next

LEMMA TypedInit == Init => Typed
<1> SUFFICES ASSUME Init PROVE Typed
  OBVIOUS
<1>1. /\ <<>> \in Seq(Designs) /\ <<>> \in Seq(Line) /\ <<>> \in Seq({Bad} \cup Line)
      /\ <<>> \in Seq(Seq(Designs)) /\ <<>> \in Recs
  BY EmptySeq, NoRecs
<1> QED
  BY <1>1, EvolveAssumption DEF Init, Typed
-----------------------------------------------------------------------------
(* What is pending has no record, what is to be recorded is not pending, is *)
(* recorded once, and is new or the second reading of a gated design.      *)
Fresh ==
    /\ Range(pending) \cap DOMAIN R = {} /\ NoTwice(pending)
    /\ \A k \in DOMAIN todo : todo[k][1] \notin Range(pending)
    /\ \A j, k \in DOMAIN todo : todo[j][1] = todo[k][1] => j = k
    /\ \A k \in DOMAIN todo : \/ todo[k][1] \notin DOMAIN R
                              \/ R[todo[k][1]].gated = 1 /\ todo[k][2].gated = 2

LEMMA Nothing == DOMAIN <<>> = {} /\ Range(<<>>) = {} /\ NoTwice(<<>>)
<1>1. DOMAIN <<>> = {}
  BY NoRecs
<1> QED
  BY <1>1 DEF Range, NoTwice

LEMMA FreshEmpty ==
    ASSUME pending = <<>>, todo = <<>>
    PROVE  Fresh
  BY Nothing DEF Fresh

LEMMA FreshEmptied ==
    ASSUME pending' = <<>>, todo' = <<>>
    PROVE  Fresh'
  BY Nothing DEF Fresh

LEMMA FreshStep ==
    ASSUME Typed, Fresh, [Next]_vars
    PROVE  Fresh'
<1>1. CASE Start
  BY <1>1, FreshEmptied DEF Start, Idle
<1>2. CASE Ask
  <2>1. R' = R
    BY <1>2 DEF Ask
  <2>2. Range(pending') \subseteq Range(kids') \ DOMAIN R
    BY <1>2, AskDoes
  <2>3. \A k \in DOMAIN todo' : todo'[k][1] \notin DOMAIN R
    BY <1>2, AskDoes
  <2>4. NoTwice(pending')
    BY <1>2, AskDoes
  <2>5. /\ \A k \in DOMAIN todo' : todo'[k][1] \notin Range(pending')
        /\ \A j, k \in DOMAIN todo' : todo'[j][1] = todo'[k][1] => j = k
    BY <1>2, AskDoes
  <2>6. Range(pending') \cap DOMAIN R' = {} /\ \A k \in DOMAIN todo' : todo'[k][1] \notin DOMAIN R'
    BY <2>1, <2>2, <2>3
  <2> QED
    BY <2>4, <2>5, <2>6 DEF Fresh, NoTwice
<1>3. CASE GiveUp
  BY <1>3 DEF Fresh, GiveUp, NoTwice
<1>4. CASE SaveOne
  <2>1. pending' = pending
    BY <1>4 DEF SaveOne
  <2>2. /\ DOMAIN R' = DOMAIN R \cup {todo[1][1]} /\ 1 \in DOMAIN todo
        /\ \A j \in DOMAIN R : j # todo[1][1] => R'[j] = R[j]
        /\ \A k \in DOMAIN todo' : k + 1 \in DOMAIN todo /\ k + 1 # 1 /\ todo'[k] = todo[k + 1]
        /\ todo' \in Seq(Line)
    BY <1>4, SavedRecs
  <2>3. Range(pending) \cap DOMAIN R' = {} /\ NoTwice(pending)
    BY <2>2 DEF Fresh
  <2>4. \A k \in DOMAIN todo' : todo'[k][1] \notin Range(pending)
    BY <2>2 DEF Fresh
  <2>5. \A k \in DOMAIN todo' : todo'[k][1] # todo[1][1]
    BY <2>2 DEF Fresh
  <2>6. \A k \in DOMAIN todo' : \/ todo'[k][1] \notin DOMAIN R'
                                \/ R'[todo'[k][1]].gated = 1 /\ todo'[k][2].gated = 2
    BY <2>2, <2>5 DEF Fresh
  <2>7. ASSUME NEW j \in DOMAIN todo', NEW k \in DOMAIN todo', todo'[j][1] = todo'[k][1]
        PROVE  j = k
    <3>1. j + 1 = k + 1
      BY <2>2, <2>7 DEF Fresh
    <3>2. j \in Int /\ k \in Int
      BY <2>2, <2>7, LenProperties
    <3> QED
      BY <3>1, <3>2
  <2> QED
    BY <2>1, <2>3, <2>4, <2>6, <2>7 DEF Fresh, NoTwice
<1>5. CASE Measure
  <2>1. /\ pending' = <<>> /\ R' = R
    BY <1>5 DEF Measure
  <2>2. \A j, k \in DOMAIN todo' : todo'[j][1] = todo'[k][1] => j = k
    BY <1>5, Batch DEF Fresh
  <2>3. \A k \in DOMAIN todo' : \/ todo'[k][1] \in Range(pending)
                                \/ todo'[k][1] \in Again(pending, R) /\ todo'[k][2].gated = 2
    BY <1>5, Batch
  <2>4. \A k \in DOMAIN todo' : \/ todo'[k][1] \notin DOMAIN R
                                \/ R[todo'[k][1]].gated = 1 /\ todo'[k][2].gated = 2
    BY <2>3 DEF Fresh, Again
  <2> QED
    BY <2>1, <2>2, <2>4, Nothing DEF Fresh
<1>6. CASE Select
  BY <1>6 DEF Fresh, Select, NoTwice
<1>7. CASE Crash
  BY <1>7, FreshEmptied DEF Crash, Idle
<1>8. CASE CrashWriting
  BY <1>8, FreshEmptied DEF CrashWriting, Idle
<1>9. CASE UNCHANGED vars
  BY <1>9 DEF Fresh, NoTwice, vars, process
<1>10. CASE Over
  BY <1>9, <1>10 DEF Over
<1> QED
  BY <1>1, <1>2, <1>3, <1>4, <1>5, <1>6, <1>7, <1>8, <1>9, <1>10 DEF Next

LEMMA FreshAlways == Spec => [](Typed /\ Fresh)
<1>1. Init => Typed /\ Fresh
  BY TypedInit, FreshEmpty DEF Init
<1>2. Typed /\ Fresh /\ [Next]_vars => (Typed /\ Fresh)'
  BY TypedStep, FreshStep
<1> QED
  BY <1>1, <1>2, PTL DEF Spec
-----------------------------------------------------------------------------
(* The readable lines of the database once a line is appended.              *)
LEMMA AppendedGood ==
    ASSUME Typed, NEW l \in {Bad} \cup Line, db' = Appended(l)
    PROVE  /\ Good \subseteq 1 .. Len(db) /\ Len(db) \in Nat
           /\ \A k \in Good' : \/ k \in Good /\ db'[k] = db[k]
                               \/ ended /\ k = Len(db) + 1 /\ db'[k] = l /\ l # Bad
           /\ ended => \A k \in Good : k \in Good' /\ db'[k] = db[k]
           /\ ended /\ l # Bad => Len(db) + 1 \in Good' /\ db'[Len(db) + 1] = l
<1> DEFINE T == {Bad} \cup Line
<1>1. db \in Seq(T) /\ Bad \in T /\ l \in T /\ (~ended => db # <<>>) /\ ended \in BOOLEAN
  BY DEF Typed
<1> HIDE DEF T
<1>2. Len(db) \in Nat /\ DOMAIN db = 1 .. Len(db)
  BY <1>1, LenProperties
<1>3. Good \subseteq 1 .. Len(db)
  BY <1>2 DEF Good
<1>4. CASE ended
  <2>1. db' = Append(db, l)
    BY <1>4 DEF Appended
  <2>2. /\ db' \in Seq(T) /\ Len(db') = Len(db) + 1 /\ db'[Len(db) + 1] = l
        /\ \A k \in 1 .. Len(db) : db'[k] = db[k]
    BY <1>1, <2>1, AppendProperties
  <2>3. DOMAIN db' = 1 .. Len(db) + 1
    BY <2>2, LenProperties
  <2>4. Good' = {k \in 1 .. Len(db) + 1 : db'[k] # Bad}
    BY <2>3 DEF Good
  <2>5. Good = {k \in 1 .. Len(db) : db[k] # Bad}
    BY <1>2 DEF Good
  <2>6. \A k \in 1 .. Len(db) + 1 : k \in 1 .. Len(db) \/ k = Len(db) + 1
    BY <1>2
  <2>7. Len(db) + 1 \in 1 .. Len(db) + 1 /\ \A k \in 1 .. Len(db) : k \in 1 .. Len(db) + 1
    BY <1>2
  <2> QED
    BY <1>2, <1>3, <1>4, <2>2, <2>4, <2>5, <2>6, <2>7
<1>5. CASE ~ended
  <2> DEFINE f == Front(db)
  <2>1. db' = Append(f, Bad)
    BY <1>5 DEF Appended
  <2>2. Len(db) \in Nat \ {0}
    BY <1>1, <1>5, EmptySeq
  <2>3. \A k \in 1 .. Len(db) - 1 : db[k] \in T
    BY <1>1, <2>2, ElementOfSeq
  <2>4. /\ f \in Seq(T) /\ Len(f) = Len(db) - 1
        /\ \A k \in 1 .. Len(db) - 1 : f[k] = db[k]
    <3> DEFINE n == Len(db) - 1
    <3>1. n \in Nat /\ f = SubSeq(db, 1, n)
      BY <2>2 DEF Front
    <3>2. \A k \in 1 .. n : db[k] \in T
      BY <2>3
    <3> HIDE DEF n, f
    <3>3. /\ f \in Seq(T) /\ Len(f) = (IF 1 <= n THEN n - 1 + 1 ELSE 0)
          /\ \A k \in 1 .. n - 1 + 1 : f[k] = db[1 + k - 1]
      BY <3>1, <3>2, SubSeqProperties
    <3>4. Len(f) = n /\ \A k \in 1 .. n : k \in 1 .. n - 1 + 1 /\ 1 + k - 1 = k
      BY <3>1, <3>3
    <3> QED
      BY <3>3, <3>4 DEF n
  <2> HIDE DEF f
  <2>5. /\ db' \in Seq(T) /\ Len(db') = Len(f) + 1 /\ db'[Len(f) + 1] = Bad
        /\ \A k \in 1 .. Len(f) : db'[k] = f[k]
    BY <1>1, <2>1, <2>4, AppendProperties
  <2>6. DOMAIN db' = 1 .. Len(db) /\ db'[Len(db)] = Bad
    BY <2>2, <2>4, <2>5, LenProperties
  <2>7. \A k \in 1 .. Len(db) : k = Len(db) \/ k \in 1 .. Len(db) - 1
    BY <2>2
  <2>8. \A k \in Good' : k \in 1 .. Len(db) - 1 /\ db'[k] = db[k]
    BY <2>4, <2>5, <2>6, <2>7 DEF Good
  <2>9. \A k \in 1 .. Len(db) - 1 : k \in 1 .. Len(db)
    BY <2>2
  <2>10. \A k \in Good' : db'[k] # Bad
    BY DEF Good
  <2>11. \A k \in Good' : k \in Good /\ db'[k] = db[k]
    BY <1>2, <2>8, <2>9, <2>10 DEF Good
  <2> QED
    BY <1>2, <1>3, <1>5, <2>11
<1> QED
  BY <1>1, <1>4, <1>5

(* What a kill in save() may leave is a line or an unreadable one.          *)
LEMMA CutLine ==
    ASSUME Typed, CrashWriting
    PROVE  \E l \in {Bad, todo[1]} : l \in {Bad} \cup Line /\ db' = Appended(l)
<1>1. todo \in Seq(Line) /\ todo # <<>>
  BY DEF Typed, CrashWriting
<1>2. Head(todo) \in Line /\ Head(todo) = todo[1]
  BY <1>1, HeadTailProperties
<1> QED
  BY <1>2 DEF CrashWriting
-----------------------------------------------------------------------------
(* With a line cut short by the last crash at most, whatever save()         *)
(* returned for is in the database until then, and in memory whenever the  *)
(* run is up.                                                              *)
Remembered ==
    /\ pc # "down" => saved \subseteq DOMAIN R
    /\ crashes < MaxCrashes => ended = TRUE
    /\ crashes < MaxCrashes \/ pc = "down" => saved \subseteq GoodIds

LEMMA GoodIdsAppended ==
    ASSUME Typed, NEW l \in {Bad} \cup Line, db' = Appended(l), ended
    PROVE  GoodIds \subseteq GoodIds' /\ (l # Bad => l[1] \in GoodIds')
<1>1. /\ \A k \in Good : k \in Good' /\ db'[k] = db[k]
      /\ l # Bad => Len(db) + 1 \in Good' /\ db'[Len(db) + 1] = l
  BY AppendedGood
<1> QED
  BY <1>1 DEF GoodIds

LEMMA RememberedStep ==
    ASSUME Cuts \subseteq {MaxCrashes}, Typed, Remembered, [Next]_vars
    PROVE  Remembered'
<1>t. crashes \in Nat /\ MaxCrashes \in Nat /\ crashes <= MaxCrashes /\ pc \in {"down", "ask", "record", "done", "failed"}
  BY EvolveAssumption DEF Typed
<1>g. db' = db => GoodIds' = GoodIds
  BY DEF GoodIds, Good
<1>1. CASE Start
  <2>1. DOMAIN Load = GoodIds
    BY LoadAll DEF Typed
  <2> QED
    BY <1>1, <1>g, <2>1 DEF Remembered, Start, disk, history
<1>2. CASE Ask
  BY <1>2, <1>g DEF Remembered, Ask, disk
<1>3. CASE GiveUp
  BY <1>3, <1>g DEF Remembered, GiveUp, disk, history
<1>4. CASE SaveOne
  <2>1. /\ DOMAIN R' = DOMAIN R \cup {todo[1][1]} /\ saved' = saved \cup {todo[1][1]}
        /\ todo[1] \in Line /\ db' = Appended(todo[1])
    BY <1>4, SavedRecs
  <2>2. todo[1] # Bad
    BY <2>1, LinesAreGood
  <2>3. ended => GoodIds \subseteq GoodIds' /\ todo[1][1] \in GoodIds'
    BY <2>1, <2>2, GoodIdsAppended
  <2>4. pc' = pc /\ pc = "record" /\ crashes' = crashes /\ ended' = TRUE
    BY <1>4 DEF SaveOne
  <2> QED
    BY <2>1, <2>3, <2>4 DEF Remembered
<1>5. CASE Measure
  BY <1>5, <1>g DEF Remembered, Measure, disk, history
<1>6. CASE Select
  BY <1>6, <1>g DEF Remembered, Select, disk
<1>7. CASE Crash
  BY <1>7, <1>g, <1>t DEF Remembered, Crash, disk, history
<1>8. CASE CrashWriting
  <2>1. PICK l \in {Bad} \cup Line : db' = Appended(l)
    BY <1>8, CutLine
  <2>2. crashes + 1 = MaxCrashes /\ crashes' = crashes + 1 /\ pc' = "down" /\ saved' = saved
    BY <1>8 DEF CrashWriting, history
  <2>3. crashes < MaxCrashes /\ ~(crashes' < MaxCrashes)
    BY <1>t, <2>2
  <2>4. GoodIds \subseteq GoodIds'
    BY <2>1, <2>3, GoodIdsAppended DEF Remembered
  <2> QED
    BY <2>2, <2>3, <2>4 DEF Remembered
<1>9. CASE UNCHANGED vars
  BY <1>9, <1>g DEF Remembered, vars, disk, process, history
<1>10. CASE Over
  BY <1>9, <1>10 DEF Over
<1> QED
  BY <1>1, <1>2, <1>3, <1>4, <1>5, <1>6, <1>7, <1>8, <1>9, <1>10 DEF Next

(* No design that save() returned for is evaluated again, in whatever       *)
(* attempt, for any screen and fast gate and any number of crashes: as long *)
(* as only the last crash cuts a line, since a line cut takes the next      *)
(* record down with it (evolve.py:1797).                                   *)
THEOREM NoneMeasuredTwiceAlways ==
    ASSUME Cuts \subseteq {MaxCrashes}
    PROVE  Spec => []NoneMeasuredTwice
<1>1. Init => Typed /\ Fresh /\ Remembered
  <2> SUFFICES ASSUME Init PROVE Typed /\ Fresh /\ Remembered
    OBVIOUS
  <2>1. Typed
    BY TypedInit
  <2>2. Fresh
    BY FreshEmpty DEF Init
  <2>3. Remembered
    BY DEF Init, Remembered
  <2> QED
    BY <2>1, <2>2, <2>3
<1>2. Typed /\ Fresh /\ Remembered /\ [Next]_vars => (Typed /\ Fresh /\ Remembered)'
  BY TypedStep, FreshStep, RememberedStep
<1>3. Typed /\ Fresh /\ Remembered => NoneMeasuredTwice
  <2> SUFFICES ASSUME Typed, Fresh, Remembered PROVE Range(pending) \cap saved = {}
    BY DEF NoneMeasuredTwice
  <2>1. CASE pc = "down"
    BY <2>1, Nothing DEF Typed
  <2>2. CASE pc # "down"
    BY <2>2 DEF Fresh, Remembered
  <2> QED
    BY <2>1, <2>2
<1> QED
  BY <1>1, <1>2, <1>3, PTL DEF Spec
-----------------------------------------------------------------------------
(* What the database has of a design is what memory has of it, or its gated *)
(* first reading when memory has the two joined.                           *)
AsInMemory ==
    pc # "down" =>
       \A k \in Good : /\ db[k][1] \in DOMAIN R
                       /\ \/ db[k][2].gated = R[db[k][1]].gated
                          \/ db[k][2].gated = 1 /\ R[db[k][1]].gated = 2

LEMMA CountsOnceGood ==
    EachReadingCountsOnce <=>
       \A j, k \in Good : j < k /\ db[j][1] = db[k][1] => db[j][2].gated = 1 /\ db[k][2].gated = 2
  BY DEF EachReadingCountsOnce, Good

LEMMA CountsOnceGoodPrime ==
    EachReadingCountsOnce' <=>
       \A j, k \in Good' : j < k /\ db'[j][1] = db'[k][1] => db'[j][2].gated = 1 /\ db'[k][2].gated = 2
  BY DEF EachReadingCountsOnce, Good

LEMMA CountsOnceAppended ==
    ASSUME Typed, EachReadingCountsOnce, AsInMemory, pc # "down",
           NEW l \in {Bad} \cup Line, db' = Appended(l),
           l # Bad => \/ l[1] \notin DOMAIN R
                      \/ R[l[1]].gated = 1 /\ l[2].gated = 2
    PROVE  EachReadingCountsOnce'
<1>1. /\ Good \subseteq 1 .. Len(db) /\ Len(db) \in Nat
      /\ \A k \in Good' : \/ k \in Good /\ db'[k] = db[k]
                          \/ ended /\ k = Len(db) + 1 /\ db'[k] = l /\ l # Bad
  BY AppendedGood
<1>2. \A j, k \in Good : j < k /\ db[j][1] = db[k][1] => db[j][2].gated = 1 /\ db[k][2].gated = 2
  BY CountsOnceGood
<1>3. \A k \in Good : l # Bad /\ db[k][1] = l[1] => db[k][2].gated = 1 /\ l[2].gated = 2
  BY DEF AsInMemory
<1>4. ASSUME NEW j \in Good', NEW k \in Good', j < k, db'[j][1] = db'[k][1]
      PROVE  db'[j][2].gated = 1 /\ db'[k][2].gated = 2
  <2>0. k \in 1 .. Len(db) + 1 /\ j \in 1 .. Len(db) + 1
    <3>1. \A x \in 1 .. Len(db) : x \in 1 .. Len(db) + 1
      BY <1>1
    <3>2. Len(db) + 1 \in 1 .. Len(db) + 1
      BY <1>1
    <3> QED
      BY <1>1, <3>1, <3>2
  <2>1. j \in Good /\ db'[j] = db[j]
    <3>1. j # Len(db) + 1
      BY <1>1, <1>4, <2>0
    <3> QED
      BY <1>1, <3>1
  <2>2. CASE k \in Good /\ db'[k] = db[k]
    BY <1>2, <1>4, <2>1, <2>2
  <2>3. CASE k = Len(db) + 1 /\ db'[k] = l /\ l # Bad
    BY <1>3, <1>4, <2>1, <2>3
  <2> QED
    BY <1>1, <2>2, <2>3
<1> QED
  BY <1>4, CountsOnceGoodPrime

LEMMA CountedStep ==
    ASSUME Typed, Fresh, EachReadingCountsOnce, AsInMemory, [Next]_vars
    PROVE  EachReadingCountsOnce' /\ AsInMemory'
<1>g. db' = db => Good' = Good /\ EachReadingCountsOnce'
  BY DEF Good, EachReadingCountsOnce
<1>k. db' = db /\ R' = R /\ pc # "down" => AsInMemory'
  BY <1>g DEF AsInMemory
<1>1. CASE Start
  <2>1. db' = db /\ R' = Load
    BY <1>1 DEF Start, disk
  <2>2. /\ DOMAIN Load = GoodIds
        /\ \A i \in GoodIds : \E k \in Good : /\ db[k][1] = i /\ Load[i] = db[k][2]
                                              /\ \A j \in Good : db[j][1] = i => j <= k
    BY LoadAll DEF Typed
  <2>3. ASSUME NEW j \in Good
        PROVE  /\ db[j][1] \in DOMAIN Load
               /\ \/ db[j][2].gated = Load[db[j][1]].gated
                  \/ db[j][2].gated = 1 /\ Load[db[j][1]].gated = 2
    <3>1. db[j][1] \in GoodIds
      BY DEF GoodIds
    <3>2. PICK k \in Good : db[k][1] = db[j][1] /\ Load[db[j][1]] = db[k][2] /\ j <= k
      BY <2>2, <3>1
    <3>3. j \in Int /\ k \in Int
      BY AppendedGood, LenProperties DEF Good, Typed
    <3>4. CASE j = k
      BY <2>2, <3>1, <3>2, <3>4
    <3>5. CASE j < k
      BY <2>2, <3>1, <3>2, <3>5, CountsOnceGood
    <3> QED
      BY <3>2, <3>3, <3>4, <3>5
  <2> QED
    BY <1>g, <2>1, <2>3 DEF AsInMemory
<1>2. CASE Ask
  BY <1>2, <1>g, <1>k DEF Ask, disk
<1>3. CASE GiveUp
  BY <1>3, <1>g, <1>k DEF GiveUp, disk
<1>4. CASE SaveOne
  <2> DEFINE l == todo[1]
  <2>1. /\ DOMAIN R' = DOMAIN R \cup {l[1]} /\ R'[l[1]] = l[2]
        /\ \A j \in DOMAIN R : j # l[1] => R'[j] = R[j]
        /\ l \in Line /\ db' = Appended(l) /\ 1 \in DOMAIN todo
    BY <1>4, SavedRecs
  <2>2. pc = "record"
    BY <1>4 DEF SaveOne
  <2>3. \/ l[1] \notin DOMAIN R
        \/ R[l[1]].gated = 1 /\ l[2].gated = 2
    BY <2>1 DEF Fresh
  <2> HIDE DEF l
  <2>4. EachReadingCountsOnce'
    BY <2>1, <2>2, <2>3, CountsOnceAppended
  <2>5. \A k \in Good' : \/ k \in Good /\ db'[k] = db[k]
                         \/ db'[k] = l
    BY <2>1, AppendedGood
  <2>6. ASSUME NEW k \in Good'
        PROVE  /\ db'[k][1] \in DOMAIN R'
               /\ \/ db'[k][2].gated = R'[db'[k][1]].gated
                  \/ db'[k][2].gated = 1 /\ R'[db'[k][1]].gated = 2
    <3>1. CASE db'[k] = l
      BY <2>1, <3>1
    <3>2. CASE k \in Good /\ db'[k] = db[k]
      <4>1. /\ db[k][1] \in DOMAIN R
            /\ \/ db[k][2].gated = R[db[k][1]].gated
               \/ db[k][2].gated = 1 /\ R[db[k][1]].gated = 2
        BY <2>2, <3>2 DEF AsInMemory
      <4> QED
        BY <2>1, <2>3, <3>2, <4>1
    <3> QED
      BY <2>5, <3>1, <3>2
  <2> QED
    BY <2>4, <2>6 DEF AsInMemory
<1>5. CASE Measure
  BY <1>5, <1>g, <1>k DEF Measure, disk
<1>6. CASE Select
  BY <1>6, <1>g, <1>k DEF Select, disk
<1>7. CASE Crash
  BY <1>7, <1>g DEF Crash, disk, AsInMemory
<1>8. CASE CrashWriting
  <2>1. PICK l \in {Bad, todo[1]} : l \in {Bad} \cup Line /\ db' = Appended(l)
    BY <1>8, CutLine
  <2>2. pc = "record" /\ pc' = "down" /\ todo # <<>>
    BY <1>8 DEF CrashWriting
  <2>3. 1 \in DOMAIN todo
    BY <2>2, EmptySeq, LenProperties DEF Typed
  <2>4. l # Bad => \/ l[1] \notin DOMAIN R
                   \/ R[l[1]].gated = 1 /\ l[2].gated = 2
    BY <2>1, <2>3 DEF Fresh
  <2>5. EachReadingCountsOnce'
    BY <2>1, <2>2, <2>4, CountsOnceAppended
  <2> QED
    BY <2>2, <2>5 DEF AsInMemory
<1>9. CASE UNCHANGED vars
  BY <1>9, <1>g DEF AsInMemory, vars, disk, process
<1>10. CASE Over
  BY <1>9, <1>10 DEF Over
<1> QED
  BY <1>1, <1>2, <1>3, <1>4, <1>5, <1>6, <1>7, <1>8, <1>9, <1>10 DEF Next

(* No reading of a design counts twice, whatever was interrupted between    *)
(* its gated first reading and its second, for any fast gate and screen,    *)
(* any crashes and any lines they cut (evolve.py:2260).                     *)
THEOREM EachReadingCountsOnceAlways == Spec => []EachReadingCountsOnce
<1>1. Init => EachReadingCountsOnce /\ AsInMemory
  BY Nothing DEF Init, EachReadingCountsOnce, AsInMemory
<1>2. Typed /\ Fresh /\ EachReadingCountsOnce /\ AsInMemory /\ [Next]_vars
         => (EachReadingCountsOnce /\ AsInMemory)'
  BY CountedStep
<1> QED
  BY <1>1, <1>2, FreshAlways, PTL DEF Spec
-----------------------------------------------------------------------------
(* A generation is computed from the records of its own designs: what was   *)
(* recorded since changes nothing.                                         *)
Agrees(Q, T) == DOMAIN Q \subseteq DOMAIN T /\ \A i \in DOMAIN Q : T[i] = Q[i]

LEMMA RankedAgrees ==
    ASSUME NEW s, NEW Q, NEW T, Agrees(Q, T), Range(s) \subseteq DOMAIN Q
    PROVE  Ranked(s, Q) = Ranked(s, T)
<1>1. Range(s) \cap Alive(Q) = Range(s) \cap Alive(T)
  BY DEF Agrees, Alive
<1>2. [i \in Range(s) \cap Alive(Q) |-> Q[i].speed] = [i \in Range(s) \cap Alive(T) |-> T[i].speed]
  <2>1. \A i \in Range(s) \cap Alive(Q) : Q[i].speed = T[i].speed
    BY DEF Agrees
  <2> QED
    BY <1>1, <2>1
<1> QED
  BY <1>2 DEF Ranked

LEMMA KidsAgree ==
    ASSUME NEW g, NEW p, NEW S, NEW Q, NEW T, Agrees(Q, T), Range(p) \subseteq DOMAIN Q
    PROVE  Barren(g, p, Q) = Barren(g, p, T) /\ Kids(g, p, S, Q) = Kids(g, p, S, T)
  BY RankedAgrees DEF Barren, Kids

LEMMA RangeOfBoth ==
    ASSUME NEW p \in Seq(Designs), NEW k \in Seq(Designs)
    PROVE  Range(p \o k) \subseteq Range(p) \cup Range(k)
<1>1. /\ p \o k \in Seq(Designs) /\ Len(p \o k) = Len(p) + Len(k)
      /\ \A i \in 1 .. Len(p) + Len(k) : (p \o k)[i] = IF i <= Len(p) THEN p[i] ELSE k[i - Len(p)]
  BY ConcatProperties
<1>2. /\ DOMAIN p = 1 .. Len(p) /\ DOMAIN k = 1 .. Len(k) /\ Len(p) \in Nat /\ Len(k) \in Nat
      /\ DOMAIN (p \o k) = 1 .. Len(p) + Len(k)
  BY <1>1, LenProperties
<1>3. ASSUME NEW i \in 1 .. Len(p) + Len(k)
      PROVE  (p \o k)[i] \in Range(p) \cup Range(k)
  <2>1. CASE i <= Len(p)
    <3>1. i \in 1 .. Len(p)
      BY <1>2, <2>1
    <3> QED
      BY <1>1, <1>2, <2>1, <3>1 DEF Range
  <2>2. CASE ~(i <= Len(p))
    <3>1. i - Len(p) \in 1 .. Len(k)
      BY <1>2, <2>2
    <3> QED
      BY <1>1, <1>2, <2>2, <3>1 DEF Range
  <2> QED
    BY <2>1, <2>2
<1> QED
  BY <1>2, <1>3 DEF Range

LEMMA SurvivorsAgree ==
    ASSUME NEW g, NEW p \in Seq(Designs), NEW k \in Seq(Designs), NEW Q, NEW T, Agrees(Q, T),
           Range(p) \subseteq DOMAIN Q, Range(k) \subseteq DOMAIN Q
    PROVE  Survivors(g, p, k, Q) = Survivors(g, p, k, T)
<1>1. Range(p \o k) \subseteq DOMAIN Q
  BY RangeOfBoth
<1>2. Ranked(p \o k, Q) = Ranked(p \o k, T)
  BY <1>1, RankedAgrees
<1> QED
  BY <1>2 DEF Survivors
-----------------------------------------------------------------------------
(* With the fast gate off no record ever changes: a design has one line and *)
(* memory has what the line says.                                          *)
Ungated ==
    /\ \A k \in Good : db[k][2].gated = 0
    /\ \A i \in DOMAIN R : R[i].gated = 0
    /\ \A k \in DOMAIN todo : todo[k][2].gated = 0

OneTruth ==
    pc # "down" => /\ \A k \in Good : db[k][1] \in DOMAIN R /\ db[k][2] = R[db[k][1]]
                   /\ crashes < MaxCrashes => DOMAIN R \subseteq GoodIds

Truth == IF pc = "down" THEN Load ELSE R

LEMMA MeasuredUngated ==
    ASSUME FASTGATE = 0, NEW x, NEW g, NEW Q
    PROVE  Measured(x, g, Q).gated = 0 /\ \A T : Measured(x, g, Q) = Measured(x, g, T)
  BY DEF Measured, Gated

LEMMA LoadOnce ==
    ASSUME Typed, EachReadingCountsOnce, Ungated
    PROVE  /\ Load \in Recs /\ DOMAIN Load = GoodIds
           /\ \A k \in Good : db[k][1] \in GoodIds /\ Load[db[k][1]] = db[k][2]
<1>1. /\ Load \in Recs /\ DOMAIN Load = GoodIds
      /\ \A i \in GoodIds : \E k \in Good : /\ db[k][1] = i /\ Load[i] = db[k][2]
                                            /\ \A j \in Good : db[j][1] = i => j <= k
  BY LoadAll DEF Typed
<1>2. \A k \in Good : k \in Int
  BY LenProperties DEF Good, Typed
<1>3. \A j, k \in Good : db[j][1] = db[k][1] => ~(j < k)
  BY CountsOnceGood DEF Ungated
<1>4. ASSUME NEW j \in Good
      PROVE  db[j][1] \in GoodIds /\ Load[db[j][1]] = db[j][2]
  <2>1. db[j][1] \in GoodIds
    BY DEF GoodIds
  <2>2. PICK k \in Good : db[k][1] = db[j][1] /\ Load[db[j][1]] = db[k][2] /\ j <= k
    BY <1>1, <2>1
  <2>3. j = k
    BY <1>2, <1>3, <2>2
  <2> QED
    BY <2>1, <2>2, <2>3
<1> QED
  BY <1>1, <1>4

LEMMA UngatedStep ==
    ASSUME FASTGATE = 0, Typed, Fresh, EachReadingCountsOnce, Ungated, [Next]_vars
    PROVE  Ungated'
<1>g. db' = db => Good' = Good
  BY DEF Good
<1>n. todo' = <<>> => DOMAIN todo' = {}
  BY Nothing
<1>r. R' = <<>> => DOMAIN R' = {}
  BY Nothing
<1>1. CASE Start
  <2>1. \A i \in DOMAIN Load : Load[i].gated = 0
    BY LoadOnce DEF Ungated, GoodIds
  <2> QED
    BY <1>1, <1>g, <1>n, <2>1 DEF Ungated, Start, Idle, disk
<1>2. CASE Ask
  <2>1. \A k \in DOMAIN todo' : todo'[k][2].gated = 0
    BY <1>2, AskDoes DEF ScreenedRecord
  <2> QED
    BY <1>2, <1>g, <2>1 DEF Ungated, Ask, disk
<1>3. CASE GiveUp
  BY <1>3, <1>g DEF Ungated, GiveUp, disk
<1>4. CASE SaveOne
  <2>1. /\ DOMAIN R' = DOMAIN R \cup {todo[1][1]} /\ R'[todo[1][1]] = todo[1][2]
        /\ \A j \in DOMAIN R : j # todo[1][1] => R'[j] = R[j]
        /\ todo[1] \in Line /\ db' = Appended(todo[1]) /\ 1 \in DOMAIN todo
        /\ \A k \in DOMAIN todo' : k + 1 \in DOMAIN todo /\ todo'[k] = todo[k + 1]
    BY <1>4, SavedRecs
  <2>2. \A k \in Good' : (k \in Good /\ db'[k] = db[k]) \/ db'[k] = todo[1]
    BY <2>1, AppendedGood
  <2>3. \A k \in Good' : db'[k][2].gated = 0
    BY <2>1, <2>2 DEF Ungated
  <2>4. \A i \in DOMAIN R' : R'[i].gated = 0
    BY <2>1 DEF Ungated
  <2>5. \A k \in DOMAIN todo' : todo'[k][2].gated = 0
    BY <2>1 DEF Ungated
  <2> QED
    BY <2>3, <2>4, <2>5 DEF Ungated
<1>5. CASE Measure
  <2>1. \A k \in DOMAIN todo' : \/ \E x \in Readings \cup {Dead} : todo'[k][2] = Measured(x, gen, R)
                                \/ todo'[k][1] \in Again(pending, R)
    BY <1>5, Batch
  <2>2. Again(pending, R) = {}
    BY DEF Again, Alive, Ungated
  <2>3. \A k \in DOMAIN todo' : todo'[k][2].gated = 0
    BY <2>1, <2>2, MeasuredUngated
  <2> QED
    BY <1>5, <1>g, <2>3 DEF Ungated, Measure, disk
<1>6. CASE Select
  BY <1>6, <1>g DEF Ungated, Select, disk
<1>7. CASE Crash
  BY <1>7, <1>g, <1>n, <1>r DEF Ungated, Crash, Idle, disk
<1>8. CASE CrashWriting
  <2>1. PICK l \in {Bad, todo[1]} : l \in {Bad} \cup Line /\ db' = Appended(l)
    BY <1>8, CutLine
  <2>2. pc = "record" /\ pc' = "down" /\ todo # <<>> /\ todo' = <<>> /\ R' = <<>>
    BY <1>8 DEF CrashWriting, Idle
  <2>3. 1 \in DOMAIN todo
    BY <2>2, EmptySeq, LenProperties DEF Typed
  <2>4. \A k \in Good' : (k \in Good /\ db'[k] = db[k]) \/ (db'[k] = l /\ l # Bad)
    BY <2>1, AppendedGood
  <2>5. \A k \in Good' : db'[k][2].gated = 0
    BY <2>1, <2>3, <2>4 DEF Ungated
  <2> QED
    BY <1>n, <1>r, <2>2, <2>5 DEF Ungated
<1>9. CASE UNCHANGED vars
  BY <1>9, <1>g DEF Ungated, vars, disk, process
<1>10. CASE Over
  BY <1>9, <1>10 DEF Over
<1> QED
  BY <1>1, <1>2, <1>3, <1>4, <1>5, <1>6, <1>7, <1>8, <1>9, <1>10 DEF Next

LoadOne ==
    /\ DOMAIN Load = GoodIds
    /\ \A k \in Good : db[k][1] \in GoodIds /\ Load[db[k][1]] = db[k][2]

LEMMA LoadOnceNext == (Typed /\ EachReadingCountsOnce /\ Ungated)' => LoadOne'
<1>1. Typed /\ EachReadingCountsOnce /\ Ungated => LoadOne
  BY LoadOnce DEF LoadOne
<1> QED
  BY <1>1, PTL

LEMMA AgreesWithItself == \A Q : Agrees(Q, Q)
  BY DEF Agrees

(* A step adds to what is known of the designs, and changes none of it:     *)
(* the last crash may lose what memory had, for the database has it.        *)
LEMMA TruthGrows ==
    ASSUME FASTGATE = 0, Cuts \subseteq {MaxCrashes}, Typed, Fresh, Remembered, Ungated, OneTruth,
           EachReadingCountsOnce, [Next]_vars, Typed', EachReadingCountsOnce', Ungated'
    PROVE  Agrees(Truth, Truth')
<1>t. crashes \in Nat /\ MaxCrashes \in Nat /\ crashes <= MaxCrashes
  BY EvolveAssumption DEF Typed
<1>l. db' = db => Load' = Load /\ Good' = Good /\ GoodIds' = GoodIds
  BY DEF Load, Good, GoodIds
<1>1. CASE Start
  BY <1>1, <1>l, AgreesWithItself DEF Start, Truth, disk
<1>2. CASE Ask
  BY <1>2, <1>l, AgreesWithItself DEF Ask, Truth, disk
<1>3. CASE GiveUp
  BY <1>3, <1>l, AgreesWithItself DEF GiveUp, Truth, disk
<1>4. CASE SaveOne
  <2>1. /\ DOMAIN R' = DOMAIN R \cup {todo[1][1]} /\ 1 \in DOMAIN todo
        /\ \A j \in DOMAIN R : j # todo[1][1] => R'[j] = R[j]
    BY <1>4, SavedRecs
  <2>2. todo[1][1] \notin DOMAIN R
    BY <2>1 DEF Fresh, Ungated
  <2>3. Truth = R /\ Truth' = R'
    BY <1>4 DEF SaveOne, Truth
  <2>4. Agrees(R, R')
    BY <2>1, <2>2 DEF Agrees
  <2> QED
    BY <2>3, <2>4
<1>5. CASE Measure
  BY <1>5, <1>l, AgreesWithItself DEF Measure, Truth, disk
<1>6. CASE Select
  BY <1>6, <1>l, AgreesWithItself DEF Select, Truth, disk
<1>7. CASE Crash
  <2>1. Truth = R /\ Truth' = Load /\ crashes < MaxCrashes /\ pc # "down"
    BY <1>7, <1>l DEF Crash, Truth, disk
  <2>2. /\ DOMAIN Load = GoodIds
        /\ \A k \in Good : db[k][1] \in GoodIds /\ Load[db[k][1]] = db[k][2]
    BY LoadOnce
  <2>3. \A i \in DOMAIN R : \E k \in Good : db[k][1] = i /\ db[k][2] = R[i]
    BY <2>1 DEF OneTruth, GoodIds
  <2>4. Agrees(R, Load)
    BY <2>2, <2>3 DEF Agrees
  <2> QED
    BY <2>1, <2>4
<1>8. CASE CrashWriting
  <2>1. PICK l \in {Bad} \cup Line : db' = Appended(l)
    BY <1>8, CutLine
  <2>2. crashes + 1 = MaxCrashes /\ pc' = "down" /\ pc # "down"
    BY <1>8 DEF CrashWriting
  <2>3. crashes < MaxCrashes
    BY <1>t, <2>2
  <2>4. ended
    BY <2>3 DEF Remembered
  <2>5. \A k \in Good : k \in Good' /\ db'[k] = db[k]
    BY <2>1, <2>4, AppendedGood
  <2>6. /\ DOMAIN Load' = GoodIds'
        /\ \A k \in Good' : db'[k][1] \in GoodIds' /\ Load'[db'[k][1]] = db'[k][2]
    BY LoadOnceNext DEF LoadOne
  <2>7. \A i \in DOMAIN R : \E k \in Good : db[k][1] = i /\ db[k][2] = R[i]
    BY <2>2, <2>3 DEF OneTruth, GoodIds
  <2>8. \A i \in DOMAIN R : i \in DOMAIN Load' /\ Load'[i] = R[i]
    BY <2>5, <2>6, <2>7
  <2> QED
    BY <2>2, <2>8 DEF Agrees, Truth
<1>9. CASE UNCHANGED vars
  BY <1>9, <1>l, AgreesWithItself DEF vars, disk, process, Truth
<1>10. CASE Over
  BY <1>9, <1>10 DEF Over
<1> QED
  BY <1>1, <1>2, <1>3, <1>4, <1>5, <1>6, <1>7, <1>8, <1>9, <1>10 DEF Next

LEMMA OneTruthStep ==
    ASSUME FASTGATE = 0, Cuts \subseteq {MaxCrashes}, Typed, Fresh, Remembered, Ungated, OneTruth,
           EachReadingCountsOnce, [Next]_vars
    PROVE  OneTruth'
<1>g. db' = db => Good' = Good /\ GoodIds' = GoodIds
  BY DEF Good, GoodIds
<1>1. CASE Start
  <2>1. /\ DOMAIN Load = GoodIds
        /\ \A k \in Good : db[k][1] \in GoodIds /\ Load[db[k][1]] = db[k][2]
    BY LoadOnce
  <2>2. R' = Load /\ db' = db
    BY <1>1 DEF Start, disk
  <2> QED
    BY <1>g, <2>1, <2>2 DEF OneTruth
<1>2. CASE Ask
  BY <1>2, <1>g DEF OneTruth, Ask, disk
<1>3. CASE GiveUp
  BY <1>3, <1>g DEF OneTruth, GiveUp, disk
<1>4. CASE SaveOne
  <2>1. /\ DOMAIN R' = DOMAIN R \cup {todo[1][1]} /\ R'[todo[1][1]] = todo[1][2]
        /\ \A j \in DOMAIN R : j # todo[1][1] => R'[j] = R[j]
        /\ todo[1] \in Line /\ db' = Appended(todo[1]) /\ 1 \in DOMAIN todo
    BY <1>4, SavedRecs
  <2>2. todo[1][1] \notin DOMAIN R
    BY <2>1 DEF Fresh, Ungated
  <2>3. pc' = pc /\ pc = "record" /\ crashes' = crashes
    BY <1>4 DEF SaveOne
  <2>4. \A k \in Good' : (k \in Good /\ db'[k] = db[k]) \/ db'[k] = todo[1]
    BY <2>1, AppendedGood
  <2>5. \A k \in Good : db[k][1] \in DOMAIN R /\ db[k][2] = R[db[k][1]]
    BY <2>3 DEF OneTruth
  <2>6. \A k \in Good' : db'[k][1] \in DOMAIN R' /\ db'[k][2] = R'[db'[k][1]]
    BY <2>1, <2>2, <2>4, <2>5
  <2>7. ASSUME crashes' < MaxCrashes
        PROVE  DOMAIN R' \subseteq GoodIds'
    <3>1. ended /\ DOMAIN R \subseteq GoodIds
      BY <2>3, <2>7 DEF Remembered, OneTruth
    <3>2. GoodIds \subseteq GoodIds' /\ todo[1][1] \in GoodIds'
      BY <2>1, <3>1, GoodIdsAppended, LinesAreGood
    <3> QED
      BY <2>1, <3>1, <3>2
  <2> QED
    BY <2>6, <2>7 DEF OneTruth
<1>5. CASE Measure
  BY <1>5, <1>g DEF OneTruth, Measure, disk
<1>6. CASE Select
  BY <1>6, <1>g DEF OneTruth, Select, disk
<1>7. CASE Crash
  BY <1>7 DEF OneTruth, Crash
<1>8. CASE CrashWriting
  BY <1>8 DEF OneTruth, CrashWriting
<1>9. CASE UNCHANGED vars
  BY <1>9, <1>g DEF OneTruth, vars, disk, process
<1>10. CASE Over
  BY <1>9, <1>10 DEF Over
<1> QED
  BY <1>1, <1>2, <1>3, <1>4, <1>5, <1>6, <1>7, <1>8, <1>9, <1>10 DEF Next
-----------------------------------------------------------------------------
(* The run so far, told by generation: P is the population before each of   *)
(* the first n and S what it had seen, a the children, T the records.       *)
Past(P, S, n, a, T) ==
    /\ n \in Nat /\ Len(a) \in {n, n + 1}
    /\ P[0] = <<>> /\ S[0] = {}
    /\ \A g \in 0 .. n : P[g] \in Seq(Designs) /\ Range(P[g]) \subseteq DOMAIN T
    /\ \A g \in 0 .. Len(a) - 1 : /\ ~Barren(g, P[g], T)
                                  /\ a[g + 1] = Kids(g, P[g], S[g], T)
    /\ \A g \in 0 .. n - 1 : /\ Range(a[g + 1]) \subseteq DOMAIN T
                             /\ P[g + 1] = Survivors(g, P[g], a[g + 1], T)
                             /\ S[g + 1] = S[g] \cup Range(a[g + 1])

Generations == Seq(Seq(Designs))

(* More records tell the same past.                                        *)
LEMMA PastGrows ==
    ASSUME NEW P, NEW S, NEW n, NEW a \in Generations, NEW T, NEW T2,
           Past(P, S, n, a, T), Agrees(T, T2)
    PROVE  Past(P, S, n, a, T2)
<1>1. n \in Nat /\ Len(a) \in {n, n + 1} /\ DOMAIN T \subseteq DOMAIN T2
  BY DEF Past, Agrees
<1>2. \A g \in 0 .. n : P[g] \in Seq(Designs) /\ Range(P[g]) \subseteq DOMAIN T
  BY DEF Past
<1>3. ASSUME NEW g \in 0 .. Len(a) - 1
      PROVE  ~Barren(g, P[g], T2) /\ a[g + 1] = Kids(g, P[g], S[g], T2)
  <2>1. g \in 0 .. n
    BY <1>1
  <2>2. Range(P[g]) \subseteq DOMAIN T
    BY <1>2, <2>1
  <2>3. ~Barren(g, P[g], T) /\ a[g + 1] = Kids(g, P[g], S[g], T)
    BY DEF Past
  <2> DEFINE p == P[g]
             s == S[g]
  <2>4. Range(p) \subseteq DOMAIN T
    BY <2>2
  <2> HIDE DEF p, s
  <2>5. Barren(g, p, T) = Barren(g, p, T2) /\ Kids(g, p, s, T) = Kids(g, p, s, T2)
    BY <2>4, KidsAgree
  <2> QED
    BY <2>3, <2>5 DEF p, s
<1>4. ASSUME NEW g \in 0 .. n - 1
      PROVE  /\ Range(a[g + 1]) \subseteq DOMAIN T2
             /\ P[g + 1] = Survivors(g, P[g], a[g + 1], T2)
             /\ S[g + 1] = S[g] \cup Range(a[g + 1])
  <2>1. g \in 0 .. n /\ g + 1 \in 1 .. Len(a)
    BY <1>1
  <2>2. P[g] \in Seq(Designs) /\ a[g + 1] \in Seq(Designs) /\ Range(P[g]) \subseteq DOMAIN T
    BY <1>2, <2>1, ElementOfSeq DEF Generations
  <2>3. /\ Range(a[g + 1]) \subseteq DOMAIN T
        /\ P[g + 1] = Survivors(g, P[g], a[g + 1], T)
        /\ S[g + 1] = S[g] \cup Range(a[g + 1])
    BY DEF Past
  <2> QED
    BY <1>1, <2>2, <2>3, SurvivorsAgree
<1>5. P[0] = <<>> /\ S[0] = {}
  BY DEF Past
<1> QED
  BY <1>1, <1>2, <1>3, <1>4, <1>5 DEF Past

(* A generation's children asked for the first time.                        *)
LEMMA PastAsked ==
    ASSUME NEW P, NEW S, NEW n, NEW a \in Generations, NEW T, NEW k \in Seq(Designs),
           Past(P, S, n, a, T), Len(a) = n, ~Barren(n, P[n], T), k = Kids(n, P[n], S[n], T)
    PROVE  Past(P, S, n, Append(a, k), T) /\ Append(a, k)[n + 1] = k
<1> DEFINE X == Seq(Designs)
           b == Append(a, k)
<1>0. a \in Seq(X) /\ k \in X
  BY DEF Generations
<1> HIDE DEF X
<1>1. /\ Len(b) = n + 1 /\ b[n + 1] = k /\ n \in Nat
      /\ \A i \in 1 .. n : b[i] = a[i]
  BY <1>0, AppendProperties DEF Past
<1> HIDE DEF b
<1>2. ASSUME NEW g \in 0 .. Len(b) - 1
      PROVE  ~Barren(g, P[g], T) /\ b[g + 1] = Kids(g, P[g], S[g], T)
  <2>1. CASE g = n
    BY <1>1, <2>1
  <2>2. CASE g # n
    <3>1. g \in 0 .. Len(a) - 1 /\ g + 1 \in 1 .. n
      BY <1>1, <2>2
    <3>2. ~Barren(g, P[g], T) /\ a[g + 1] = Kids(g, P[g], S[g], T)
      BY <3>1 DEF Past
    <3> QED
      BY <1>1, <3>1, <3>2
  <2> QED
    BY <2>1, <2>2
<1>3. ASSUME NEW g \in 0 .. n - 1
      PROVE  /\ Range(b[g + 1]) \subseteq DOMAIN T
             /\ P[g + 1] = Survivors(g, P[g], b[g + 1], T)
             /\ S[g + 1] = S[g] \cup Range(b[g + 1])
  <2>1. b[g + 1] = a[g + 1]
    BY <1>1
  <2>2. /\ Range(a[g + 1]) \subseteq DOMAIN T
        /\ P[g + 1] = Survivors(g, P[g], a[g + 1], T)
        /\ S[g + 1] = S[g] \cup Range(a[g + 1])
    BY DEF Past
  <2> QED
    BY <2>1, <2>2
<1>4. /\ P[0] = <<>> /\ S[0] = {}
      /\ \A g \in 0 .. n : P[g] \in Seq(Designs) /\ Range(P[g]) \subseteq DOMAIN T
  BY DEF Past
<1>5. Past(P, S, n, b, T)
  BY <1>1, <1>2, <1>3, <1>4 DEF Past
<1> QED
  BY <1>1, <1>5 DEF b

(* A generation selected for the first time.                                *)
Further(P, S, n, a, T) ==
    \E P2, S2 : /\ Past(P2, S2, n + 1, a, T)
                /\ P2[n + 1] = Survivors(n, P[n], a[n + 1], T)
                /\ S2[n + 1] = S[n] \cup Range(a[n + 1])

LEMMA PastFurther ==
    ASSUME NEW P, NEW S, NEW n, NEW a \in Generations, NEW T \in Recs,
           Past(P, S, n, a, T), Len(a) = n + 1, Range(a[n + 1]) \subseteq DOMAIN T
    PROVE  Further(P, S, n, a, T)
<1> DEFINE p == Survivors(n, P[n], a[n + 1], T)
           s == S[n] \cup Range(a[n + 1])
           P2 == [g \in 0 .. n + 1 |-> IF g = n + 1 THEN p ELSE P[g]]
           S2 == [g \in 0 .. n + 1 |-> IF g = n + 1 THEN s ELSE S[g]]
<1>0. n \in Nat /\ Len(a) = n + 1
  BY DEF Past
<1>1. P[n] \in Seq(Designs) /\ a[n + 1] \in Seq(Designs) /\ Range(P[n]) \subseteq DOMAIN T
  <2>1. n \in 0 .. n /\ n + 1 \in 1 .. Len(a)
    BY <1>0
  <2> QED
    BY <2>1, ElementOfSeq DEF Past, Generations
<1>2. p \in Seq(Designs) /\ Range(p) \subseteq DOMAIN T
  BY <1>1, SurvivorsAll
<1>3. /\ P2[n + 1] = p /\ S2[n + 1] = s
      /\ \A g \in 0 .. n : P2[g] = P[g] /\ S2[g] = S[g]
  BY <1>0
<1> HIDE DEF P2, S2, p, s
<1>4. P2[0] = <<>> /\ S2[0] = {}
  <2>1. 0 \in 0 .. n /\ P[0] = <<>> /\ S[0] = {}
    BY <1>0 DEF Past
  <2> QED
    BY <1>3, <2>1
<1>5. ASSUME NEW g \in 0 .. n + 1
      PROVE  P2[g] \in Seq(Designs) /\ Range(P2[g]) \subseteq DOMAIN T
  <2>1. CASE g = n + 1
    BY <1>2, <1>3, <2>1
  <2>2. CASE g # n + 1
    <3>1. g \in 0 .. n
      BY <1>0, <2>2
    <3>2. P[g] \in Seq(Designs) /\ Range(P[g]) \subseteq DOMAIN T
      BY <3>1 DEF Past
    <3> QED
      BY <1>3, <3>1, <3>2
  <2> QED
    BY <2>1, <2>2
<1>6. ASSUME NEW g \in 0 .. Len(a) - 1
      PROVE  ~Barren(g, P2[g], T) /\ a[g + 1] = Kids(g, P2[g], S2[g], T)
  <2>1. g \in 0 .. n
    BY <1>0
  <2>2. ~Barren(g, P[g], T) /\ a[g + 1] = Kids(g, P[g], S[g], T)
    BY DEF Past
  <2> QED
    BY <1>3, <2>1, <2>2
<1>7. /\ n + 1 \in Nat /\ Len(a) \in {n + 1, n + 1 + 1}
      /\ \A g \in 0 .. n + 1 - 1 : g \in 0 .. n
  BY <1>0
<1>8. ASSUME NEW g \in 0 .. n + 1 - 1
      PROVE  /\ Range(a[g + 1]) \subseteq DOMAIN T
             /\ P2[g + 1] = Survivors(g, P2[g], a[g + 1], T)
             /\ S2[g + 1] = S2[g] \cup Range(a[g + 1])
  <2>0. g \in 0 .. n
    BY <1>7
  <2>1. CASE g = n
    BY <1>3, <2>0, <2>1 DEF p, s
  <2>2. CASE g # n
    <3>1. g \in 0 .. n - 1 /\ g + 1 \in 0 .. n
      BY <1>0, <2>0, <2>2
    <3>2. /\ Range(a[g + 1]) \subseteq DOMAIN T
          /\ P[g + 1] = Survivors(g, P[g], a[g + 1], T)
          /\ S[g + 1] = S[g] \cup Range(a[g + 1])
      BY <3>1 DEF Past
    <3> QED
      BY <1>3, <2>0, <3>1, <3>2
  <2> QED
    BY <2>1, <2>2
<1>9. Past(P2, S2, n + 1, a, T)
  <2> DEFINE m == n + 1
  <2>1. /\ m \in Nat /\ Len(a) \in {m, m + 1}
        /\ \A g \in 0 .. m : P2[g] \in Seq(Designs) /\ Range(P2[g]) \subseteq DOMAIN T
    BY <1>5, <1>7
  <2>2. ASSUME NEW g \in 0 .. m - 1
        PROVE  /\ Range(a[g + 1]) \subseteq DOMAIN T
               /\ P2[g + 1] = Survivors(g, P2[g], a[g + 1], T)
               /\ S2[g + 1] = S2[g] \cup Range(a[g + 1])
    <3>1. g \in 0 .. n + 1 - 1
      BY <1>0
    <3> HIDE DEF m
    <3> QED
      BY <1>8, <3>1
  <2> HIDE DEF m
  <2>3. Past(P2, S2, m, a, T)
    BY <1>4, <1>6, <2>1, <2>2 DEF Past
  <2> QED
    BY <2>3 DEF m
<1> QED
  BY <1>3, <1>9 DEF Further, p, s

(* Where the process is in that past: in one of its generations, having     *)
(* asked for that generation's children or about to; of those children each *)
(* has a record, or is yet to be measured or recorded.                      *)
Ids(todos) == {todos[k][1] : k \in DOMAIN todos}

Present(P, S) ==
    /\ far.pop = P[far.gen] /\ far.seen = S[far.gen]
    /\ gen \in 0 .. far.gen /\ pop = P[gen]
    /\ pc # "record" => seen = S[gen]
    /\ pc = "record" => /\ gen < Len(asked) /\ kids = asked[gen + 1]
                        /\ seen = S[gen] \cup Range(kids)
                        /\ Range(kids) \subseteq DOMAIN R \cup Range(pending) \cup Ids(todo)

Replayed == \E P, S : Past(P, S, far.gen, asked, Truth) /\ Present(P, S)

LEMMA Restarted ==
    ASSUME NEW P, NEW S, Typed, Past(P, S, far.gen, asked, Truth), Past(P, S, far.gen, asked, Truth'),
           far.pop = P[far.gen], far.seen = S[far.gen],
           asked' = asked, far' = far, Idle, pc' # "record"
    PROVE  Replayed'
<1>1. far.gen \in Nat /\ P[0] = <<>> /\ S[0] = {}
  BY DEF Past
<1>2. Present(P, S)'
  BY <1>1 DEF Present, Idle
<1> QED
  BY <1>2 DEF Replayed

LEMMA ReplayedStep ==
    ASSUME Typed, Replayed, Agrees(Truth, Truth'), [Next]_vars
    PROVE  Replayed'
<1>0. PICK P, S : Past(P, S, far.gen, asked, Truth) /\ Present(P, S)
  BY DEF Replayed
<1>a. asked \in Generations /\ R \in Recs /\ far.gen \in Nat /\ Len(asked) \in {far.gen, far.gen + 1}
  BY <1>0 DEF Typed, Past, Generations
<1> DEFINE tr == Truth'
<1>p. Past(P, S, far.gen, asked, tr)
  <2> DEFINE n == far.gen
  <2> HIDE DEF tr, n
  <2>1. Agrees(Truth, tr) /\ Past(P, S, n, asked, Truth)
    BY <1>0 DEF tr, n
  <2>2. Past(P, S, n, asked, tr)
    BY <1>a, <2>1, PastGrows
  <2> QED
    BY <2>2 DEF n
<1>f. far.pop = P[far.gen] /\ far.seen = S[far.gen]
  BY <1>0 DEF Present
<1>1. CASE Start
  BY <1>0, <1>p, <1>f, <1>1, Restarted DEF Start, history
<1>2. CASE Ask
  <2>1. pc = "ask" /\ pc' = "record" /\ UNCHANGED <<gen, pop, R, far>> /\ ~Barren(gen, pop, R)
    BY <1>2 DEF Ask
  <2>2. /\ kids' = Kids(gen, pop, seen, R) /\ kids' \in Seq(Designs)
        /\ asked' = IF gen < Len(asked) THEN asked ELSE Append(asked, kids')
        /\ seen' = seen \cup Range(kids')
        /\ Ids(todo') \cup Range(pending') = Range(kids') \ DOMAIN R
    BY <1>2, AskDoes DEF Ids
  <2>3. gen \in 0 .. far.gen /\ pop = P[gen] /\ seen = S[gen]
    BY <1>0, <2>1 DEF Present
  <2>4. Truth = R /\ tr = R
    BY <2>1 DEF Truth
  <2>5. CASE gen < Len(asked)
    <3>1. gen \in 0 .. Len(asked) - 1
      BY <1>a, <2>3, <2>5
    <3>2. asked[gen + 1] = Kids(gen, P[gen], S[gen], R)
      BY <1>0, <2>4, <3>1 DEF Past
    <3>3. Present(P, S)'
      BY <1>f, <2>1, <2>2, <2>3, <2>5, <3>2 DEF Present
    <3>4. Past(P, S, far.gen, asked, Truth)'
      BY <1>p, <2>1, <2>2, <2>5
    <3> QED
      BY <3>3, <3>4 DEF Replayed
  <2>6. CASE ~(gen < Len(asked))
    <3> DEFINE n == far.gen
               k == kids'
    <3>1. gen = n /\ Len(asked) = n
      BY <1>a, <2>3, <2>6
    <3>2. asked' = Append(asked, k)
      BY <2>2, <2>6
    <3>3. /\ k \in Seq(Designs) /\ ~Barren(n, P[n], R) /\ k = Kids(n, P[n], S[n], R)
          /\ Past(P, S, n, asked, R)
      BY <1>0, <2>1, <2>2, <2>3, <2>4, <3>1
    <3> HIDE DEF n, k
    <3>4. Past(P, S, n, Append(asked, k), R) /\ Append(asked, k)[n + 1] = k
      <4>1. asked \in Generations /\ Len(asked) = n
        BY <1>a, <3>1
      <4> QED
        BY ONLY <3>3, <4>1, PastAsked
    <3>5. Past(P, S, far.gen, asked, Truth)'
      BY <2>1, <2>4, <3>2, <3>4 DEF n
    <3>6. Len(asked') = n + 1
      <4> DEFINE X == Seq(Designs)
      <4>1. asked \in Seq(X) /\ k \in X
        BY <1>a, <3>3 DEF Generations
      <4> HIDE DEF X
      <4> QED
        BY <3>1, <3>2, <4>1, AppendProperties
    <3>7. gen < Len(asked') /\ kids' = asked'[gen + 1]
      BY <1>a, <3>1, <3>2, <3>4, <3>6 DEF n, k
    <3>8. Present(P, S)'
      BY <1>f, <2>1, <2>2, <2>3, <3>7 DEF Present
    <3> QED
      BY <3>5, <3>8 DEF Replayed
  <2> QED
    BY <2>5, <2>6
<1>3. CASE GiveUp
  <2>1. Present(P, S)'
    BY <1>0, <1>3 DEF GiveUp, Present, history
  <2> QED
    BY <1>p, <1>3, <2>1 DEF Replayed, GiveUp, history
<1>4. CASE SaveOne
  <2>1. UNCHANGED <<pc, gen, pop, seen, kids, pending, asked, far>> /\ pc = "record"
    BY <1>4 DEF SaveOne
  <2>2. /\ DOMAIN R' = DOMAIN R \cup {todo[1][1]}
        /\ \A k \in DOMAIN todo : k = 1 \/ k - 1 \in DOMAIN todo'
        /\ \A k \in DOMAIN todo' : todo'[k] = todo[k + 1]
        /\ \A k \in DOMAIN todo : (k - 1) + 1 = k
    <3>1. /\ DOMAIN R' = DOMAIN R \cup {todo[1][1]}
          /\ DOMAIN todo' = 1 .. Len(todo) - 1 /\ Len(todo) \in Nat \ {0}
          /\ \A k \in DOMAIN todo' : todo'[k] = todo[k + 1]
      BY <1>4, SavedRecs
    <3>2. DOMAIN todo = 1 .. Len(todo)
      BY LenProperties DEF Typed
    <3> QED
      BY <3>1, <3>2
  <2>3. \A i \in Ids(todo) : i \in DOMAIN R' \/ i \in Ids(todo')
    BY <2>2 DEF Ids
  <2>4. Range(kids) \subseteq DOMAIN R' \cup Range(pending) \cup Ids(todo')
    BY <1>0, <2>1, <2>2, <2>3 DEF Present
  <2>5. Present(P, S)'
    BY <1>0, <2>1, <2>4 DEF Present
  <2> QED
    BY <1>p, <2>1, <2>5 DEF Replayed
<1>5. CASE Measure
  <2>1. UNCHANGED <<pc, gen, pop, seen, R, kids, asked, far>> /\ pc = "record" /\ todo = <<>>
    BY <1>5 DEF Measure, history
  <2>2. Range(pending) \subseteq Ids(todo')
    BY <1>5, Batch DEF Ids
  <2>3. Ids(todo) = {}
    BY <2>1, Nothing DEF Ids
  <2>4. Range(kids) \subseteq DOMAIN R \cup Range(pending') \cup Ids(todo')
    BY <1>0, <2>1, <2>2, <2>3 DEF Present
  <2>5. Present(P, S)'
    BY <1>0, <2>1, <2>4 DEF Present
  <2> QED
    BY <1>p, <2>1, <2>5 DEF Replayed
<1>6. CASE Select
  <2>1. /\ pc = "record" /\ pc' \in {"done", "ask"} /\ UNCHANGED <<seen, R, asked>>
        /\ gen' = gen + 1 /\ pop' = Survivors(gen, pop, kids, R) /\ todo = <<>> /\ pending = <<>>
        /\ gen < far.gen => far' = far
        /\ ~(gen < far.gen) => far'.gen = gen + 1 /\ far'.pop = pop' /\ far'.seen = seen
    BY <1>6 DEF Select
  <2>2. /\ gen \in 0 .. far.gen /\ pop = P[gen] /\ kids = asked[gen + 1] /\ gen < Len(asked)
        /\ seen = S[gen] \cup Range(kids)
    BY <1>0, <2>1 DEF Present
  <2>3. Range(kids) \subseteq DOMAIN R
    BY <1>0, <2>1, Nothing DEF Present, Ids
  <2>4. Truth = R /\ tr = R
    BY <2>1 DEF Truth
  <2>5. CASE gen < far.gen
    <3>1. gen \in 0 .. far.gen - 1
      BY <1>a, <2>2, <2>5
    <3>2. P[gen + 1] = Survivors(gen, P[gen], asked[gen + 1], R) /\ S[gen + 1] = S[gen] \cup Range(asked[gen + 1])
      BY <1>0, <2>4, <3>1 DEF Past
    <3>3. gen + 1 \in 0 .. far.gen
      BY <1>a, <3>1
    <3>4. Present(P, S)'
      BY <1>f, <2>1, <2>2, <2>5, <3>2, <3>3 DEF Present
    <3> QED
      BY <1>p, <2>1, <2>5, <3>4 DEF Replayed
  <2>6. CASE ~(gen < far.gen)
    <3> DEFINE n == far.gen
    <3>1. gen = n /\ Len(asked) = n + 1
      BY <1>a, <2>2, <2>6
    <3>2. Past(P, S, n, asked, R) /\ Range(asked[n + 1]) \subseteq DOMAIN R
      BY <1>0, <2>2, <2>3, <2>4, <3>1
    <3> HIDE DEF n
    <3>3. PICK P2, S2 : /\ Past(P2, S2, n + 1, asked, R)
                        /\ P2[n + 1] = Survivors(n, P[n], asked[n + 1], R)
                        /\ S2[n + 1] = S[n] \cup Range(asked[n + 1])
      <4>1. asked \in Generations /\ R \in Recs /\ Len(asked) = n + 1
        BY <1>a, <3>1
      <4>2. Further(P, S, n, asked, R)
        BY ONLY <3>2, <4>1, PastFurther
      <4> QED
        BY <4>2 DEF Further
    <3>4. far'.gen = n + 1 /\ gen' = n + 1 /\ n \in Nat
      BY <1>a, <2>1, <2>6, <3>1 DEF n
    <3>5. Past(P2, S2, far.gen, asked, Truth)'
      BY <2>1, <2>4, <3>3, <3>4
    <3>6. pop' = P2[n + 1] /\ seen' = S2[n + 1]
      BY <2>1, <2>2, <3>1, <3>3
    <3>7. Present(P2, S2)'
      BY <2>1, <2>6, <3>4, <3>6 DEF Present
    <3> QED
      BY <3>5, <3>7 DEF Replayed
  <2> QED
    BY <2>5, <2>6
<1>7. CASE Crash
  BY <1>0, <1>p, <1>f, <1>7, Restarted DEF Crash, history
<1>8. CASE CrashWriting
  BY <1>0, <1>p, <1>f, <1>8, Restarted DEF CrashWriting, history
<1>9. CASE UNCHANGED vars
  <2>1. Present(P, S)'
    BY <1>0, <1>9 DEF Present, vars, disk, process, history
  <2> QED
    BY <1>p, <1>9, <2>1 DEF Replayed, vars, history
<1>10. CASE Over
  BY <1>9, <1>10 DEF Over
<1> QED
  BY <1>1, <1>2, <1>3, <1>4, <1>5, <1>6, <1>7, <1>8, <1>9, <1>10 DEF Next

(* What the replay rests on, all of it together.                            *)
Replays ==
    /\ Typed /\ Fresh /\ Remembered
    /\ EachReadingCountsOnce /\ AsInMemory /\ Ungated /\ OneTruth
    /\ Replayed

LEMMA ReplaysInit ==
    ASSUME Init
    PROVE  Replays
<1>1. Typed /\ Fresh
  BY TypedInit, FreshEmpty DEF Init
<1>2. Good = {} /\ DOMAIN R = {} /\ DOMAIN todo = {}
  BY Nothing DEF Good, Init
<1>3. Remembered /\ AsInMemory /\ Ungated /\ OneTruth
  BY <1>2 DEF Init, Remembered, AsInMemory, Ungated, OneTruth
<1>4. EachReadingCountsOnce
  BY <1>2, CountsOnceGood
<1>5. Replayed
  <2> DEFINE P == [g \in {0} |-> <<>>]
             S == [g \in {0} |-> {}]
  <2>1. P[0] = <<>> /\ S[0] = {}
    OBVIOUS
  <2>2. /\ far.gen = 0 /\ asked = <<>> /\ gen = 0 /\ pop = <<>> /\ seen = {} /\ pc = "down"
        /\ far.pop = <<>> /\ far.seen = {}
    BY DEF Init
  <2>3. <<>> \in Seq(Designs) /\ Range(<<>>) = {} /\ Len(asked) = 0
    BY <2>2, Nothing
  <2> HIDE DEF P, S
  <2>4. Past(P, S, far.gen, asked, Truth)
    <3>1. \A g \in 0 .. 0 : P[g] \in Seq(Designs) /\ Range(P[g]) = {}
      <4>1. P[0] \in Seq(Designs) /\ Range(P[0]) = {}
        BY <2>1, <2>3, Zenon
      <4>2. \A g \in 0 .. 0 : g = 0
        OBVIOUS
      <4> QED
        BY <4>1, <4>2, Zenon
    <3>2. 0 \in Nat /\ 0 \in {0, 0 + 1} /\ 0 .. 0 - 1 = {}
      OBVIOUS
    <3>3. Past(P, S, 0, asked, Truth)
      BY <2>1, <2>3, <3>1, <3>2 DEF Past
    <3> QED
      BY <2>2, <3>3
  <2>5. Present(P, S)
    BY <2>1, <2>2 DEF Present
  <2> QED
    BY <2>4, <2>5 DEF Replayed
<1> QED
  BY <1>1, <1>3, <1>4, <1>5 DEF Replays

LEMMA ReplaysStep ==
    ASSUME FASTGATE = 0, Cuts \subseteq {MaxCrashes}, Replays, [Next]_vars
    PROVE  Replays' /\ Agrees(Truth, Truth')
<1>1. Typed' /\ Fresh' /\ Remembered'
  BY TypedStep, FreshStep, RememberedStep DEF Replays
<1>2. EachReadingCountsOnce' /\ AsInMemory'
  BY CountedStep DEF Replays
<1>3. Ungated'
  BY UngatedStep DEF Replays
<1>4. OneTruth'
  BY OneTruthStep DEF Replays
<1>5. Agrees(Truth, Truth')
  BY <1>1, <1>2, <1>3, TruthGrows DEF Replays
<1>6. Replayed'
  BY <1>5, ReplayedStep DEF Replays
<1> QED
  BY <1>1, <1>2, <1>3, <1>4, <1>5, <1>6 DEF Replays

(* Every attempt asks for the children the first one asked for, for any     *)
(* population, screen, readings and number of crashes: a generation is      *)
(* computed from records that never change, whatever else was recorded     *)
(* since.  The fast gate is off (it changes records, and the replay then   *)
(* forks), and a line is cut by the last crash only.                       *)
THEOREM ReplayAsksTheSameAlways ==
    ASSUME FASTGATE = 0, Cuts \subseteq {MaxCrashes}
    PROVE  Spec => []ReplayAsksTheSame
<1>1. Init => Replays
  BY ReplaysInit
<1>2. Replays /\ [Next]_vars => Replays'
  BY ReplaysStep
<1>3. Replays => ReplayAsksTheSame
  BY DEF Replays, Replayed, Present, ReplayAsksTheSame
<1> QED
  BY <1>1, <1>2, <1>3, PTL DEF Spec
-----------------------------------------------------------------------------
(* The generation the run has come to, without the screen: its children are *)
(* all that was measured since the last, whichever attempt did it.          *)
Made(g) == {Measured(x, g, <<>>) : x \in Readings \cup {Dead}}

Latest ==
    /\ far.R \in Recs /\ Agrees(far.R, Truth) /\ Range(far.pop) \subseteq DOMAIN far.R
    /\ \A i \in DOMAIN Truth \ DOMAIN far.R : /\ Len(asked) = far.gen + 1
                                              /\ i \in Range(asked[far.gen + 1])
                                              /\ Truth[i] \in Made(far.gen)
    /\ \A k \in DOMAIN todo : /\ gen = far.gen
                              /\ todo[k][1] \in Range(kids) /\ todo[k][2] \in Made(far.gen)
    /\ Range(pending) \subseteq Range(kids)
    /\ pending # <<>> => gen = far.gen

(* What a step adds to the records is what it recorded, or cut short.       *)
LEMMA TruthFrom ==
    ASSUME Replays, Replays', [Next]_vars, NEW i \in DOMAIN Truth', i \notin DOMAIN Truth
    PROVE  1 \in DOMAIN todo /\ i = todo[1][1] /\ Truth'[i] = todo[1][2] /\ pc = "record"
<1>t. Typed /\ OneTruth /\ EachReadingCountsOnce /\ Ungated /\ Typed' /\ EachReadingCountsOnce' /\ Ungated'
  BY DEF Replays
<1>l. db' = db => Load' = Load /\ Good' = Good /\ GoodIds' = GoodIds
  BY DEF Load, Good, GoodIds
<1>d. pc # "down" => \A k \in Good : db[k][1] \in DOMAIN R
  BY <1>t DEF OneTruth
<1>1. CASE Start
  BY <1>1, <1>l DEF Start, Truth, disk
<1>2. CASE Ask
  BY <1>2 DEF Ask, Truth
<1>3. CASE GiveUp
  BY <1>3 DEF GiveUp, Truth
<1>4. CASE SaveOne
  <2>1. /\ DOMAIN R' = DOMAIN R \cup {todo[1][1]} /\ R'[todo[1][1]] = todo[1][2] /\ 1 \in DOMAIN todo
    BY <1>4, <1>t, SavedRecs
  <2>2. Truth = R /\ Truth' = R' /\ pc = "record"
    BY <1>4 DEF SaveOne, Truth
  <2> QED
    BY <2>1, <2>2
<1>5. CASE Measure
  BY <1>5 DEF Measure, Truth
<1>6. CASE Select
  BY <1>6 DEF Select, Truth
<1>7. CASE Crash
  <2>1. Truth = R /\ Truth' = Load /\ pc # "down"
    BY <1>7, <1>l DEF Crash, Truth, disk
  <2>2. DOMAIN Load = GoodIds
    BY <1>t, LoadOnce
  <2> QED
    BY <1>d, <2>1, <2>2 DEF GoodIds
<1>8. CASE CrashWriting
  <2>1. PICK l \in {Bad, todo[1]} : l \in {Bad} \cup Line /\ db' = Appended(l)
    BY <1>8, <1>t, CutLine
  <2>2. pc = "record" /\ todo # <<>> /\ Truth = R /\ Truth' = Load'
    BY <1>8 DEF CrashWriting, Truth
  <2>3. 1 \in DOMAIN todo
    BY <1>t, <2>2, EmptySeq, LenProperties, SMTT(30) DEF Typed
  <2>4. \A k \in Good' : (k \in Good /\ db'[k] = db[k]) \/ (db'[k] = l /\ l # Bad)
    BY <1>t, <2>1, AppendedGood
  <2>5. /\ DOMAIN Load' = GoodIds'
        /\ \A k \in Good' : Load'[db'[k][1]] = db'[k][2]
    BY <1>t, LoadOnceNext DEF LoadOne
  <2>6. PICK k \in Good' : db'[k][1] = i
    BY <2>2, <2>5 DEF GoodIds
  <2>7. db'[k] = todo[1]
    BY <1>d, <2>1, <2>2, <2>4, <2>6
  <2> QED
    BY <2>2, <2>3, <2>5, <2>6, <2>7
<1>9. CASE UNCHANGED vars
  BY <1>9, <1>l DEF vars, disk, process, Truth
<1>10. CASE Over
  BY <1>9, <1>10 DEF Over
<1> QED
  BY <1>1, <1>2, <1>3, <1>4, <1>5, <1>6, <1>7, <1>8, <1>9, <1>10 DEF Next

(* Before SCREEN_FROM nothing is set aside.                                 *)
LEMMA NoneAside ==
    ASSUME NEW s, NEW l, NEW Q, NEW g \in Nat, g < SCREEN_FROM
    PROVE  SetAside(s, l, Q, g) = {} /\ Refitted(s, l, Q, g) = s
<1>1. ~(g >= SCREEN_FROM)
  BY BreedingAssumption
<1> QED
  BY <1>1 DEF SetAside, Beaten, Refitted

(* The conjuncts of Latest that a step which does not bring the run further *)
(* leaves alone.                                                           *)
LEMMA LatestStays ==
    ASSUME Replays, Replays', Latest, [Next]_vars, Agrees(Truth, Truth'), far' = far,
           asked' = asked \/ Len(asked) = far.gen
    PROVE  /\ far'.R \in Recs /\ Agrees(far'.R, Truth') /\ Range(far'.pop) \subseteq DOMAIN far'.R
           /\ \A i \in DOMAIN Truth' \ DOMAIN far'.R : /\ Len(asked') = far'.gen + 1
                                                       /\ i \in Range(asked'[far'.gen + 1])
                                                       /\ Truth'[i] \in Made(far'.gen)
<1>1. far.R \in Recs /\ Agrees(far.R, Truth) /\ Range(far.pop) \subseteq DOMAIN far.R
  BY DEF Latest
<1>2. Agrees(far.R, Truth')
  BY <1>1 DEF Agrees
<1>3. PICK P, S : Past(P, S, far.gen, asked, Truth) /\ Present(P, S)
  BY DEF Replays, Replayed
<1>n. far.gen \in Nat /\ Len(asked) \in {far.gen, far.gen + 1}
  BY <1>3 DEF Past
<1>4. ASSUME NEW i \in DOMAIN Truth', i \notin DOMAIN far.R
      PROVE  /\ Len(asked') = far.gen + 1
             /\ i \in Range(asked'[far.gen + 1]) /\ Truth'[i] \in Made(far.gen)
  <2>1. CASE i \in DOMAIN Truth
    <3>1. /\ Len(asked) = far.gen + 1
          /\ i \in Range(asked[far.gen + 1]) /\ Truth[i] \in Made(far.gen)
      BY <1>4, <2>1 DEF Latest
    <3>2. asked' = asked
      BY <1>n, <3>1
    <3> QED
      BY <2>1, <3>1, <3>2 DEF Agrees
  <2>2. CASE i \notin DOMAIN Truth
    <3>1. 1 \in DOMAIN todo /\ i = todo[1][1] /\ Truth'[i] = todo[1][2] /\ pc = "record"
      BY <2>2, TruthFrom
    <3>2. gen = far.gen /\ i \in Range(kids) /\ Truth'[i] \in Made(far.gen)
      BY <3>1 DEF Latest
    <3>3. gen < Len(asked) /\ kids = asked[gen + 1]
      BY <1>3, <3>1 DEF Present
    <3>4. Len(asked) = far.gen + 1
      BY <1>n, <3>2, <3>3
    <3>5. asked' = asked
      BY <1>n, <3>4
    <3> QED
      BY <3>2, <3>3, <3>4, <3>5
  <2> QED
    BY <2>1, <2>2
<1> QED
  BY <1>1, <1>2, <1>4

LEMMA LatestStep ==
    ASSUME FASTGATE = 0, G < SCREEN_FROM, Cuts \subseteq {MaxCrashes}, Replays, Latest, [Next]_vars
    PROVE  Latest'
<1>1. Replays' /\ Agrees(Truth, Truth')
  BY ReplaysStep
<1>2. Typed /\ Ungated /\ Typed'
  BY <1>1 DEF Replays
<1>3. PICK P, S : Past(P, S, far.gen, asked, Truth) /\ Present(P, S)
  BY DEF Replays, Replayed
<1>n. far.gen \in Nat /\ Len(asked) \in {far.gen, far.gen + 1} /\ gen \in 0 .. far.gen
  BY <1>3 DEF Past, Present
<1>e. ASSUME todo' = <<>>, pending' = <<>>
      PROVE  /\ \A k \in DOMAIN todo' : /\ gen' = far'.gen
                                        /\ todo'[k][1] \in Range(kids') /\ todo'[k][2] \in Made(far'.gen)
             /\ Range(pending') \subseteq Range(kids')
             /\ pending' # <<>> => gen' = far'.gen
  BY <1>e, Nothing
<1>4. CASE Start
  <2>1. far' = far /\ asked' = asked /\ todo' = <<>> /\ pending' = <<>>
    BY <1>4 DEF Start, Idle, history
  <2> QED
    BY <1>1, <1>e, <2>1, LatestStays DEF Latest
<1>5. CASE Ask
  <2>1. pc = "ask" /\ pc' = "record" /\ UNCHANGED <<gen, R, far>> /\ gen \in Nat /\ gen < SCREEN_FROM
    BY <1>5, <1>2, EvolveAssumption, BreedingAssumption, SMTT(30) DEF Ask, Typed
  <2>2. /\ asked' = IF gen < Len(asked) THEN asked ELSE Append(asked, kids')
        /\ Ids(todo') \cup Range(pending') = Range(kids') \ DOMAIN R
        /\ Ids(todo') = SetAside(scr', Pending(kids', R), R, gen)
        /\ pending' \in Seq(Designs)
    BY <1>5, <1>2, AskDoes DEF Ids
  <2>3. asked' = asked \/ Len(asked) = far.gen
    BY <1>n, <2>2
  <2>4. SetAside(scr', Pending(kids', R), R, gen) = {}
    BY <2>1, NoneAside
  <2>5. Ids(todo') = {}
    BY <2>2, <2>4
  <2>6. DOMAIN todo' = {}
    BY <2>5 DEF Ids
  <2>7. Range(pending') \subseteq Range(kids') \ DOMAIN R
    BY <2>2
  <2>8. ASSUME pending' # <<>>
        PROVE  gen = far.gen
    <3>1. Range(pending') # {}
      <4>1. Len(pending') \in Nat \ {0} /\ DOMAIN pending' = 1 .. Len(pending')
        BY <2>2, <2>8, EmptySeq, LenProperties
      <4>2. pending'[1] \in Range(pending')
        BY <4>1 DEF Range
      <4> QED
        BY <4>2
    <3>2. SUFFICES ASSUME gen # far.gen PROVE FALSE
      OBVIOUS
    <3>3. gen \in 0 .. far.gen - 1 /\ gen < Len(asked)
      BY <1>n, <3>2
    <3>4. Range(asked[gen + 1]) \subseteq DOMAIN Truth /\ Truth = R
      BY <1>3, <2>1, <3>3 DEF Past, Truth
    <3>5. PICK P2, S2 : Present(P2, S2)'
      BY <1>1 DEF Replays, Replayed
    <3>6. kids' = asked[gen + 1]
      BY <2>1, <2>2, <3>3, <3>5 DEF Present
    <3> QED
      BY <2>7, <3>1, <3>4, <3>6
  <2>9. /\ far'.R \in Recs /\ Agrees(far'.R, Truth') /\ Range(far'.pop) \subseteq DOMAIN far'.R
        /\ \A i \in DOMAIN Truth' \ DOMAIN far'.R : /\ Len(asked') = far'.gen + 1
                                                    /\ i \in Range(asked'[far'.gen + 1])
                                                    /\ Truth'[i] \in Made(far'.gen)
    BY <1>1, <2>1, <2>3, LatestStays
  <2> QED
    BY <2>1, <2>6, <2>7, <2>8, <2>9 DEF Latest
<1>6. CASE GiveUp
  <2>1. UNCHANGED <<far, asked, todo, pending, kids, gen>>
    BY <1>6 DEF GiveUp, history
  <2> QED
    BY <1>1, <2>1, LatestStays DEF Latest
<1>7. CASE SaveOne
  <2>1. UNCHANGED <<far, asked, pending, kids, gen>>
    BY <1>7 DEF SaveOne
  <2>2. \A k \in DOMAIN todo' : k + 1 \in DOMAIN todo /\ todo'[k] = todo[k + 1]
    BY <1>7, <1>2, SavedRecs
  <2>3. \A k \in DOMAIN todo' : /\ gen' = far'.gen
                                /\ todo'[k][1] \in Range(kids') /\ todo'[k][2] \in Made(far'.gen)
    BY <2>1, <2>2 DEF Latest
  <2> QED
    BY <1>1, <2>1, <2>3, LatestStays DEF Latest
<1>8. CASE Measure
  <2>1. UNCHANGED <<far, asked, kids, gen>> /\ pending # <<>> /\ pending' = <<>>
    BY <1>8 DEF Measure, history
  <2>2. gen = far.gen /\ Range(pending) \subseteq Range(kids)
    BY <2>1 DEF Latest
  <2>3. Again(pending, R) = {}
    BY <1>2 DEF Again, Alive, Ungated
  <2>4. \A k \in DOMAIN todo' : /\ todo'[k][1] \in Range(pending)
                                /\ \E x \in Readings \cup {Dead} : todo'[k][2] = Measured(x, gen, R)
    BY <1>8, <1>2, <2>3, Batch
  <2>5. \A k \in DOMAIN todo' : todo'[k][2] \in Made(gen)
    BY <2>4, MeasuredUngated DEF Made
  <2> QED
    BY <1>1, <2>1, <2>2, <2>4, <2>5, Nothing, LatestStays DEF Latest
<1>9. CASE Select
  <2>1. /\ pc = "record" /\ pc' \in {"done", "ask"} /\ R' = R /\ asked' = asked
        /\ pop' = Survivors(gen, pop, kids, R) /\ todo = <<>> /\ pending = <<>>
        /\ todo' = <<>> /\ pending' = <<>>
        /\ gen < far.gen => far' = far
        /\ ~(gen < far.gen) => far'.R = R /\ far'.pop = pop'
    BY <1>9 DEF Select
  <2>2. CASE gen < far.gen
    BY <1>1, <1>e, <2>1, <2>2, LatestStays DEF Latest
  <2>3. CASE ~(gen < far.gen)
    <3>1. far'.R = R /\ far'.pop = pop' /\ Truth' = R
      BY <2>1, <2>3 DEF Truth
    <3>2. Range(kids) \subseteq DOMAIN R
      BY <1>3, <2>1, Nothing DEF Present, Ids
    <3>3. Range(pop') \subseteq DOMAIN R /\ R \in Recs
      BY <1>2, <2>1, <3>2, SurvivorsAll DEF Typed
    <3>4. Agrees(R, R)
      BY AgreesWithItself
    <3> QED
      BY <1>e, <2>1, <3>1, <3>3, <3>4 DEF Latest
  <2> QED
    BY <2>2, <2>3
<1>10. CASE Crash
  <2>1. far' = far /\ asked' = asked /\ todo' = <<>> /\ pending' = <<>>
    BY <1>10 DEF Crash, Idle, history
  <2> QED
    BY <1>1, <1>e, <2>1, LatestStays DEF Latest
<1>11. CASE CrashWriting
  <2>1. far' = far /\ asked' = asked /\ todo' = <<>> /\ pending' = <<>>
    BY <1>11 DEF CrashWriting, Idle, history
  <2> QED
    BY <1>1, <1>e, <2>1, LatestStays DEF Latest
<1>12. CASE UNCHANGED vars
  <2>1. UNCHANGED <<far, asked, todo, pending, kids, gen>>
    BY <1>12 DEF vars, process, history
  <2> QED
    BY <1>1, <2>1, LatestStays DEF Latest
<1>13. CASE Over
  BY <1>12, <1>13 DEF Over
<1>14. \/ Start \/ Ask \/ GiveUp \/ SaveOne \/ Measure \/ Select \/ Crash \/ CrashWriting
       \/ Over \/ UNCHANGED vars
  BY DEF Next
<1> QED
  BY ONLY <1>14, <1>4, <1>5, <1>6, <1>7, <1>8, <1>9, <1>10, <1>11, <1>12, <1>13
-----------------------------------------------------------------------------
(* The uninterrupted run computes what this one does: EvolveRun extends the *)
(* same Breeding.                                                          *)
LEMMA RunRanked == \A s, Q : Run!Ranked(s, Q) = Ranked(s, Q)
  BY ZenonT(60) DEF Run!Ranked, Ranked, Run!Listed, Listed, Run!Alive, Alive, Run!Range, Range,
               Run!Cardinality, Cardinality

LEMMA RunBred == \A p, S : Run!Bred(p, S) = Bred(p, S)
  BY Zenon DEF Run!Child, Child, Run!Bred, Bred, Run!Range, Range, Run!Min, Min

LEMMA RunKids ==
    \A g, p, S, Q : Run!Kids(g, p, S, Q) = Kids(g, p, S, Q) /\ Run!Barren(g, p, Q) = Barren(g, p, Q)
  BY RunRanked, RunBred DEF Run!Kids, Kids, Run!Barren, Barren, Run!Founders, Founders

LEMMA RunSurvivors == \A g, p, k, Q : Run!Survivors(g, p, k, Q) = Survivors(g, p, k, Q)
  BY RunRanked DEF Run!Survivors, Survivors

LEMMA RunFirstsIn == \A s, T : Run!FirstsIn(s, T) = FirstsIn(s, T)
  BY Zenon DEF Run!FirstsIn, FirstsIn, Run!Listed, Listed, Run!Cardinality, Cardinality

LEMMA RunPending == \A k, Q : Run!Pending(k, Q) = Pending(k, Q) /\ Run!Range(k) = Range(k)
  BY RunFirstsIn DEF Run!Pending, Pending, Run!Range, Range

LEMMA RunSetAside == \A s, l, Q, g : Run!SetAside(s, l, Q, g) = SetAside(s, l, Q, g)
  BY Zenon DEF Run!SetAside, SetAside, Run!Beaten, Beaten, Run!Audited, Audited, Run!Earlier, Earlier,
               Run!Alive, Alive, Run!Predicted, Predicted, Run!Range, Range, Run!Min, Min

LEMMA RunScreen ==
    \A s, l, Q, g : /\ Run!Screened(s, l, Q, g) = Screened(s, l, Q, g)
                    /\ Run!Kept(s, l, Q, g) = Kept(s, l, Q, g)
  BY RunFirstsIn, RunSetAside, RunPending DEF Run!Screened, Screened, Run!Kept, Kept

LEMMA RunRefitted == \A s, l, Q, g : Run!Refitted(s, l, Q, g) = Refitted(s, l, Q, g)
  BY Zenon DEF Run!Refitted, Refitted, Run!Earlier, Earlier, Run!Alive, Alive, Run!NoModel, NoModel,
               Run!Cardinality, Cardinality

LEMMA RunMeasured == \A x, g, Q : Run!Measured(x, g, Q) = Measured(x, g, Q) /\ Run!Dead = Dead
  BY Zenon DEF Run!Measured, Measured, Run!Dead, Dead, Run!Gated, Gated, Run!Alive, Alive,
               Run!Cardinality, Cardinality

LEMMA RunAgain == \A l, Q : Run!Again(l, Q) = Again(l, Q)
  BY DEF Run!Again, Again, Run!Alive, Alive

LEMMA RunInit == Init => Run!Init
  BY DEF Init, Run!Init, NoModel, Run!NoModel

(* The first attempt to choose a generation's survivors makes that          *)
(* generation: its readings are what any attempt read.                     *)
LEMMA RunGeneration ==
    ASSUME FASTGATE = 0, G < SCREEN_FROM, Cuts \subseteq {MaxCrashes}, Replays, Latest, Select,
           ~(gen < far.gen)
    PROVE  Run!Generation
<1> DEFINE K == Run!Kids(far.gen, far.pop, far.seen, far.R)
           new == Run!Pending(K, far.R)
           model == Run!Refitted(far.scr, new, far.R, far.gen)
           screened == Run!Screened(model, new, far.R, far.gen)
           kept == Run!Kept(model, new, far.R, far.gen)
           again == Run!Again(kept, far.R)
           read == [i \in Run!Range(kept) |->
                      CHOOSE x \in Readings \cup {Dead} : R[i] = Measured(x, far.gen, far.R)]
           reread == [i \in again |-> Dead]
           rec == Run!Recorded(again, screened, kept, read, reread)
<1>t. Typed /\ Ungated
  BY DEF Replays
<1>p. PICK P, S : Past(P, S, far.gen, asked, Truth) /\ Present(P, S)
  BY DEF Replays, Replayed
<1>s. /\ pc = "record" /\ R' = R /\ seen' = seen /\ Truth = R /\ todo = <<>> /\ pending = <<>>
      /\ pop' = Survivors(gen, pop, kids, R)
      /\ far' = [gen |-> gen + 1, pop |-> pop', seen |-> seen, R |-> R,
                 scr |-> Refitted(far.scr, Pending(kids, far.R), far.R, gen)]
  BY DEF Select, Truth
<1>1. /\ gen = far.gen /\ gen \in Nat /\ gen <= G /\ gen < SCREEN_FROM
      /\ Len(asked) = far.gen + 1 /\ kids = asked[far.gen + 1]
      /\ pop = far.pop /\ seen = far.seen \cup Range(kids)
  <2>1. /\ far.gen \in Nat /\ Len(asked) \in {far.gen, far.gen + 1} /\ gen \in 0 .. far.gen
        /\ gen < Len(asked) /\ kids = asked[gen + 1] /\ pop = P[gen] /\ seen = S[gen] \cup Range(kids)
        /\ far.pop = P[far.gen] /\ far.seen = S[far.gen]
    BY <1>p, <1>s DEF Past, Present
  <2>2. gen = far.gen
    BY <2>1
  <2>3. gen <= G /\ G \in Nat /\ SCREEN_FROM \in Nat
    BY <1>t, <1>s, EvolveAssumption, BreedingAssumption DEF Typed
  <2> QED
    BY <2>1, <2>2, <2>3
<1>2. kids \in Seq(Designs) /\ R \in Recs /\ far.R \in Recs /\ Range(kids) \subseteq DOMAIN R
  BY <1>t, <1>p, <1>s, Nothing DEF Typed, Latest, Present, Ids
<1>3. ~Run!Barren(far.gen, far.pop, far.R) /\ K = kids
  <2>1. ~Barren(far.gen, P[far.gen], R) /\ asked[far.gen + 1] = Kids(far.gen, P[far.gen], S[far.gen], R)
    BY <1>p, <1>s, <1>1 DEF Past
  <2>2. ~Barren(far.gen, far.pop, R) /\ kids = Kids(far.gen, far.pop, far.seen, R)
    BY <1>p, <1>1, <2>1 DEF Present
  <2>3. Agrees(far.R, R) /\ Range(far.pop) \subseteq DOMAIN far.R
    BY <1>s DEF Latest
  <2>4. /\ Barren(far.gen, far.pop, far.R) = Barren(far.gen, far.pop, R)
        /\ Kids(far.gen, far.pop, far.seen, far.R) = Kids(far.gen, far.pop, far.seen, R)
    BY <2>3, KidsAgree
  <2> QED
    BY <2>2, <2>4, RunKids
<1> HIDE DEF K
<1>4. new = Pending(kids, far.R) /\ new \in Seq(Designs) /\ Range(new) = Range(kids) \ DOMAIN far.R
  BY <1>2, <1>3, RunPending, PendingAll
<1> HIDE DEF new
<1>5. model = Refitted(far.scr, new, far.R, far.gen)
  BY RunRefitted
<1> HIDE DEF model
<1>6. SetAside(model, new, far.R, far.gen) = {}
  BY <1>1, NoneAside
<1>7. Run!Range(screened) = {} /\ Run!Range(kept) = Range(kids) \ DOMAIN far.R
  <2>1. Range(Screened(model, new, far.R, far.gen)) = {} /\ Range(Kept(model, new, far.R, far.gen)) = Range(new)
    BY <1>4, <1>6, ScreenDivides
  <2> QED
    BY <1>4, <2>1, RunScreen, RunPending
<1> HIDE DEF screened, kept
<1>8. again = {}
  <2>1. Agrees(far.R, R)
    BY <1>s DEF Latest
  <2>2. \A i \in DOMAIN far.R : far.R[i].gated = 0
    BY <1>t, <2>1 DEF Agrees, Ungated
  <2> QED
    BY <2>2, RunAgain DEF Again, Alive
<1> HIDE DEF again
<1>9. \A i \in Run!Range(kept) : \E x \in Readings \cup {Dead} : R[i] = Measured(x, far.gen, far.R)
  <2>1. \A i \in Run!Range(kept) : R[i] \in Made(far.gen)
    BY <1>s, <1>2, <1>7 DEF Latest
  <2> QED
    BY <2>1, MeasuredUngated DEF Made
<1>10. /\ read \in [Run!Range(kept) -> Readings \cup {Run!Dead}]
       /\ \A i \in Run!Range(kept) : R[i] = Measured(read[i], far.gen, far.R)
  BY <1>9, RunMeasured
<1>11. reread \in [again -> Readings \cup {Run!Dead}]
  BY <1>8
<1> HIDE DEF read, reread
<1>12. rec = R
  <2> DEFINE D == DOMAIN far.R \cup Run!Range(screened) \cup Run!Range(kept)
  <2>1. D = DOMAIN R
    <3>1. DOMAIN far.R \subseteq DOMAIN R
      BY <1>s DEF Latest, Agrees
    <3>2. \A i \in DOMAIN R \ DOMAIN far.R : i \in Range(kids)
      BY <1>s, <1>1 DEF Latest
    <3> QED
      BY <1>2, <1>7, <3>1, <3>2
  <2>2. DOMAIN rec = D
    BY DEF Run!Recorded
  <2>3. ASSUME NEW i \in D
        PROVE  rec[i] = R[i]
    <3>1. i \notin Run!Range(screened) /\ i \notin again
      BY <1>7, <1>8
    <3>2. rec[i] = IF i \in Run!Range(kept) THEN Run!Measured(read[i], far.gen, far.R) ELSE far.R[i]
      BY <3>1 DEF Run!Recorded
    <3>3. i \notin Run!Range(kept) => i \in DOMAIN far.R
      BY <3>1
    <3>4. i \in DOMAIN far.R => far.R[i] = R[i]
      BY <1>s DEF Latest, Agrees
    <3> QED
      BY <1>10, <3>2, <3>3, <3>4, RunMeasured
  <2>4. R = [i \in DOMAIN R |-> R[i]] /\ rec = [i \in DOMAIN rec |-> rec[i]]
    BY <1>2, RecsAre DEF Run!Recorded
  <2> QED
    BY <2>1, <2>2, <2>3, <2>4
<1> HIDE DEF rec
<1>13. /\ far'.gen = far.gen + 1 /\ far.gen <= G
       /\ far'.R = rec /\ far'.pop = Run!Survivors(far.gen, far.pop, K, rec)
       /\ far'.seen = far.seen \cup Run!Range(K) /\ far'.scr = model
  BY <1>s, <1>1, <1>3, <1>4, <1>5, <1>12, RunSurvivors, RunPending
<1> QED
  BY <1>3, <1>10, <1>11, <1>13 DEF Run!Generation, K, new, model, screened, kept, again, rec

LEMMA RunStep ==
    ASSUME FASTGATE = 0, G < SCREEN_FROM, Cuts \subseteq {MaxCrashes}, Replays, Latest, [Next]_vars
    PROVE  [Run!Next]_(Run!vars)
<1>1. far' = far => Run!vars' = Run!vars
  BY DEF Run!vars
<1>2. CASE Select /\ ~(gen < far.gen)
  BY <1>2, RunGeneration DEF Run!Next
<1>3. CASE ~(Select /\ ~(gen < far.gen))
  BY <1>1, <1>3 DEF Next, Start, Ask, GiveUp, SaveOne, Measure, Select, Crash, CrashWriting, Over,
                    vars, history
<1> QED
  BY <1>2, <1>3

LEMMA LatestInit ==
    ASSUME Init
    PROVE  Latest
<1>1. /\ far.R = <<>> /\ far.pop = <<>> /\ todo = <<>> /\ pending = <<>> /\ pc = "down" /\ db = <<>>
  BY DEF Init
<1>2. Truth = Load /\ Good = {}
  BY <1>1, Nothing DEF Truth, Good
<1>3. Typed
  BY TypedInit
<1>4. DOMAIN Truth = {}
  BY <1>2, <1>3, LoadAll DEF GoodIds, Typed
<1> QED
  BY <1>1, <1>4, NoRecs, Nothing DEF Latest, Agrees

(* However often it is killed, the run makes generation after generation    *)
(* what an uninterrupted process with its seed and its readings makes: the  *)
(* same children, records and survivors.  The fast gate and the screen are  *)
(* off, and a line is cut by the last crash only.                           *)
THEOREM SomeUninterruptedRunAlways ==
    ASSUME FASTGATE = 0, G < SCREEN_FROM, Cuts \subseteq {MaxCrashes}
    PROVE  Spec => SomeUninterruptedRun
<1>1. Init => Replays /\ Latest
  BY ReplaysInit, LatestInit
<1>2. Replays /\ Latest /\ [Next]_vars => (Replays /\ Latest)'
  BY ReplaysStep, LatestStep
<1>3. Replays /\ Latest /\ [Next]_vars => [Run!Next]_(Run!vars)
  BY RunStep
<1> QED
  BY <1>1, <1>2, <1>3, RunInit, PTL DEF Spec, SomeUninterruptedRun, Run!Spec
=============================================================================

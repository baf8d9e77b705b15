---------------------------- MODULE Genome_proofs ----------------------------
(***************************************************************************)
(* What crossing, borrowing and mutation make of any genomes, by TLAPS:    *)
(* every genome bred is one random_genome could draw, no two things the    *)
(* engine decodes share an opcode, the run-time compilers built in have    *)
(* the opcodes they write, and two repairs are always enough.              *)
(***************************************************************************)
EXTENDS Genome, FiniteSetTheorems, SequenceTheorems, TLAPS

-----------------------------------------------------------------------------
(* ---- Kept: a list's elements that are in a set, in its order ---- *)

At(s, T)   == {i \in DOMAIN s : s[i] \in T}
Rank(A, i) == Cardinality({j \in A : j <= i})

(* The rank of a place among the places kept counts them one by one.       *)
Ranked(A, n) ==
    /\ IsFiniteSet(A) /\ Cardinality(A) \in Nat
    /\ \A i \in A : Rank(A, i) \in 1..Cardinality(A) /\ Rank(A, i) <= i
    /\ \A i, j \in A : i < j => Rank(A, i) < Rank(A, j)
    /\ \A k \in 1..Cardinality(A) : \E i \in A : Rank(A, i) = k

LEMMA RankCounts ==
    ASSUME NEW n \in Nat, NEW A \in SUBSET (1..n)
    PROVE  Ranked(A, n)
<1>1. IsFiniteSet(A) /\ Cardinality(A) \in Nat
  <2>1. IsFiniteSet(1..n)
    BY FS_Interval
  <2> QED
    BY <2>1, FS_Subset, FS_CardinalityType
<1>2. ASSUME NEW i \in A
      PROVE  /\ IsFiniteSet({j \in A : j <= i})
             /\ Rank(A, i) \in Nat
             /\ Rank(A, i) \in 1..Cardinality(A) /\ Rank(A, i) <= i
  <2> DEFINE B == {j \in A : j <= i}
  <2>1. IsFiniteSet(B) /\ Cardinality(B) <= Cardinality(A) /\ Cardinality(B) \in Nat
    <3>1. B \in SUBSET A
      OBVIOUS
    <3> QED
      BY <1>1, <3>1, FS_Subset, FS_CardinalityType
  <2>2. Cardinality(B) <= i
    <3>1. i \in Int /\ 1 \in Int /\ ~(1 > i) /\ i - 1 + 1 = i
      OBVIOUS
    <3>2. IsFiniteSet(1..i) /\ Cardinality(1..i) = i
      BY <3>1, FS_Interval
    <3>3. \A j \in B : j \in 1..n /\ j <= i
      OBVIOUS
    <3>4. \A j \in B : j \in 1..i
      BY <3>3
    <3>5. B \in SUBSET (1..i)
      BY <3>4
    <3> QED
      BY <3>2, <3>5, FS_Subset
  <2>3. Cardinality(B) # 0
    <3>1. i \in B
      OBVIOUS
    <3> QED
      BY <2>1, <3>1, FS_EmptySet
  <2> QED
    BY <1>1, <2>1, <2>2, <2>3 DEF Rank
<1>3. ASSUME NEW i \in A, NEW j \in A, i < j
      PROVE  Rank(A, i) < Rank(A, j)
  <2> DEFINE B == {k \in A : k <= i}
             C == {k \in A : k <= j}
  <2>1. B \in SUBSET C /\ B # C
    <3>1. j \in C /\ j \notin B
      BY <1>3
    <3>2. \A k \in A : k \in Int
      OBVIOUS
    <3>3. \A k \in A : k <= i => k <= j
      BY <1>3, <3>2
    <3>4. B \in SUBSET C
      BY <3>3
    <3> QED
      BY <3>1, <3>4
  <2>2. IsFiniteSet(C)
    BY <1>2
  <2>3. Cardinality(B) <= Cardinality(C) /\ Cardinality(B) # Cardinality(C)
    BY <2>1, <2>2, FS_Subset
  <2>4. Cardinality(B) \in Nat /\ Cardinality(C) \in Nat
    BY <1>2 DEF Rank
  <2> QED
    BY <2>3, <2>4 DEF Rank
<1>4. \A k \in 1..Cardinality(A) : \E i \in A : Rank(A, i) = k
  <2> DEFINE f == [i \in A |-> Rank(A, i)]
             U == 1..Cardinality(A)
  <2>1. f \in Injection(A, U)
    <3>1. f \in [A -> U]
      BY <1>2
    <3>2. ASSUME NEW i \in A, NEW j \in A, f[i] = f[j]
          PROVE  i = j
      <4>1. i \in Int /\ j \in Int
        OBVIOUS
      <4>2. Rank(A, i) = Rank(A, j) /\ Rank(A, i) \in Nat
        BY <3>2, <1>2
      <4>3. ~(i < j)
        BY <4>2, <1>3
      <4>4. ~(j < i)
        BY <4>2, <1>3
      <4> QED
        BY <4>1, <4>3, <4>4
    <3> QED
      BY <3>1, <3>2 DEF Injection, IsInjective
  <2>2. IsFiniteSet(U) /\ Cardinality(U) = Cardinality(A)
    <3>1. 1 \in Int /\ Cardinality(A) \in Int
      BY <1>1
    <3>2. (IF 1 > Cardinality(A) THEN 0 ELSE Cardinality(A) - 1 + 1) = Cardinality(A)
      BY <1>1
    <3> QED
      BY <3>1, <3>2, FS_Interval
  <2>3. f \in Surjection(A, U)
    BY <2>1, <2>2, FS_Injection
  <2> QED
    BY <2>3 DEF Surjection
<1> QED
  BY <1>1, <1>2, <1>3, <1>4 DEF Ranked

(* The places Kept takes, one after another.                               *)
Places(s, T) == [k \in 1..Cardinality(At(s, T)) |->
                    CHOOSE i \in At(s, T) : Rank(At(s, T), i) = k]

KeptLaw(s, T, S) ==
    LET A == At(s, T)
        n == Cardinality(A)
        f == Places(s, T)
    IN  /\ n \in Nat
        /\ f \in [1..n -> A]
        /\ Kept(s, T) = [k \in 1..n |-> s[f[k]]]
        /\ Kept(s, T) \in Seq(S) /\ Len(Kept(s, T)) = n
        /\ \A k \in 1..n : Kept(s, T)[k] \in T
        /\ \A j, k \in 1..n : j # k => f[j] # f[k]
        /\ \A i \in A : \E k \in 1..n : k <= i /\ f[k] = i

LEMMA KeptKeeps ==
    ASSUME NEW S, NEW s \in Seq(S), NEW T
    PROVE  KeptLaw(s, T, S)
<1> DEFINE A == At(s, T)
           n == Cardinality(A)
           f == Places(s, T)
<1>1. A \in SUBSET (1..Len(s)) /\ Len(s) \in Nat /\ \A i \in A : s[i] \in S /\ s[i] \in T
  BY DEF At
<1>2. Ranked(A, Len(s))
  BY <1>1, RankCounts
<1>3. n \in Nat
  BY <1>2 DEF Ranked
<1>4. ASSUME NEW k \in 1..n
      PROVE  f[k] \in A /\ Rank(A, f[k]) = k
  <2>1. \E i \in A : Rank(A, i) = k
    BY <1>2 DEF Ranked
  <2>2. f[k] = CHOOSE i \in A : Rank(A, i) = k
    BY DEF Places
  <2> QED
    BY <2>1, <2>2
<1>5. f \in [1..n -> A]
  <2>1. f = [k \in 1..n |-> f[k]]
    BY DEF Places
  <2> QED
    BY <1>4, <2>1
<1>6. Kept(s, T) = [k \in 1..n |-> s[f[k]]]
  <2>1. \A k \in 1..n : f[k] = CHOOSE i \in A : Cardinality({j \in A : j <= i}) = k
    BY DEF Places, Rank
  <2>2. Kept(s, T) = [k \in 1..n |-> s[CHOOSE i \in A : Cardinality({j \in A : j <= i}) = k]]
    BY DEF Kept, At
  <2> HIDE DEF f, A, n
  <2> QED
    BY <2>1, <2>2
<1>7. \A j, k \in 1..n : j # k => f[j] # f[k]
  <2> SUFFICES ASSUME NEW j \in 1..n, NEW k \in 1..n, j # k
               PROVE  f[j] # f[k]
    OBVIOUS
  <2>1. Rank(A, f[j]) = j /\ Rank(A, f[k]) = k
    BY <1>4
  <2> HIDE DEF f, A, n
  <2> QED
    BY <2>1
<1>8. ASSUME NEW i \in A
      PROVE  \E k \in 1..n : k <= i /\ f[k] = i
  <2> DEFINE k == Rank(A, i)
  <2>1. k \in 1..n /\ k <= i
    BY <1>2 DEF Ranked
  <2>2. f[k] \in A /\ Rank(A, f[k]) = k
    BY <1>4, <2>1
  <2>3. \A a, b \in A : a < b => Rank(A, a) < Rank(A, b)
    BY <1>2 DEF Ranked
  <2>4. i \in Int /\ f[k] \in Int /\ k \in Int
    BY <1>1, <2>1, <2>2
  <2> HIDE DEF f, A
  <2>5. f[k] = i
    <3>1. ~(f[k] < i)
      BY <2>2, <2>3, <2>4
    <3>2. ~(i < f[k])
      BY <2>2, <2>3, <2>4
    <3> QED
      BY <3>1, <3>2, <2>4
  <2> QED
    BY <2>1, <2>5
<1>9. /\ Kept(s, T) \in Seq(S) /\ Len(Kept(s, T)) = n
      /\ \A k \in 1..n : Kept(s, T)[k] \in T
  <2> HIDE DEF f, A, n
  <2>1. \A k \in 1..n : s[f[k]] \in S /\ s[f[k]] \in T
    BY <1>1, <1>5
  <2> QED
    BY <1>3, <1>6, <2>1
<1> QED
  BY <1>3, <1>5, <1>6, <1>7, <1>8, <1>9 DEF KeptLaw

(* Kept whole, a list is itself.                                           *)
LEMMA KeptAll ==
    ASSUME NEW S, NEW s \in Seq(S)
    PROVE  Kept(s, ToSet(s)) = s
<1> DEFINE T == ToSet(s)
           A == At(s, T)
           n == Len(s)
           f == Places(s, T)
<1>1. n \in Nat /\ DOMAIN s = 1..n
  OBVIOUS
<1>2. A = 1..n
  BY <1>1 DEF At, ToSet
<1>3. Cardinality(A) = n
  <2>1. 1 \in Int /\ n \in Int /\ (IF 1 > n THEN 0 ELSE n - 1 + 1) = n
    BY <1>1
  <2> HIDE DEF n
  <2> QED
    BY <1>2, <2>1, FS_Interval
<1>4. \A i \in 1..n : Rank(A, i) = i
  <2> SUFFICES ASSUME NEW i \in 1..n
               PROVE  Rank(A, i) = i
    OBVIOUS
  <2>1. i \in Int /\ 1 \in Int /\ (IF 1 > i THEN 0 ELSE i - 1 + 1) = i
    BY <1>1
  <2>2. {j \in A : j <= i} = 1..i
    BY <1>1, <1>2
  <2>3. Cardinality(1..i) = i
    BY <2>1, FS_Interval
  <2> QED
    BY <2>2, <2>3 DEF Rank
<1>5. \A k \in 1..n : f[k] = k
  <2> SUFFICES ASSUME NEW k \in 1..n
               PROVE  f[k] = k
    OBVIOUS
  <2>1. f[k] = CHOOSE i \in A : Rank(A, i) = k
    BY <1>3 DEF Places
  <2> HIDE DEF A, f
  <2> QED
    BY <1>2, <1>4, <2>1
<1>6. Kept(s, T) = [k \in 1..n |-> s[f[k]]]
  <2>1. KeptLaw(s, T, S)
    BY KeptKeeps
  <2> QED
    BY <1>3, <2>1 DEF KeptLaw
<1> HIDE DEF f, T, n
<1>7. Kept(s, T) = [k \in 1..n |-> s[k]]
  BY <1>5, <1>6
<1>8. s = [k \in 1..n |-> s[k]]
  BY <1>1 DEF n
<1> QED
  BY <1>7, <1>8 DEF T

(* A list without repetition, all of it in C.                              *)
Once(S, s, C) == s \in Seq(S) /\ IsInjective(s) /\ ToSet(s) \subseteq C

LEMMA Joined ==
    ASSUME NEW S, NEW s, NEW t, NEW C, NEW D, Once(S, s, C), Once(S, t, D), C \cap D = {}
    PROVE  /\ Once(S, s \o t, C \cup D)
           /\ Len(s \o t) = Len(s) + Len(t) /\ Len(s) \in Nat /\ Len(t) \in Nat
<1> DEFINE u == s \o t
<1>1. /\ s \in Seq(S) /\ t \in Seq(S)
      /\ \A i \in 1..Len(s) : s[i] \in C
      /\ \A i \in 1..Len(t) : t[i] \in D
      /\ \A i, j \in 1..Len(s) : s[i] = s[j] => i = j
      /\ \A i, j \in 1..Len(t) : t[i] = t[j] => i = j
  <2>1. s \in Seq(S) /\ t \in Seq(S)
    BY DEF Once
  <2>2. DOMAIN s = 1..Len(s) /\ DOMAIN t = 1..Len(t)
    BY <2>1
  <2> QED
    BY <2>1, <2>2 DEF Once, ToSet, IsInjective
<1>2. /\ u \in Seq(S) /\ Len(u) = Len(s) + Len(t) /\ DOMAIN u = 1..Len(u)
      /\ \A i \in 1..Len(u) : u[i] = IF i <= Len(s) THEN s[i] ELSE t[i - Len(s)]
  BY <1>1
<1>3. ASSUME NEW i \in 1..Len(u)
      PROVE  \/ i \in 1..Len(s) /\ u[i] = s[i] /\ u[i] \in C
             \/ i - Len(s) \in 1..Len(t) /\ u[i] = t[i - Len(s)] /\ u[i] \in D
  BY <1>1, <1>2
<1>5. Len(s) \in Nat /\ Len(t) \in Nat
  BY <1>1
<1>4. ASSUME NEW i \in 1..Len(u), NEW j \in 1..Len(u), u[i] = u[j]
      PROVE  i = j
  <2>1. i \in Int /\ j \in Int /\ Len(s) \in Int
    BY <1>1
  <2>2. ~(u[i] \in C /\ u[i] \in D)
    OBVIOUS
  <2>3. CASE u[i] \in C
    <3>1. /\ i \in 1..Len(s) /\ u[i] = s[i]
          /\ j \in 1..Len(s) /\ u[j] = s[j]
      BY <1>3, <1>4, <2>2, <2>3
    <3> QED
      BY <1>1, <1>4, <3>1
  <2>4. CASE u[i] \in D
    <3>1. /\ i - Len(s) \in 1..Len(t) /\ u[i] = t[i - Len(s)]
          /\ j - Len(s) \in 1..Len(t) /\ u[j] = t[j - Len(s)]
      BY <1>3, <1>4, <2>2, <2>4
    <3>2. i - Len(s) = j - Len(s)
      BY <1>1, <1>4, <3>1
    <3> QED
      BY <2>1, <3>2
  <2> QED
    BY <1>3, <2>3, <2>4
<1> QED
  <2>1. ToSet(u) \subseteq C \cup D
    BY <1>2, <1>3 DEF ToSet
  <2>2. IsInjective(u)
    BY <1>2, <1>4 DEF IsInjective
  <2> QED
    BY <1>2, <1>5, <2>1, <2>2 DEF Once

(* Kept repeats nothing, and keeps all there is in the set.                *)
LEMMA KeptOnce ==
    ASSUME NEW S, NEW s \in Seq(S), IsInjective(s), NEW T
    PROVE  Once(S, Kept(s, T), ToSet(s) \cap T) /\ ToSet(s) \cap T \subseteq ToSet(Kept(s, T))
<1> DEFINE A == At(s, T)
           n == Cardinality(A)
           f == Places(s, T)
           t == Kept(s, T)
<1>1. /\ n \in Nat /\ f \in [1..n -> A] /\ t = [k \in 1..n |-> s[f[k]]]
      /\ t \in Seq(S) /\ Len(t) = n /\ DOMAIN t = 1..n
      /\ \A k \in 1..n : t[k] \in T
      /\ \A j, k \in 1..n : j # k => f[j] # f[k]
      /\ \A i \in A : \E k \in 1..n : k <= i /\ f[k] = i
  BY KeptKeeps DEF KeptLaw
<1>2. /\ A \subseteq DOMAIN s /\ \A i \in DOMAIN s : i \in A <=> s[i] \in T
      /\ \A i, j \in A : s[i] = s[j] => i = j
  BY DEF At, IsInjective
<1> HIDE DEF A, n, f, t
<1>3. \A j, k \in 1..n : t[j] = t[k] => j = k
  BY <1>1, <1>2
<1>4. IsInjective(t)
  BY <1>1, <1>3 DEF IsInjective
<1>5. \A k \in 1..n : t[k] \in ToSet(s) \cap T
  BY <1>1, <1>2 DEF ToSet
<1>6. ToSet(t) \subseteq ToSet(s) \cap T
  BY <1>1, <1>5 DEF ToSet
<1>7. ToSet(s) \cap T \subseteq ToSet(t)
  <2> SUFFICES ASSUME NEW i \in DOMAIN s, s[i] \in T
               PROVE  s[i] \in ToSet(t)
    BY DEF ToSet
  <2>1. PICK k \in 1..n : f[k] = i
    BY <1>1, <1>2
  <2>2. t[k] = s[i]
    BY <1>1, <2>1
  <2> QED
    BY <1>1, <2>2 DEF ToSet
<1> QED
  BY <1>1, <1>4, <1>6, <1>7 DEF Once, t

(* One list and what another has besides.                                  *)
LEMMA Fronted ==
    ASSUME NEW S, NEW s \in Seq(S), NEW t \in Seq(S), IsInjective(s), IsInjective(t)
    PROVE  LET u == s \o Kept(t, ToSet(t) \ ToSet(s))
           IN  /\ u \in Seq(S) /\ IsInjective(u)
               /\ ToSet(u) = ToSet(s) \cup ToSet(t)
               /\ Len(u) >= Len(s)
<1> DEFINE T == ToSet(t) \ ToSet(s)
           k == Kept(t, T)
           u == s \o k
<1>1. Once(S, s, ToSet(s))
  BY DEF Once
<1>2. Once(S, k, ToSet(t) \cap T) /\ ToSet(t) \cap T \subseteq ToSet(k)
  BY KeptOnce
<1>3. ToSet(s) \cap (ToSet(t) \cap T) = {} /\ ToSet(t) \cap T = T
  OBVIOUS
<1> HIDE DEF k
<1>4. /\ Once(S, u, ToSet(s) \cup (ToSet(t) \cap T))
      /\ Len(u) = Len(s) + Len(k) /\ Len(s) \in Nat /\ Len(k) \in Nat
  BY <1>1, <1>2, <1>3, Joined
<1>5. ToSet(s) \subseteq ToSet(u) /\ ToSet(k) \subseteq ToSet(u)
  <2>1. s \in Seq(S) /\ k \in Seq(S)
    BY <1>2 DEF Once
  <2>2. /\ DOMAIN u = 1..(Len(s) + Len(k)) /\ DOMAIN s = 1..Len(s) /\ DOMAIN k = 1..Len(k)
        /\ \A i \in 1..Len(s) : u[i] = s[i] /\ i \in 1..(Len(s) + Len(k))
        /\ \A i \in 1..Len(k) : u[Len(s) + i] = k[i] /\ Len(s) + i \in 1..(Len(s) + Len(k))
    BY <1>4, <2>1
  <2> HIDE DEF u
  <2> QED
    BY <2>2 DEF ToSet
<1> HIDE DEF u
<1>6. ToSet(u) = ToSet(s) \cup ToSet(t)
  BY <1>2, <1>3, <1>4, <1>5 DEF Once
<1>7. u \in Seq(S) /\ IsInjective(u)
  BY <1>4 DEF Once
<1>8. Len(u) >= Len(s)
  BY <1>4
<1> QED
  BY <1>6, <1>7, <1>8 DEF u, k

-----------------------------------------------------------------------------
(* ---- the free codes: no two of a list alike, none of them taken ---- *)

(* A list of codes without repetition, all of them in C.                   *)
Codes(s, C) == Once(Int, s, C)

LEMMA CodesJoined ==
    ASSUME NEW s, NEW t, NEW C, NEW D, Codes(s, C), Codes(t, D), C \cap D = {}
    PROVE  /\ Codes(s \o t, C \cup D)
           /\ Len(s \o t) = Len(s) + Len(t) /\ Len(s) \in Nat /\ Len(t) \in Nat
BY Joined DEF Codes

LEMMA RunCodes ==
    ASSUME NEW a \in Int, NEW b \in Int
    PROVE  Codes(Run(a, b), a..b) /\ (b >= a => Len(Run(a, b)) = b - a + 1)
<1> DEFINE n == IF b >= a THEN b - a + 1 ELSE 0
           r == Run(a, b)
<1>1. n \in Nat /\ r = [i \in 1..n |-> a + i - 1]
  BY DEF Run
<1> HIDE DEF r
<1>2. r \in Seq(Int) /\ Len(r) = n /\ DOMAIN r = 1..n
  BY <1>1
<1>3. ASSUME NEW i \in 1..n
      PROVE  r[i] \in a..b /\ r[i] = a + i - 1 /\ i \in Int
  BY <1>1
<1> HIDE DEF n
<1>4. IsInjective(r)
  <2> SUFFICES ASSUME NEW i \in 1..n, NEW j \in 1..n, r[i] = r[j]
               PROVE  i = j
    BY <1>2 DEF IsInjective
  <2> QED
    BY <1>3
<1>5. ToSet(r) \subseteq a..b
  BY <1>2, <1>3 DEF ToSet
<1>6. b >= a => n = b - a + 1
  BY DEF n
<1> QED
  BY <1>2, <1>4, <1>5, <1>6 DEF Codes, Once, r

(* What lies in four bands apart from one another.                        *)
Band(s, a, b) == s \in SUBSET (a..b)

LEMMA BandsApart ==
    ASSUME NEW AA, NEW BB, NEW CC, NEW DD, 
           Band(AA, 126, 127), Band(BB, 73, 95), Band(CC, 96, 123), Band(DD, 27, 67)
    PROVE  /\ AA \cap BB = {} /\ (AA \cup BB) \cap CC = {}
           /\ ((AA \cup BB) \cup CC) \cap DD = {}
BY DEF Band

(* The codes given out of, with n folds: by what the design leaves free.   *)
Free(n, spec, escape, first) ==
    ((({126, 127} \cup 73 + n..95) \cup (IF spec THEN 96..123 ELSE {}))
        \cup (IF escape THEN first..67 ELSE {}))

LEMMA SlotsAreFree ==
    ASSUME NEW h, NEW n \in 0..FoldMax, n = Len(h.folds)
    PROVE  /\ Codes(SuperSlots(h), Free(n, h.spec = {}, h.escape # 0, FirstFreed(h)))
           /\ Len(SuperSlots(h)) >= 2
           /\ h.escape # 0 => Len(SuperSlots(h)) >= 34
<1> DEFINE f == FirstFreed(h)
           A == <<126, 127>>
           B == Run(73 + n, 95)
           C == If(h.spec = {}, Run(96, 123))
           D == If(h.escape # 0, Run(f, 67))
           AA == {126, 127}
           BB == 73 + n..95
           CC == IF h.spec = {} THEN 96..123 ELSE {}
           DD == IF h.escape # 0 THEN f..67 ELSE {}
<1>1. f \in {27, 36} /\ f \in Int
  BY DEF FirstFreed
<1>2. Codes(A, AA) /\ Len(A) = 2
  BY DEF Codes, Once, ToSet, IsInjective
<1>3. Codes(B, BB)
  <2>1. 73 + n \in Int /\ 95 \in Int
    BY DEF FoldMax
  <2> QED
    BY <2>1, RunCodes
<1>0. Codes(<<>>, {}) /\ Len(<<>>) = 0
  BY DEF Codes, Once, ToSet, IsInjective
<1>4. Codes(C, CC)
  <2>1. 96 \in Int /\ 123 \in Int
    OBVIOUS
  <2>2. Codes(Run(96, 123), 96..123)
    BY <2>1, RunCodes
  <2> QED
    BY <1>0, <2>2 DEF If
<1>5. Codes(D, DD) /\ (h.escape # 0 => Len(D) >= 32)
  <2>0. f \in Int /\ 67 \in Int
    BY <1>1
  <2> HIDE DEF f
  <2>1. Codes(Run(f, 67), f..67) /\ (67 >= f => Len(Run(f, 67)) = 67 - f + 1)
    BY <2>0, RunCodes
  <2>2. 67 >= f /\ 67 - f + 1 >= 32
    BY <1>1
  <2> QED
    BY <1>0, <2>1, <2>2 DEF If
<1>7. Band(AA, 126, 127) /\ Band(BB, 73, 95) /\ Band(CC, 96, 123) /\ Band(DD, 27, 67)
  <2>1. n \in Int /\ n >= 0
    BY DEF FoldMax
  <2>2. \A c \in BB : c \in 73..95
    BY <2>1
  <2> HIDE DEF f
  <2>3. Band(AA, 126, 127) /\ Band(CC, 96, 123) /\ Band(DD, 27, 67)
    BY <1>1 DEF Band
  <2> QED
    BY <2>2, <2>3 DEF Band
<1>8. SuperSlots(h) = ((A \o B) \o C) \o D
  BY DEF SuperSlots
<1> HIDE DEF A, B, C, D, AA, BB, CC, DD
<1>6. /\ AA \cap BB = {} /\ (AA \cup BB) \cap CC = {}
      /\ ((AA \cup BB) \cup CC) \cap DD = {}
  BY <1>7, BandsApart
<1>12. /\ Codes(A \o B, AA \cup BB)
       /\ Len(A \o B) = Len(A) + Len(B) /\ Len(A) \in Nat /\ Len(B) \in Nat
  BY <1>2, <1>3, <1>6, CodesJoined
<1>13. /\ Codes((A \o B) \o C, (AA \cup BB) \cup CC)
       /\ Len((A \o B) \o C) = Len(A \o B) + Len(C) /\ Len(C) \in Nat
  BY <1>4, <1>6, <1>12, CodesJoined
<1>9. /\ Codes(SuperSlots(h), ((AA \cup BB) \cup CC) \cup DD)
      /\ Len(SuperSlots(h)) = Len((A \o B) \o C) + Len(D) /\ Len(D) \in Nat
  BY <1>5, <1>6, <1>8, <1>13, CodesJoined
<1>10. /\ Len(SuperSlots(h)) >= 2
       /\ h.escape # 0 => Len(SuperSlots(h)) >= 34
  BY <1>2, <1>5, <1>9, <1>12, <1>13
<1> QED
  BY <1>9, <1>10 DEF Free, AA, BB, CC, DD, f

-----------------------------------------------------------------------------
(* ---- what a genome is, gene by gene ---- *)

Lists(h) == /\ h.folds \in Seq(FoldPool) /\ IsInjective(h.folds)
            /\ h.supers \in Seq(SuperPool) /\ IsInjective(h.supers)
            /\ h.ops10 \in Seq(Ops10Pool) /\ IsInjective(h.ops10)
            /\ h.opcall \in Seq(OpcallPool) /\ IsInjective(h.opcall)
            /\ Len(h.folds) \in 0..FoldMax
            /\ h.spec \subseteq Specs

Others == AllGenes \ (ListGenes \cup {"enc", "spec"})

LEMMA AllThere ==
    /\ ListGenes \subseteq AllGenes
    /\ {"enc", "spec", "escape", "rtloop", "rtloopall", "rtiplus", "scale", "bytehdr",
        "tail", "kstack", "tailpn", "swapi", "kfast"} \subseteq AllGenes
BY DEF ListGenes, AllGenes, EarlyCv8, LateCv8, OnTag

LEMMA GenomeIs ==
    ASSUME NEW h
    PROVE  Genome(h) <=> /\ DOMAIN h = AllGenes
                         /\ h.enc \in Families
                         /\ Lists(h)
                         /\ \A k \in Others : h[k] \in Values(k)
<1>1. \A k \in {"spec", "opcall", "ops10", "supers", "folds"} : k \in AllGenes \ {"enc"}
  BY AllThere DEF ListGenes
<1>2. /\ Drawable(h, "spec") <=> h.spec \subseteq Specs
      /\ Drawable(h, "opcall") <=> h.opcall \in Seq(OpcallPool) /\ IsInjective(h.opcall)
      /\ Drawable(h, "ops10") <=> h.ops10 \in Seq(Ops10Pool) /\ IsInjective(h.ops10)
      /\ Drawable(h, "supers") <=> h.supers \in Seq(SuperPool) /\ IsInjective(h.supers)
      /\ Drawable(h, "folds") <=> /\ h.folds \in Seq(FoldPool) /\ IsInjective(h.folds)
                                  /\ Len(h.folds) <= FoldMax
  BY DEF Drawable, SubList
<1>3. \A k \in Others : Drawable(h, k) <=> h[k] \in Values(k)
  BY DEF Drawable, Others, ListGenes
<1>4. \A k \in AllGenes \ {"enc"} : k \in Others \cup {"spec", "opcall", "ops10", "supers", "folds"}
  BY DEF Others, ListGenes
<1>5. \A k \in Others : k \in AllGenes \ {"enc"}
  BY DEF Others
<1>6. Lists(h) <=> /\ Drawable(h, "spec") /\ Drawable(h, "opcall") /\ Drawable(h, "ops10")
                   /\ Drawable(h, "supers") /\ Drawable(h, "folds")
  <2>1. h.folds \in Seq(FoldPool) => Len(h.folds) \in Nat
    OBVIOUS
  <2>4. PICK n : n = Len(h.folds)
    OBVIOUS
  <2>5. (n \in Nat /\ n <= FoldMax => n \in 0..FoldMax) /\ (n \in 0..FoldMax => n <= FoldMax)
    BY DEF FoldMax
  <2>2. h.folds \in Seq(FoldPool) /\ Len(h.folds) <= FoldMax => Len(h.folds) \in 0..FoldMax
    BY <2>1, <2>4, <2>5
  <2>3. Len(h.folds) \in 0..FoldMax => Len(h.folds) <= FoldMax
    BY <2>4, <2>5
  <2> QED
    BY ONLY <1>2, <2>2, <2>3 DEF Lists
<1> QED
  BY <1>1, <1>3, <1>4, <1>5, <1>6 DEF Genome

-----------------------------------------------------------------------------
(* ---- which words get opcodes ---- *)

AheadWords == {"SWAP+I", "I+", "(NUMBER?)", "(FIND)", "(>NUMBER)", "THREAD-FIND",
               "SCAN", "SKIP", "FILL", "(PARSE)", "HASH", "PLACE"}

LEMMA Longer ==
    ASSUME NEW S, NEW s \in Seq(S), NEW t \in Seq(S),
           NEW m \in Nat, NEW n \in Nat, Len(s) \in 0..m, Len(t) \in 0..n
    PROVE  /\ s \o t \in Seq(S) /\ Len(s \o t) \in 0..m + n
           /\ Len(s \o t) = Len(s) + Len(t)
           /\ \A i \in 1..Len(s) : (s \o t)[i] = s[i] /\ i \in 1..Len(s \o t)
           /\ \A i \in 1..Len(t) : (s \o t)[Len(s) + i] = t[i]
OBVIOUS

LEMMA Maybe ==
    ASSUME NEW S, NEW s \in Seq(S), NEW c \in BOOLEAN
    PROVE  /\ If(c, s) \in Seq(S) /\ Len(If(c, s)) \in 0..Len(s)
           /\ c => If(c, s) = s
<1>1. <<>> \in Seq(S) /\ Len(<<>>) = 0 /\ Len(s) \in Nat
  OBVIOUS
<1> QED
  BY <1>1 DEF If

(* The words sure of a slot are few, and I+ one of the first two.          *)
LEMMA AheadIs ==
    ASSUME NEW h, NEW iplus \in BOOLEAN
    PROVE  /\ Ahead(h, iplus) \in Seq(AheadWords) /\ Len(Ahead(h, iplus)) <= 12
           /\ iplus => \E i \in 1..2 : i <= Len(Ahead(h, iplus)) /\ Ahead(h, iplus)[i] = "I+"
<1> DEFINE a == If(SwapiOn(h), <<"SWAP+I">>)
           b == If(iplus, <<"I+">>)
           c == If(KnumberOn(h), <<"(NUMBER?)">>)
           d == If(KlookupOn(h), KLookup)
           e == If(TfindOn(h), <<"THREAD-FIND">>)
           f == If(KinputOn(h), KInput)
<1>1. /\ a \in Seq(AheadWords) /\ Len(a) \in 0..1
      /\ b \in Seq(AheadWords) /\ Len(b) \in 0..1 /\ (iplus => Len(b) = 1 /\ b[1] = "I+")
      /\ c \in Seq(AheadWords) /\ Len(c) \in 0..1
      /\ e \in Seq(AheadWords) /\ Len(e) \in 0..1
  <2>1. /\ <<"SWAP+I">> \in Seq(AheadWords) /\ <<"I+">> \in Seq(AheadWords)
        /\ <<"(NUMBER?)">> \in Seq(AheadWords) /\ <<"THREAD-FIND">> \in Seq(AheadWords)
    BY DEF AheadWords
  <2>2. /\ Len(<<"SWAP+I">>) = 1 /\ Len(<<"I+">>) = 1 /\ <<"I+">>[1] = "I+"
        /\ Len(<<"(NUMBER?)">>) = 1 /\ Len(<<"THREAD-FIND">>) = 1
    OBVIOUS
  <2>3. SwapiOn(h) \in BOOLEAN /\ KnumberOn(h) \in BOOLEAN /\ TfindOn(h) \in BOOLEAN
    BY DEF SwapiOn, KnumberOn, TfindOn
  <2>4. a \in Seq(AheadWords) /\ Len(a) \in 0..1
    BY <2>1, <2>2, <2>3, Maybe
  <2>5. b \in Seq(AheadWords) /\ Len(b) \in 0..1 /\ (iplus => Len(b) = 1 /\ b[1] = "I+")
    BY <2>1, <2>2, Maybe
  <2>6. c \in Seq(AheadWords) /\ Len(c) \in 0..1
    BY <2>1, <2>2, <2>3, Maybe
  <2>7. e \in Seq(AheadWords) /\ Len(e) \in 0..1
    BY <2>1, <2>2, <2>3, Maybe
  <2> QED
    BY <2>4, <2>5, <2>6, <2>7
<1>2. d \in Seq(AheadWords) /\ Len(d) \in 0..2
  <2>1. KLookup \in Seq(AheadWords) /\ Len(KLookup) = 2 /\ KlookupOn(h) \in BOOLEAN
    BY DEF AheadWords, KLookup, KlookupOn
  <2> QED
    BY <2>1, Maybe
<1>3. f \in Seq(AheadWords) /\ Len(f) \in 0..6
  <2>1. KInput \in Seq(AheadWords) /\ Len(KInput) = 6 /\ KinputOn(h) \in BOOLEAN
    BY DEF AheadWords, KInput, KinputOn
  <2> QED
    BY <2>1, Maybe
<1>4. Ahead(h, iplus) = (((((a \o b) \o c) \o d) \o e) \o f)
  BY DEF Ahead
<1> HIDE DEF a, b, c, d, e, f
<1>5. /\ a \o b \in Seq(AheadWords) /\ Len(a \o b) \in 0..2
      /\ iplus => Len(a \o b) = Len(a) + 1 /\ (a \o b)[Len(a) + 1] = "I+"
  <2>0. /\ a \in Seq(AheadWords) /\ Len(a) \in 0..1 /\ 1 \in Nat
        /\ b \in Seq(AheadWords) /\ Len(b) \in 0..1
    BY <1>1
  <2>1. /\ a \o b \in Seq(AheadWords) /\ Len(a \o b) \in 0..1 + 1
        /\ Len(a \o b) = Len(a) + Len(b)
        /\ \A i \in 1..Len(b) : (a \o b)[Len(a) + i] = b[i]
    <3>1. \A i \in 1..Len(b) : (a \o b)[Len(a) + i] = b[i]
      BY ONLY <2>0, Longer
    <3>2. /\ a \o b \in Seq(AheadWords) /\ Len(a \o b) \in 0..1 + 1
          /\ Len(a \o b) = Len(a) + Len(b)
      BY ONLY <2>0, Longer
    <3> QED
      BY <3>1, <3>2
  <2>2. iplus => 1 \in 1..Len(b)
    BY <1>1
  <2> QED
    BY <1>1, <2>1, <2>2
<1> DEFINE p == a \o b
<1> HIDE DEF p
<1>6. p \o c \in Seq(AheadWords) /\ Len(p \o c) \in 0..3
      /\ \A i \in 1..Len(p) : (p \o c)[i] = p[i] /\ i \in 1..Len(p \o c)
  <2>1. Len(p \o c) \in 0..2 + 1
    BY <1>1, <1>5, Longer DEF p
  <2> QED
    BY <1>1, <1>5, <2>1, Longer DEF p
<1> DEFINE q == p \o c
<1> HIDE DEF q
<1>7. q \o d \in Seq(AheadWords) /\ Len(q \o d) \in 0..5
      /\ \A i \in 1..Len(q) : (q \o d)[i] = q[i] /\ i \in 1..Len(q \o d)
  <2>1. Len(q \o d) \in 0..3 + 2
    BY <1>2, <1>6, Longer DEF q
  <2> QED
    BY <1>2, <1>6, <2>1, Longer DEF q
<1> DEFINE r == q \o d
<1> HIDE DEF r
<1>8. r \o e \in Seq(AheadWords) /\ Len(r \o e) \in 0..6
      /\ \A i \in 1..Len(r) : (r \o e)[i] = r[i] /\ i \in 1..Len(r \o e)
  <2>1. Len(r \o e) \in 0..5 + 1
    BY <1>1, <1>7, Longer DEF r
  <2> QED
    BY <1>1, <1>7, <2>1, Longer DEF r
<1> DEFINE s == r \o e
<1> HIDE DEF s
<1>9. s \o f \in Seq(AheadWords) /\ Len(s \o f) \in 0..12
      /\ \A i \in 1..Len(s) : (s \o f)[i] = s[i] /\ i \in 1..Len(s \o f)
  <2>1. Len(s \o f) \in 0..6 + 6
    BY <1>3, <1>8, Longer DEF s
  <2> QED
    BY <1>3, <1>8, <2>1, Longer DEF s
<1>10. Ahead(h, iplus) = s \o f
  BY <1>4 DEF p, q, r, s
<1>11. ASSUME iplus
       PROVE  \E i \in 1..2 : i <= Len(s \o f) /\ (s \o f)[i] = "I+"
  <2>1. Len(a) + 1 \in 1..Len(p) /\ Len(a) + 1 \in 1..2 /\ p[Len(a) + 1] = "I+"
    BY <1>1, <1>5, <1>11 DEF p
  <2>2. Len(a) + 1 \in 1..Len(q) /\ q[Len(a) + 1] = "I+"
    BY <1>6, <2>1 DEF q
  <2>3. Len(a) + 1 \in 1..Len(r) /\ r[Len(a) + 1] = "I+"
    BY <1>7, <2>2 DEF r
  <2>4. Len(a) + 1 \in 1..Len(s) /\ s[Len(a) + 1] = "I+"
    BY <1>8, <2>3 DEF s
  <2>5. Len(a) + 1 \in 1..Len(s \o f) /\ (s \o f)[Len(a) + 1] = "I+"
    BY <1>9, <2>4
  <2> QED
    BY <1>9, <2>1, <2>5
<1> QED
  BY <1>9, <1>10, <1>11

(* The list in the order it claims: those ahead, then some of the genome's. *)
Words == AheadWords \cup Ops10Pool

LEMMA OrderIs ==
    ASSUME NEW h, Lists(h), NEW iplus \in BOOLEAN
    PROVE  /\ Ops10Order(h, iplus) \in Seq(Words)
           /\ \A i \in 1..Len(Ahead(h, iplus)) :
                 /\ i \in 1..Len(Ops10Order(h, iplus))
                 /\ Ops10Order(h, iplus)[i] = Ahead(h, iplus)[i]
           /\ \A i \in 1..Len(h.ops10) :
                 h.ops10[i] \notin ToSet(Ahead(h, iplus)) /\ Usable(h, iplus, h.ops10[i])
                   => \E k \in 1..Len(Ops10Order(h, iplus)) :
                         /\ k <= Len(Ahead(h, iplus)) + i
                         /\ Ops10Order(h, iplus)[k] = h.ops10[i]
<1> DEFINE a == Ahead(h, iplus)
           s == h.ops10
           T == {w \in ToSet(s) \ ToSet(a) : Usable(h, iplus, w)}
           t == Kept(s, T)
           A == At(s, T)
           o == Ops10Order(h, iplus)
<1>1. a \in Seq(AheadWords) /\ s \in Seq(Ops10Pool)
  BY AheadIs DEF Lists
<1>2. KeptLaw(s, T, Ops10Pool)
  <2> HIDE DEF T
  <2> QED
    BY <1>1, KeptKeeps
<1>3. o = a \o t
  BY DEF Ops10Order
<1>4. /\ t \in Seq(Ops10Pool)
      /\ \A i \in A : \E k \in 1..Len(t) : k <= i /\ t[k] = s[i]
  <2> DEFINE n == Cardinality(A)
             f == Places(s, T)
  <2>1. /\ n \in Nat /\ t = [k \in 1..n |-> s[f[k]]]
        /\ t \in Seq(Ops10Pool) /\ Len(t) = n
        /\ \A i \in A : \E k \in 1..n : k <= i /\ f[k] = i
    BY <1>2 DEF KeptLaw
  <2> HIDE DEF f, n, t, A
  <2> QED
    BY <2>1
<1>5. \A i \in 1..Len(s) : s[i] \notin ToSet(a) /\ Usable(h, iplus, s[i]) => i \in A
  <2>1. DOMAIN s = 1..Len(s)
    BY <1>1
  <2> HIDE DEF a, s
  <2> QED
    BY <2>1 DEF At, ToSet
<1> HIDE DEF a, s, T, t, A, o
<1>6. a \in Seq(Words) /\ t \in Seq(Words)
  BY <1>1, <1>4 DEF Words
<1>7. /\ o \in Seq(Words) /\ Len(o) = Len(a) + Len(t)
      /\ Len(a) \in Nat /\ Len(t) \in Nat
      /\ \A i \in 1..Len(a) : o[i] = a[i] /\ i \in 1..Len(o)
      /\ \A k \in 1..Len(t) : o[Len(a) + k] = t[k] /\ Len(a) + k \in 1..Len(o)
  BY <1>3, <1>6
<1>8. ASSUME NEW i \in 1..Len(s), s[i] \notin ToSet(a), Usable(h, iplus, s[i])
      PROVE  \E k \in 1..Len(o) : k <= Len(a) + i /\ o[k] = s[i]
  <2>1. PICK k \in 1..Len(t) : k <= i /\ t[k] = s[i]
    BY <1>4, <1>5, <1>8
  <2>2. Len(a) + k \in 1..Len(o) /\ o[Len(a) + k] = s[i] /\ Len(a) + k <= Len(a) + i
    BY <1>7, <2>1
  <2> QED
    BY <2>2
<1> QED
  BY <1>7, <1>8 DEF a, s, o

LEMMA GivenIs ==
    ASSUME NEW W, NEW words \in Seq(W), NEW slots, Len(slots) \in Nat
    PROVE  /\ Given(words, slots) \in Seq(W)
           /\ Len(Given(words, slots)) \in 0..Len(slots)
           /\ \A i \in 1..Len(words) : i <= Len(slots) => words[i] \in ToSet(Given(words, slots))
<1> DEFINE n == IF Len(words) <= Len(slots) THEN Len(words) ELSE Len(slots)
           t == SubSeq(words, 1, n)
<1>1. n \in 0..Len(words) /\ n \in 0..Len(slots) /\ Len(words) \in Nat
      /\ \A i \in 1..Len(words) : i <= Len(slots) => i \in 1..n
  OBVIOUS
<1>2. Given(words, slots) = t
  BY DEF Given
<1> HIDE DEF n
<1>3. t \in Seq(W) /\ Len(t) = n /\ \A i \in 1..n : t[i] = words[i]
  BY <1>1
<1>4. \A i \in 1..n : t[i] \in ToSet(t)
  <2>1. DOMAIN t = 1..n
    BY <1>3
  <2> HIDE DEF t
  <2> QED
    BY <2>1 DEF ToSet
<1> QED
  BY <1>1, <1>2, <1>3, <1>4

-----------------------------------------------------------------------------
(* ---- no two things the engine decodes share an opcode ---- *)

LEMMA Dealt ==
    ASSUME NEW sl, NEW C, Codes(sl, C), NEW m \in 0..Len(sl),
           NEW q \in 0..Len(SubSeq(sl, m + 1, Len(sl)))
    PROVE  LET tens  == SubSeq(sl, 1, m)
               pairs == SubSeq(SubSeq(sl, m + 1, Len(sl)), 1, q)
           IN  /\ ToSet(tens) \subseteq C /\ ToSet(pairs) \subseteq C
               /\ ToSet(tens) \cap ToSet(pairs) = {}
               /\ IsInjective(tens) /\ IsInjective(pairs)
<1> DEFINE L     == Len(sl)
           rest  == SubSeq(sl, m + 1, L)
           tens  == SubSeq(sl, 1, m)
           pairs == SubSeq(rest, 1, q)
<1>1. /\ sl \in Seq(Int) /\ L \in Nat
      /\ \A i \in 1..L : sl[i] \in C
      /\ \A i, j \in 1..L : sl[i] = sl[j] => i = j
  <2>1. sl \in Seq(Int) /\ DOMAIN sl = 1..L /\ L \in Nat
    BY DEF Codes, Once
  <2> QED
    BY <2>1 DEF Codes, Once, ToSet, IsInjective
<1>2. /\ tens \in Seq(Int) /\ Len(tens) = m /\ DOMAIN tens = 1..m
      /\ \A i \in 1..m : tens[i] = sl[i] /\ i \in 1..L
  BY <1>1
<1>3. /\ rest \in Seq(Int) /\ Len(rest) = L - m
      /\ \A i \in 1..(L - m) : rest[i] = sl[m + i]
  BY <1>1
<1>4. q \in 0..(L - m)
  BY <1>3
<1>5. /\ pairs \in Seq(Int) /\ Len(pairs) = q /\ DOMAIN pairs = 1..q
      /\ \A i \in 1..q : pairs[i] = rest[i]
  <2>1. PICK r : r = rest
    OBVIOUS
  <2>2. PICK n : n = L - m
    OBVIOUS
  <2> HIDE DEF L, rest
  <2>3. r \in Seq(Int) /\ Len(r) = n /\ q \in 0..n
    BY <1>3, <1>4, <2>1, <2>2
  <2>4. n \in Int /\ \A i \in 1..q : i \in 1..n
    BY <1>1, <2>2, <2>3
  <2>5. /\ SubSeq(r, 1, q) \in Seq(Int) /\ Len(SubSeq(r, 1, q)) = q
        /\ \A i \in 1..q : SubSeq(r, 1, q)[i] = r[i]
    BY ONLY <2>3, <2>4
  <2>6. pairs = SubSeq(r, 1, q)
    BY <2>1
  <2> HIDE DEF pairs
  <2>7. pairs \in Seq(Int) /\ Len(pairs) = q /\ \A i \in 1..q : pairs[i] = rest[i]
    BY <2>1, <2>5, <2>6
  <2> QED
    BY <2>7
<1>6. \A i \in 1..q : pairs[i] = sl[m + i] /\ m + i \in 1..L /\ m + i > m
  <2> HIDE DEF L, rest, pairs
  <2>1. m \in Int /\ m >= 0
    BY <1>1 DEF L
  <2>2. \A i \in 1..q : i \in 1..(L - m) /\ m + i \in 1..L /\ m + i > m
    BY <1>1, <1>4, <2>1
  <2> QED
    BY <1>3, <1>5, <2>2
<1> HIDE DEF L, rest, tens, pairs
<1>7. IsInjective(tens)
  BY <1>1, <1>2 DEF IsInjective
<1>8. IsInjective(pairs)
  <2> SUFFICES ASSUME NEW i \in 1..q, NEW j \in 1..q, pairs[i] = pairs[j]
               PROVE  i = j
    BY <1>5 DEF IsInjective
  <2>1. m + i = m + j
    BY <1>1, <1>6
  <2>2. m \in Int /\ i \in Int /\ j \in Int
    BY <1>4, <1>1 DEF L
  <2> QED
    BY <2>1, <2>2
<1>9. \A i \in 1..m, j \in 1..q : tens[i] # pairs[j]
  <2> SUFFICES ASSUME NEW i \in 1..m, NEW j \in 1..q, tens[i] = pairs[j]
               PROVE  FALSE
    OBVIOUS
  <2>3. sl[i] = sl[m + j] /\ i \in 1..L /\ m + j \in 1..L
    BY <1>2, <1>6
  <2>1. i = m + j
    BY <1>1, <2>3
  <2>2. m \in Int /\ i \in Int /\ j \in Int /\ i <= m /\ m + j > m
    BY <1>6, <1>1 DEF L
  <2> QED
    BY <2>1, <2>2
<1>10. ToSet(tens) \subseteq C /\ ToSet(pairs) \subseteq C
  <2>1. \A i \in 1..m : tens[i] \in C
    BY <1>1, <1>2
  <2>2. \A i \in 1..q : pairs[i] \in C
    BY <1>1, <1>6
  <2> QED
    BY <1>2, <1>5, <2>1, <2>2 DEF ToSet
<1>11. ToSet(tens) \cap ToSet(pairs) = {}
  BY <1>2, <1>5, <1>9 DEF ToSet
<1> QED
  BY <1>7, <1>8, <1>10, <1>11 DEF L, rest, tens, pairs

LEMMA FreeIsApart ==
    ASSUME NEW h, NEW n \in 0..FoldMax, n = Len(h.folds)
    PROVE  LET free == Free(n, h.spec = {}, h.escape # 0, FirstFreed(h))
           IN  /\ free \cap FoldCodes(h) = {} /\ free \cap SpecCodes(h) = {}
               /\ free \cap PrimCodes(h) = {}
               /\ FoldCodes(h) \cap SpecCodes(h) = {} /\ FoldCodes(h) \cap PrimCodes(h) = {}
               /\ SpecCodes(h) \cap PrimCodes(h) = {}
<1> DEFINE f == FirstFreed(h)
           free == Free(n, h.spec = {}, h.escape # 0, f)
<1>1. f \in {27, 36}
  BY DEF FirstFreed
<1>0. FoldMax = 23
  BY DEF FoldMax
<1>2. n \in Int /\ 0 <= n /\ n <= 23
  BY ONLY <1>0, n \in 0..FoldMax
<1>3. \A c \in FoldCodes(h) : c \in Int /\ 73 <= c /\ c < 73 + n
  BY <1>2 DEF FoldCodes
<1>4. \A c \in SpecCodes(h) : c \in Int /\ 96 <= c /\ c <= 123 /\ h.spec # {}
  <2>1. CASE h.spec = {}
    BY <2>1 DEF SpecCodes
  <2>2. CASE h.spec # {}
    <3>1. SpecCodes(h) = 96..123
      BY <2>2 DEF SpecCodes
    <3>2. \A c \in 96..123 : c \in Int /\ 96 <= c /\ c <= 123
      OBVIOUS
    <3> HIDE DEF f, free
    <3> QED
      BY ONLY <2>2, <3>1, <3>2
  <2> QED
    BY <2>1, <2>2
<1>5. \A c \in PrimCodes(h) : c \in Int /\ c <= 67 /\ (h.escape # 0 => c < f)
  BY <1>1 DEF PrimCodes
<1> HIDE DEF f
<1>6. \A c \in free : \/ c \in Int /\ c >= 126
                      \/ c \in Int /\ 73 + n <= c /\ c <= 95
                      \/ c \in Int /\ h.spec = {} /\ 96 <= c /\ c <= 123
                      \/ c \in Int /\ h.escape # 0 /\ f <= c /\ c <= 67
  BY <1>1, <1>2 DEF Free
<1> HIDE DEF free
<1>7. free \cap FoldCodes(h) = {}
  BY <1>1, <1>2, <1>3, <1>6
<1>8. free \cap SpecCodes(h) = {}
  BY <1>1, <1>2, <1>4, <1>6
<1>9. free \cap PrimCodes(h) = {}
  BY <1>1, <1>2, <1>5, <1>6
<1>10. /\ FoldCodes(h) \cap SpecCodes(h) = {} /\ FoldCodes(h) \cap PrimCodes(h) = {}
       /\ SpecCodes(h) \cap PrimCodes(h) = {}
  BY <1>2, <1>3, <1>4, <1>5
<1> QED
  BY <1>7, <1>8, <1>9, <1>10 DEF free, f

LEMMA SlotsGiven ==
    ASSUME NEW h, Lists(h)
    PROVE  /\ Len(SuperSlots(h)) \in Nat
           /\ Ops10In(h) \in Seq(Words) /\ Len(Ops10In(h)) \in 0..Len(SuperSlots(h))
           /\ Len(SupersIn(h)) \in 0..Len(PairSlots(h))
<1>1. /\ SuperSlots(h) \in Seq(Int) /\ Len(SuperSlots(h)) \in Nat
  <2>1. PICK n \in 0..FoldMax : n = Len(h.folds)
    BY DEF Lists
  <2> QED
    BY <2>1, SlotsAreFree DEF Codes, Once
<1>2. Ops10Order(h, RtiplusOn(h)) \in Seq(Words)
  <2>1. RtiplusOn(h) \in BOOLEAN
    BY DEF RtiplusOn, RtloopallOn, RtloopOn
  <2> QED
    BY <2>1, OrderIs
<1>3. Ops10In(h) \in Seq(Words) /\ Len(Ops10In(h)) \in 0..Len(SuperSlots(h))
  BY <1>1, <1>2, GivenIs DEF Ops10In
<1>4. Len(PairSlots(h)) \in Nat
  <2>1. PICK s : s = SuperSlots(h)
    OBVIOUS
  <2>2. PICK m : m = Len(Ops10In(h))
    OBVIOUS
  <2>3. s \in Seq(Int) /\ m \in 0..Len(s)
    BY <1>1, <1>3, <2>1, <2>2
  <2>4. SubSeq(s, m + 1, Len(s)) \in Seq(Int)
    BY <2>3
  <2> QED
    BY <2>1, <2>2, <2>4 DEF PairSlots
<1>5. Len(SupersIn(h)) \in 0..Len(PairSlots(h))
  <2>1. h.supers \in Seq(SuperPool)
    BY DEF Lists
  <2> QED
    BY <1>4, <2>1, GivenIs DEF SupersIn
<1> QED
  BY <1>1, <1>3, <1>5

LEMMA CodesApart ==
    ASSUME Lists(g)
    PROVE  OpcodesApart
<1> DEFINE tens  == Ops10Codes(g)
           pairs == SuperCodes(g)
           taken == <<ToSet(tens), ToSet(pairs), FoldCodes(g), SpecCodes(g), PrimCodes(g)>>
<1>1. PICK n \in 0..FoldMax : n = Len(g.folds)
  BY DEF Lists
<1>2. PICK C : C = Free(n, g.spec = {}, g.escape # 0, FirstFreed(g))
  OBVIOUS
<1>3. PICK m : m = Len(Ops10In(g))
  OBVIOUS
<1>4. PICK q : q = Len(SupersIn(g))
  OBVIOUS
<1>5. PICK sl : sl = SuperSlots(g)
  OBVIOUS
<1>6. Codes(sl, C)
  BY <1>1, <1>2, <1>5, SlotsAreFree
<1>7. m \in 0..Len(sl) /\ q \in 0..Len(SubSeq(sl, m + 1, Len(sl)))
  BY <1>3, <1>4, <1>5, SlotsGiven DEF PairSlots
<1>8. tens = SubSeq(sl, 1, m) /\ pairs = SubSeq(SubSeq(sl, m + 1, Len(sl)), 1, q)
  BY <1>3, <1>4, <1>5 DEF Ops10Codes, SuperCodes, PairSlots
<1> HIDE DEF tens, pairs
<1>9. /\ ToSet(tens) \subseteq C /\ ToSet(pairs) \subseteq C
      /\ ToSet(tens) \cap ToSet(pairs) = {}
      /\ IsInjective(tens) /\ IsInjective(pairs)
  BY <1>6, <1>7, <1>8, Dealt
<1>10. /\ C \cap FoldCodes(g) = {} /\ C \cap SpecCodes(g) = {} /\ C \cap PrimCodes(g) = {}
       /\ FoldCodes(g) \cap SpecCodes(g) = {} /\ FoldCodes(g) \cap PrimCodes(g) = {}
       /\ SpecCodes(g) \cap PrimCodes(g) = {}
  BY <1>1, <1>2, FreeIsApart
<1>11. \A i, j \in 1..5 : i # j => taken[i] \cap taken[j] = {}
  <2>1. PICK a : a = ToSet(tens)
    OBVIOUS
  <2>2. PICK b : b = ToSet(pairs)
    OBVIOUS
  <2>3. /\ a \cap b = {} /\ a \cap FoldCodes(g) = {} /\ a \cap SpecCodes(g) = {}
        /\ a \cap PrimCodes(g) = {} /\ b \cap FoldCodes(g) = {} /\ b \cap SpecCodes(g) = {}
        /\ b \cap PrimCodes(g) = {}
    BY <1>9, <1>10, <2>1, <2>2
  <2>4. taken = <<a, b, FoldCodes(g), SpecCodes(g), PrimCodes(g)>>
    BY <2>1, <2>2
  <2> HIDE DEF taken
  <2>5. /\ taken[1] = a /\ taken[2] = b /\ taken[3] = FoldCodes(g)
        /\ taken[4] = SpecCodes(g) /\ taken[5] = PrimCodes(g)
    BY <2>4
  <2>6. \A i \in 1..5 : i \in {1, 2, 3, 4, 5}
    OBVIOUS
  <2> QED
    BY <1>10, <2>3, <2>5, <2>6
<1> QED
  BY <1>9, <1>11 DEF OpcodesApart, tens, pairs

-----------------------------------------------------------------------------
(* ---- the overlays, and the repair of rtloopall's prerequisite ---- *)

(* rtloopall_on asks with I+ claiming a slot; where it holds, that is so.   *)
LEMMA LoopsGiven ==
    ASSUME NEW h, RtloopallOn(h)
    PROVE  Loop10 \subseteq Given10(h)
<1>1. RtiplusOn(h) = (h.rtiplus # 0)
  BY DEF RtiplusOn
<1> QED
  BY <1>1 DEF RtloopallOn, Given10, Ops10In

LEMMA IPlusGiven ==
    ASSUME NEW h, Lists(h), RtiplusOn(h)
    PROVE  "I+" \in Given10(h)
<1>1. RtiplusOn(h) = TRUE
  BY DEF RtiplusOn, RtloopallOn, RtloopOn
<1> DEFINE o == Ops10Order(h, TRUE)
<1>2. PICK i \in 1..2 : i <= Len(Ahead(h, TRUE)) /\ Ahead(h, TRUE)[i] = "I+"
  BY AheadIs
<1>3. o \in Seq(Words) /\ i \in 1..Len(o) /\ o[i] = "I+"
  <2>1. i \in 1..Len(Ahead(h, TRUE))
    <3>1. PICK a : a = Ahead(h, TRUE)
      OBVIOUS
    <3>2. a \in Seq(AheadWords) /\ i <= Len(a)
      BY <1>2, <3>1, AheadIs
    <3>3. i \in 1..Len(a)
      BY <3>2
    <3> QED
      BY <3>1, <3>3
  <2> QED
    BY <1>2, <2>1, OrderIs
<1>4. Len(SuperSlots(h)) \in Nat /\ Len(SuperSlots(h)) >= 2
  <2>1. PICK n \in 0..FoldMax : n = Len(h.folds)
    BY DEF Lists
  <2> QED
    BY <2>1, SlotsAreFree, SlotsGiven
<1> HIDE DEF o
<1>5. i <= Len(SuperSlots(h))
  BY <1>4
<1>6. "I+" \in ToSet(Given(o, SuperSlots(h)))
  BY <1>3, <1>4, <1>5, GivenIs
<1> QED
  BY <1>1, <1>6 DEF Given10, Ops10In, o

LEMMA LoopSeqIs ==
    /\ LoopSeq \in Seq(Loop10) /\ Len(LoopSeq) = 8 /\ IsInjective(LoopSeq)
    /\ ToSet(LoopSeq) = Loop10 /\ LoopSeq \in Seq(Ops10Pool)
<1>1. /\ LoopSeq \in Seq(Loop10) /\ Len(LoopSeq) = 8 /\ DOMAIN LoopSeq = 1..8
  BY DEF LoopSeq, Loop10
<1>2. /\ LoopSeq[1] = "(DO)" /\ LoopSeq[2] = "(LOOP)" /\ LoopSeq[3] = "(+LOOP)"
      /\ LoopSeq[4] = "(?DO)" /\ LoopSeq[5] = "(LEAVE)" /\ LoopSeq[6] = "I"
      /\ LoopSeq[7] = "J" /\ LoopSeq[8] = "UNLOOP"
  BY DEF LoopSeq
<1>3. 1..8 = {1, 2, 3, 4, 5, 6, 7, 8}
  OBVIOUS
<1>4. IsInjective(LoopSeq)
  BY <1>1, <1>2, <1>3 DEF IsInjective
<1>5. ToSet(LoopSeq) = Loop10
  BY <1>1, <1>2, <1>3 DEF ToSet, Loop10
<1>6. LoopSeq \in Seq(Ops10Pool)
  BY <1>1, PoolAssumption, SeqMonotonic
<1> QED
  BY <1>1, <1>4, <1>5, <1>6

(* The list rtloopall_repair makes: every loop word is in it, and first if  *)
(* all were and some got no slot.                                          *)
Looped(h) == LoopsFirst(h).ops10

LEMMA LoopedIs ==
    ASSUME NEW h, Lists(h), "ops10" \in DOMAIN h
    PROVE  /\ Looped(h) \in Seq(Ops10Pool) /\ IsInjective(Looped(h))
           /\ Loop10 \subseteq ToSet(Looped(h))
           /\ Loop10 \subseteq ToSet(h.ops10) /\ ~RtloopallOn(h)
                => /\ Len(Looped(h)) >= 8
                   /\ \A i \in 1..8 : Looped(h)[i] = LoopSeq[i]
           /\ Loop10 \subseteq ToSet(h.ops10) /\ RtloopallOn(h) => Looped(h) = h.ops10
<1> DEFINE s == h.ops10
           missing == Kept(LoopSeq, Loop10 \ ToSet(s))
           first == IF missing # <<>> THEN missing
                    ELSE IF ~RtloopallOn(h) THEN LoopSeq ELSE <<>>
           t == Kept(s, ToSet(s) \ ToSet(first))
<1>1. Looped(h) = first \o t
  BY DEF Looped, LoopsFirst
<1>2. s \in Seq(Ops10Pool) /\ IsInjective(s)
  BY DEF Lists
<1>3. /\ missing \in Seq(Ops10Pool) /\ IsInjective(missing)
      /\ ToSet(missing) = Loop10 \ ToSet(s)
  <2>1. /\ Once(Ops10Pool, missing, ToSet(LoopSeq) \cap (Loop10 \ ToSet(s)))
        /\ ToSet(LoopSeq) \cap (Loop10 \ ToSet(s)) \subseteq ToSet(missing)
    BY LoopSeqIs, KeptOnce
  <2> HIDE DEF missing
  <2> QED
    BY <2>1, LoopSeqIs DEF Once
<1>4. /\ <<>> \in Seq(Ops10Pool) /\ IsInjective(<<>>) /\ ToSet(<<>>) = {} /\ Len(<<>>) = 0
  BY DEF IsInjective, ToSet
<1>5. (missing = <<>>) <=> Loop10 \subseteq ToSet(s)
  <2> HIDE DEF missing
  <2>1. missing # <<>> => ToSet(missing) # {}
    <3>1. missing # <<>> => 1 \in DOMAIN missing
      BY <1>3
    <3> QED
      BY <3>1 DEF ToSet
  <2> QED
    BY <1>3, <1>4, <2>1
<1>6. first \in Seq(Ops10Pool) /\ IsInjective(first)
  <2> HIDE DEF missing
  <2> QED
    BY <1>3, <1>4, LoopSeqIs
<1>7. /\ first \o t \in Seq(Ops10Pool) /\ IsInjective(first \o t)
      /\ ToSet(first \o t) = ToSet(first) \cup ToSet(s)
      /\ Len(first \o t) >= Len(first)
  <2> HIDE DEF first
  <2> QED
    BY <1>2, <1>6, Fronted
<1>8. t \in Seq(Ops10Pool)
  <2> HIDE DEF first
  <2> QED
    BY <1>2, KeptOnce DEF Once
<1>9. Loop10 \subseteq ToSet(first \o t)
  <2>1. CASE missing = <<>>
    BY <1>5, <1>7, <2>1
  <2>2. CASE missing # <<>>
    <3>1. ToSet(first) = Loop10 \ ToSet(s)
      BY <1>3, <2>2
    <3> HIDE DEF first
    <3> QED
      BY <1>7, <3>1
  <2> QED
    BY <2>1, <2>2
<1>10. ASSUME Loop10 \subseteq ToSet(s), ~RtloopallOn(h)
       PROVE  /\ Len(first \o t) >= 8
              /\ \A i \in 1..8 : (first \o t)[i] = LoopSeq[i]
  <2>1. first = LoopSeq
    BY <1>5, <1>10
  <2> HIDE DEF first, t
  <2>2. /\ LoopSeq \in Seq(Ops10Pool) /\ Len(LoopSeq) = 8
    BY LoopSeqIs
  <2>3. PICK l : l = LoopSeq
    OBVIOUS
  <2>4. PICK u : u = t
    OBVIOUS
  <2>5. l \in Seq(Ops10Pool) /\ u \in Seq(Ops10Pool) /\ Len(l) = 8
    BY <1>8, <2>2, <2>3, <2>4
  <2>6. Len(l \o u) >= 8 /\ \A i \in 1..8 : (l \o u)[i] = l[i]
    <3>0. l \in Seq(Ops10Pool) /\ u \in Seq(Ops10Pool)
      BY <2>5
    <3>1. Len(u) \in Nat /\ Len(l) \in Nat
      BY ONLY <3>0
    <3>2. /\ Len(l \o u) = Len(l) + Len(u)
          /\ \A i \in 1..Len(l) : (l \o u)[i] = l[i]
      BY ONLY <3>0
    <3>3. \A i \in 1..8 : i \in 1..Len(l)
      BY ONLY <2>5
    <3> QED
      BY ONLY <2>5, <3>1, <3>2, <3>3
  <2> QED
    BY <2>1, <2>3, <2>4, <2>6
<1>11. ASSUME Loop10 \subseteq ToSet(s), RtloopallOn(h)
       PROVE  first \o t = s
  <2>1. first = <<>>
    BY <1>5, <1>11
  <2>2. ToSet(first) = {}
    BY <1>4, <2>1
  <2>3. t = s
    <3> HIDE DEF first
    <3>1. t = Kept(s, ToSet(s))
      BY <2>2
    <3> QED
      BY <1>2, <3>1, KeptAll
  <2> HIDE DEF first, t
  <2> QED
    BY <1>2, <2>1, <2>3
<1> QED
  BY <1>1, <1>7, <1>9, <1>10, <1>11

(* Whether a design has the compact loop compiler is told by these genes.   *)
Told == {"enc", "rtloop", "rtloopall", "rtiplus", "ops10", "folds", "spec", "escape",
         "bytehdr", "kfast", "kinput", "klookup", "knumber", "tfind", "swapi"}

(* What a repair leaves: the loop words listed, the compiler on, and every  *)
(* loop word with a slot or the slots escape frees.                        *)
Fixed(h, r) ==
    /\ DOMAIN r = AllGenes
    /\ \A k \in AllGenes \ {"ops10", "rtloop", "escape"} : r[k] = h[k]
    /\ r.ops10 = Looped(h)
    /\ r.rtloop = IF h.rtloop = 0 THEN 1 ELSE h.rtloop
    /\ r.escape \in {h.escape, IF h.escape = 0 THEN 1 ELSE h.escape}
    /\ RtloopallOn(r) \/ r.escape # 0
    /\ r.escape # h.escape =>
          \E l : /\ ~RtloopallOn(l) /\ l.escape = h.escape
                 /\ \A k \in Told \ {"escape"} : l[k] = r[k]

LEMMA ToldThere == Told \subseteq AllGenes
BY AllThere DEF Told, ListGenes, AllGenes, EarlyCv8, LateCv8

LEMMA ToldBy ==
    ASSUME NEW h, NEW r, \A k \in Told : h[k] = r[k]
    PROVE  RtloopallOn(h) <=> RtloopallOn(r)
<1>1. /\ h.enc = r.enc /\ h.rtloop = r.rtloop /\ h.rtloopall = r.rtloopall
      /\ h.rtiplus = r.rtiplus /\ h.ops10 = r.ops10 /\ h.folds = r.folds /\ h.spec = r.spec
      /\ h.escape = r.escape /\ h.bytehdr = r.bytehdr /\ h.kfast = r.kfast
      /\ h.kinput = r.kinput /\ h.klookup = r.klookup /\ h.knumber = r.knumber
      /\ h.tfind = r.tfind /\ h.swapi = r.swapi
  BY DEF Told
<1>2. SuperSlots(h) = SuperSlots(r)
  <2>1. FirstFreed(h) = FirstFreed(r)
    BY <1>1 DEF FirstFreed
  <2> QED
    BY <1>1, <2>1 DEF SuperSlots
<1>3. /\ KfastOn(h) = KfastOn(r) /\ KinputOn(h) = KinputOn(r) /\ KlookupOn(h) = KlookupOn(r)
      /\ KnumberOn(h) = KnumberOn(r) /\ TfindOn(h) = TfindOn(r) /\ SwapiOn(h) = SwapiOn(r)
  BY <1>1 DEF KfastOn, KinputOn, KlookupOn, KnumberOn, TfindOn, SwapiOn, Cv8
<1>4. ASSUME NEW b
      PROVE  Ops10Order(h, b) = Ops10Order(r, b)
  <2>1. Ahead(h, b) = Ahead(r, b)
    BY <1>3 DEF Ahead
  <2>2. \A w : Usable(h, b, w) = Usable(r, b, w)
    BY <1>3 DEF Usable
  <2>3. {w \in ToSet(h.ops10) \ ToSet(Ahead(h, b)) : Usable(h, b, w)}
          = {w \in ToSet(r.ops10) \ ToSet(Ahead(r, b)) : Usable(r, b, w)}
    BY <1>1, <2>1, <2>2
  <2> QED
    BY <1>1, <2>1, <2>3 DEF Ops10Order
<1>5. RtloopOn(h) = RtloopOn(r)
  BY <1>1 DEF RtloopOn, Cv8
<1> QED
  BY <1>1, <1>2, <1>4, <1>5 DEF RtloopallOn

LEMMA RepairFixes ==
    ASSUME NEW h, Lists(h), DOMAIN h = AllGenes
    PROVE  Fixed(h, Repaired(h))
<1> DEFINE looping == [LoopsFirst(h) EXCEPT !.rtloop = IF @ = 0 THEN 1 ELSE @]
           r == Repaired(h)
           freed == [looping EXCEPT !.escape = IF @ = 0 THEN 1 ELSE @]
<1>1. \A k \in {"ops10", "rtloop", "escape"} : k \in AllGenes
  BY AllThere DEF ListGenes
<1>2. /\ DOMAIN LoopsFirst(h) = AllGenes
      /\ \A k \in AllGenes \ {"ops10"} : LoopsFirst(h)[k] = h[k]
  <2>1. PICK u : LoopsFirst(h) = [h EXCEPT !.ops10 = u]
    BY DEF LoopsFirst
  <2> QED
    BY <2>1
<1>3. /\ DOMAIN looping = AllGenes
      /\ looping.ops10 = Looped(h)
      /\ looping.rtloop = IF h.rtloop = 0 THEN 1 ELSE h.rtloop
      /\ \A k \in AllGenes \ {"ops10", "rtloop"} : looping[k] = h[k]
  BY <1>1, <1>2 DEF Looped
<1>4. r = IF RtloopallOn(looping) THEN looping ELSE freed
  BY DEF Repaired
<1>5. /\ DOMAIN freed = AllGenes
      /\ freed.escape = IF h.escape = 0 THEN 1 ELSE h.escape
      /\ \A k \in AllGenes \ {"escape"} : freed[k] = looping[k]
  <2> HIDE DEF looping
  <2> QED
    BY <1>1, <1>3
<1> HIDE DEF looping, freed, r
<1>6. CASE RtloopallOn(looping)
  BY <1>1, <1>3, <1>4, <1>6 DEF Fixed, r
<1>7. CASE ~RtloopallOn(looping)
  <2>1. r = freed
    BY <1>4, <1>7
  <2>2. freed.escape # 0
    BY <1>5
  <2>3. \A k \in Told \ {"escape"} : looping[k] = freed[k]
    BY <1>5, ToldThere
  <2>4. looping.escape = h.escape
    BY <1>1, <1>3
  <2> QED
    BY <1>1, <1>3, <1>5, <1>7, <2>1, <2>2, <2>3, <2>4 DEF Fixed, r
<1> QED
  BY <1>6, <1>7

(* With escape there are slots for all that is sure of one and eight more.  *)
LEMMA RoomForLoops ==
    ASSUME NEW h, Lists(h), Cv8(h), h.rtloop # 0, h.rtloopall # 0, h.escape # 0,
           Len(h.ops10) >= 8, \A i \in 1..8 : h.ops10[i] = LoopSeq[i]
    PROVE  RtloopallOn(h)
<1> DEFINE b == (h.rtiplus # 0)
           o == Ops10Order(h, b)
           s == h.ops10
<1>1. /\ s \in Seq(Ops10Pool) /\ DOMAIN s = 1..Len(s) /\ Len(s) \in Nat /\ b \in BOOLEAN
      /\ \A i \in 1..8 : i \in 1..Len(s) /\ i \in Int /\ i <= 8
  <2>1. s \in Seq(Ops10Pool) /\ Len(s) >= 8
    BY DEF Lists
  <2> HIDE DEF s
  <2>2. DOMAIN s = 1..Len(s) /\ Len(s) \in Nat
    BY ONLY <2>1
  <2>3. PICK n \in Nat : n = Len(s)
    BY <2>2
  <2>4. n >= 8
    BY <2>1, <2>3
  <2>5. \A i \in 1..8 : i \in 1..n /\ i \in Int /\ i <= 8
    BY ONLY <2>4, n \in Nat
  <2>6. b \in BOOLEAN
    OBVIOUS
  <2> QED
    BY <2>1, <2>2, <2>3, <2>5, <2>6
<1>2. \A w \in Loop10 : \E i \in 1..8 : s[i] = w
  <2>1. DOMAIN LoopSeq = 1..8 /\ ToSet(LoopSeq) = Loop10
    BY LoopSeqIs
  <2> HIDE DEF s
  <2> QED
    BY <2>1 DEF ToSet, s
<1>3. Loop10 \subseteq ToSet(s)
  BY <1>1, <1>2 DEF ToSet
<1>4. /\ Len(SuperSlots(h)) \in Nat /\ Len(SuperSlots(h)) >= 34
  <2>1. PICK n \in 0..FoldMax : n = Len(h.folds)
    BY DEF Lists
  <2> QED
    BY <2>1, SlotsAreFree, SlotsGiven
<1>5. /\ Ahead(h, b) \in Seq(AheadWords) /\ Len(Ahead(h, b)) <= 12 /\ Len(Ahead(h, b)) \in Nat
  <2>1. Ahead(h, b) \in Seq(AheadWords) /\ Len(Ahead(h, b)) <= 12
    BY <1>1, AheadIs
  <2> QED
    BY <2>1
<1>6. \A w \in Loop10 : w \notin ToSet(Ahead(h, b)) /\ Usable(h, b, w)
  <2>1. ToSet(Ahead(h, b)) \subseteq AheadWords
    BY <1>5 DEF ToSet
  <2>2. \A w \in Loop10 : w \notin AheadWords
    BY DEF Loop10, AheadWords
  <2>3. ToSet(KLookup) \subseteq AheadWords
    BY DEF ToSet, KLookup, AheadWords
  <2>4. \A w \in Loop10 : w \notin {"THREAD-FIND", "(PARSE)", "(NUMBER?)", "I+"}
    BY <2>2 DEF AheadWords
  <2> QED
    BY <2>1, <2>2, <2>3, <2>4 DEF Usable
<1>7. o \in Seq(Words)
  BY <1>1, OrderIs
<1>8. ASSUME NEW w \in Loop10
      PROVE  w \in ToSet(Given(o, SuperSlots(h)))
  <2>1. PICK i \in 1..8 : s[i] = w
    BY <1>2
  <2>4. /\ i \in 1..Len(s)
        /\ s[i] \notin ToSet(Ahead(h, b)) /\ Usable(h, b, s[i])
    BY <1>1, <1>6, <2>1
  <2>5. \A j \in 1..Len(s) :
           s[j] \notin ToSet(Ahead(h, b)) /\ Usable(h, b, s[j])
             => \E k \in 1..Len(o) : k <= Len(Ahead(h, b)) + j /\ o[k] = s[j]
    BY <1>1, OrderIs
  <2>6. \E k \in 1..Len(o) : k <= Len(Ahead(h, b)) + i /\ o[k] = s[i]
    <3> HIDE DEF o, s, b
    <3> QED
      BY <2>4, <2>5
  <2>2. PICK k \in 1..Len(o) : k <= Len(Ahead(h, b)) + i /\ o[k] = w
    BY <2>1, <2>6
  <2>3. k <= Len(SuperSlots(h))
    <3>1. k \in Int /\ i \in Int /\ i <= 8
      BY <1>1, <1>7
    <3> HIDE DEF o
    <3> QED
      BY <1>4, <1>5, <2>2, <3>1
  <2> HIDE DEF o
  <2> QED
    BY <1>4, <1>7, <2>2, <2>3, GivenIs
<1>9. RtloopOn(h)
  <2>1. "I" \in Loop10
    BY DEF Loop10
  <2> QED
    BY <1>3, <2>1 DEF RtloopOn
<1> QED
  BY <1>3, <1>8, <1>9 DEF RtloopallOn

LEMMA FixedLists ==
    ASSUME NEW h, NEW r, Lists(h), DOMAIN h = AllGenes, Fixed(h, r)
    PROVE  /\ Lists(r) /\ DOMAIN r = AllGenes /\ Loop10 \subseteq ToSet(r.ops10)
           /\ r.rtloop # 0 /\ r.enc = h.enc /\ r.rtloopall = h.rtloopall
<1>1. \A k \in {"ops10", "folds", "supers", "opcall", "spec", "enc", "rtloopall"} : k \in AllGenes
  BY AllThere DEF ListGenes
<1>2. /\ r.folds = h.folds /\ r.supers = h.supers /\ r.opcall = h.opcall /\ r.spec = h.spec
      /\ r.enc = h.enc /\ r.rtloopall = h.rtloopall
  BY <1>1 DEF Fixed
<1>3. r.ops10 \in Seq(Ops10Pool) /\ IsInjective(r.ops10) /\ Loop10 \subseteq ToSet(r.ops10)
  BY <1>1, LoopedIs DEF Fixed
<1> QED
  BY <1>2, <1>3 DEF Fixed, Lists

LEMMA TwiceRepaired ==
    ASSUME NEW h, Lists(h), DOMAIN h = AllGenes, Blocked(h)
    PROVE  ~Blocked(Repaired(Repaired(h)))
<1> DEFINE r == Repaired(h)
           q == Repaired(r)
<1>1. Fixed(h, r)
  BY RepairFixes
<1>2. /\ Lists(r) /\ DOMAIN r = AllGenes /\ Loop10 \subseteq ToSet(r.ops10)
      /\ r.rtloop # 0 /\ r.enc = h.enc /\ r.rtloopall = h.rtloopall
  BY <1>1, FixedLists
<1>3. Fixed(r, q)
  BY <1>2, RepairFixes
<1>4. /\ Lists(q) /\ DOMAIN q = AllGenes /\ Loop10 \subseteq ToSet(q.ops10)
      /\ q.rtloop # 0 /\ q.enc = r.enc /\ q.rtloopall = r.rtloopall
  BY <1>2, <1>3, FixedLists
<1>5. h.rtloopall # 0 /\ Cv8(q)
  BY <1>2, <1>4 DEF Blocked, Cv8
<1>6. \A k \in Told \cup {"ops10"} : k \in AllGenes
  BY ToldThere DEF Told
<1> HIDE DEF r, q
<1>7. CASE RtloopallOn(r) /\ q.escape = r.escape
  <2>1. q.ops10 = r.ops10
    BY <1>2, <1>3, <1>6, <1>7, LoopedIs DEF Fixed
  <2>2. q.rtloop = r.rtloop
    BY <1>2, <1>3 DEF Fixed
  <2>3. \A k \in Told : r[k] = q[k]
    BY <1>3, <1>6, <1>7, <2>1, <2>2 DEF Fixed
  <2>4. RtloopallOn(q)
    BY <1>7, <2>3, ToldBy
  <2> QED
    BY <2>4 DEF Blocked, q, r
<1>8. CASE RtloopallOn(q)
  BY <1>8 DEF Blocked, q, r
<1>9. CASE ~RtloopallOn(r)
  <2>1. r.escape # 0 /\ q.escape # 0
    BY <1>1, <1>3, <1>9 DEF Fixed
  <2>2. Len(q.ops10) >= 8 /\ \A i \in 1..8 : q.ops10[i] = LoopSeq[i]
    BY <1>2, <1>3, <1>6, <1>9, LoopedIs DEF Fixed
  <2>3. RtloopallOn(q)
    BY <1>2, <1>4, <1>5, <2>1, <2>2, RoomForLoops
  <2> QED
    BY <2>3 DEF Blocked, q, r
<1>10. CASE RtloopallOn(r) /\ q.escape # r.escape
  <2>1. PICK l : /\ ~RtloopallOn(l) /\ l.escape = r.escape
                 /\ \A k \in Told \ {"escape"} : l[k] = q[k]
    BY <1>3, <1>10 DEF Fixed
  <2>2. q.ops10 = r.ops10
    BY <1>2, <1>3, <1>6, <1>10, LoopedIs DEF Fixed
  <2>3. q.rtloop = r.rtloop
    BY <1>2, <1>3 DEF Fixed
  <2>4. \A k \in Told : r[k] = l[k]
    BY <1>3, <1>6, <2>1, <2>2, <2>3 DEF Fixed
  <2>5. RtloopallOn(l)
    BY <1>10, <2>4, ToldBy
  <2> QED
    BY <2>1, <2>5
<1> QED
  BY <1>7, <1>8, <1>9, <1>10

-----------------------------------------------------------------------------
(* ---- what is drawn, crossed, borrowed and mutated can be drawn ---- *)

LEMMA DrawableBy ==
    ASSUME NEW h, NEW r, NEW k \in AllGenes, h[k] = r[k], Drawable(h, k)
    PROVE  Drawable(r, k)
<1>1. CASE k = "spec"
  BY <1>1 DEF Drawable
<1>2. CASE k = "opcall"
  BY <1>2 DEF Drawable
<1>3. CASE k = "ops10"
  BY <1>3 DEF Drawable
<1>4. CASE k = "supers"
  BY <1>4 DEF Drawable
<1>5. CASE k = "folds"
  BY <1>5 DEF Drawable
<1>6. CASE k \notin {"spec", "opcall", "ops10", "supers", "folds"}
  BY <1>6 DEF Drawable
<1> QED
  BY <1>1, <1>2, <1>3, <1>4, <1>5, <1>6

(* Each gene another genome's, or drawable as it is.                       *)
LEMMA GenomeFrom ==
    ASSUME NEW r, DOMAIN r = AllGenes, r.enc \in Families,
           \A k \in AllGenes \ {"enc"} :
              Drawable(r, k) \/ \E h : Genome(h) /\ r[k] = h[k]
    PROVE  Genome(r)
<1>1. ASSUME NEW k \in AllGenes \ {"enc"}
      PROVE  Drawable(r, k)
  <2>1. CASE \E h : Genome(h) /\ r[k] = h[k]
    <3>1. PICK h : Genome(h) /\ r[k] = h[k]
      BY <2>1
    <3>2. Drawable(h, k)
      BY <3>1 DEF Genome
    <3> QED
      BY <3>1, <3>2, DrawableBy
  <2> QED
    BY <2>1
<1> QED
  BY <1>1 DEF Genome

LEMMA ZeroDrawn ==
    ASSUME NEW h, NEW k \in {"scale", "tail", "kstack", "tailpn"}, h[k] = 0
    PROVE  Drawable(h, k)
BY DEF Drawable, Values

LEMMA CanonGenome ==
    ASSUME NEW h, Genome(h)
    PROVE  Genome(Canon(h))
<1> DEFINE r == [h EXCEPT !.scale = 0]
<1>1. DOMAIN h = AllGenes /\ h.enc \in Families
  BY DEF Genome
<1>2. DOMAIN r = AllGenes /\ r.scale = 0 /\ r.enc = h.enc
      /\ \A k \in AllGenes \ {"scale"} : r[k] = h[k]
  BY <1>1, AllThere
<1>3. Genome(r)
  <2> HIDE DEF r
  <2>1. Drawable(r, "scale")
    BY <1>2, ZeroDrawn
  <2> QED
    BY <1>1, <1>2, <2>1, GenomeFrom
<1> QED
  BY <1>3 DEF Canon

LEMMA AskedGenome ==
    ASSUME NEW h, Genome(h)
    PROVE  Genome(Asked(h))
<1> DEFINE r == [h EXCEPT !.tail = 0, !.kstack = 0, !.tailpn = 0]
<1>1. DOMAIN h = AllGenes /\ h.enc \in Families
  BY DEF Genome
<1>2. DOMAIN r = AllGenes /\ r.tail = 0 /\ r.kstack = 0 /\ r.tailpn = 0 /\ r.enc = h.enc
      /\ \A k \in AllGenes \ {"tail", "kstack", "tailpn"} : r[k] = h[k]
  BY <1>1, AllThere
<1>3. Genome(r)
  <2> HIDE DEF r
  <2>1. Drawable(r, "tail") /\ Drawable(r, "kstack") /\ Drawable(r, "tailpn")
    BY <1>2, ZeroDrawn
  <2> QED
    BY <1>1, <1>2, <2>1, GenomeFrom
<1>4. Genome(Require(h))
  BY <1>3 DEF Require
<1> QED
  BY <1>4, CanonGenome DEF Asked

LEMMA RandomGenome ==
    ASSUME NEW d \in Drawn
    PROVE  Genome(d)
<1>1. Random(d, Base) /\ Genome(Base)
  BY DrawnAssumption, FoundersAssumption
<1>2. \A k \in AllGenes \ {"enc"} : Drawable(d, k) \/ d[k] = Base[k]
  BY <1>1 DEF Random
<1>3. DOMAIN d = AllGenes /\ d.enc \in Families
  BY <1>1 DEF Random
<1> QED
  BY <1>1, <1>2, <1>3, GenomeFrom

-----------------------------------------------------------------------------
(* ---- crossover ---- *)

LEMMA MergedIs ==
    ASSUME NEW S, NEW s \in Seq(S), NEW t \in Seq(S), IsInjective(s), IsInjective(t),
           NEW cap \in Nat, NEW m \in MergedList(s, t, cap)
    PROVE  SubList(m, S) /\ Len(m) <= cap
<1> DEFINE both == s \o Kept(t, ToSet(t) \ ToSet(s))
           lo == Lesser(Len(s), Len(t))
           hi == Greater(Len(s), Len(t))
<1>1. both \in Seq(S) /\ IsInjective(both) /\ DOMAIN both = 1..Len(both)
  <2>1. both \in Seq(S) /\ IsInjective(both)
    BY Fronted
  <2> HIDE DEF both
  <2> QED
    BY <2>1
<1>2. lo \in Nat /\ hi \in Nat
  BY DEF Lesser, Greater
<1>9. PICK n \in {Lesser(cap, j) : j \in Draws(lo, hi) \cap (lo..hi)} :
           m \in {[i \in 1..n |-> both[f[i]]] : f \in Increasing(Len(both), n)}
  BY DEF MergedList
<1>3. PICK f \in Increasing(Len(both), n) : m = [i \in 1..n |-> both[f[i]]]
  BY <1>9
<1> HIDE DEF both, lo, hi
<1>4. n \in Nat /\ n <= cap
  BY <1>2, <1>3 DEF Lesser
<1>5. /\ f \in [1..n -> 1..Len(both)]
      /\ \A i, j \in 1..n : i < j => f[i] < f[j]
  BY <1>3 DEF Increasing
<1>6. /\ m \in Seq(S) /\ Len(m) = n /\ DOMAIN m = 1..n
      /\ \A i \in 1..n : m[i] = both[f[i]]
  <2>1. \A i \in 1..n : both[f[i]] \in S
    BY <1>1, <1>5
  <2> QED
    BY <1>3, <1>4, <2>1
<1>7. \A i, j \in 1..n : f[i] = f[j] => i = j
  <2> SUFFICES ASSUME NEW i \in 1..n, NEW j \in 1..n, f[i] = f[j]
               PROVE  i = j
    OBVIOUS
  <2>1. f[i] \in Int /\ f[j] \in Int /\ i \in Int /\ j \in Int
    BY <1>5
  <2>2. ~(i < j) /\ ~(j < i)
    BY <1>5, <2>1
  <2> QED
    BY <2>1, <2>2
<1>8. IsInjective(m)
  <2>2. \A p, q \in 1..Len(both) : both[p] = both[q] => p = q
    BY <1>1 DEF IsInjective
  <2>3. \A i \in 1..n : f[i] \in 1..Len(both)
    BY <1>5
  <2>4. \A i \in 1..n : m[i] = both[f[i]]
    BY <1>6
  <2>1. \A i, j \in 1..n : m[i] = m[j] => f[i] = f[j]
    <3> SUFFICES ASSUME NEW i \in 1..n, NEW j \in 1..n, m[i] = m[j]
                 PROVE  f[i] = f[j]
      OBVIOUS
    <3>1. both[f[i]] = both[f[j]] /\ f[i] \in 1..Len(both) /\ f[j] \in 1..Len(both)
      BY <2>3, <2>4
    <3> QED
      BY <2>2, <3>1, Zenon
  <2> QED
    BY <1>6, <1>7, <2>1 DEF IsInjective
<1> QED
  BY <1>4, <1>6, <1>8 DEF SubList

LEMMA CrossedGenome ==
    ASSUME NEW a, NEW b, Genome(a), Genome(b), NEW c \in Crossed(a, b)
    PROVE  Genome(c)
<1>1. PICK from \in {m \in Mixes : Whole(m)},
           l \in [ops10  : MergedList(a.ops10, b.ops10, NoCap),
                  supers : MergedList(a.supers, b.supers, NoCap),
                  folds  : MergedList(a.folds, b.folds, FoldMax)] :
           c = Canon(Mixed(a, b, from, l))
  BY DEF Crossed
<1> DEFINE spec == {s \in Specs : s \in (IF s \in from THEN a.spec ELSE b.spec)}
           r == [k \in DOMAIN a |->
                   CASE k = "ops10"  -> l.ops10
                     [] k = "supers" -> l.supers
                     [] k = "folds"  -> l.folds
                     [] k = "spec"   -> spec
                     [] OTHER        -> IF k \in from THEN a[k] ELSE b[k]]
<1>2. /\ l.ops10 \in MergedList(a.ops10, b.ops10, NoCap)
      /\ l.supers \in MergedList(a.supers, b.supers, NoCap)
      /\ l.folds \in MergedList(a.folds, b.folds, FoldMax)
  OBVIOUS
<1>3. /\ DOMAIN a = AllGenes /\ a.enc \in Families /\ Lists(a)
      /\ b.enc \in Families /\ Lists(b)
  BY GenomeIs
<1>4. /\ SubList(l.ops10, Ops10Pool) /\ SubList(l.supers, SuperPool)
      /\ SubList(l.folds, FoldPool) /\ Len(l.folds) <= FoldMax
  <2>1. NoCap \in Nat /\ FoldMax \in Nat
    BY DEF NoCap, FoldMax
  <2> QED
    BY <1>2, <1>3, <2>1, MergedIs DEF Lists
<1>5. spec \subseteq Specs
  OBVIOUS
<1>10. Mixed(a, b, from, l) = r
  BY DEF Mixed
<1> HIDE DEF spec
<1>6. /\ DOMAIN r = AllGenes
      /\ r.ops10 = l.ops10 /\ r.supers = l.supers /\ r.folds = l.folds /\ r.spec = spec
      /\ \A k \in AllGenes \ {"ops10", "supers", "folds", "spec"} : r[k] = a[k] \/ r[k] = b[k]
  <2>1. DOMAIN r = AllGenes
    BY <1>3
  <2>2. \A k \in {"ops10", "supers", "folds", "spec"} : k \in AllGenes
    BY AllThere DEF ListGenes
  <2>3. r.ops10 = l.ops10 /\ r.supers = l.supers /\ r.folds = l.folds /\ r.spec = spec
    BY <1>3, <2>2
  <2>4. ASSUME NEW k \in AllGenes \ {"ops10", "supers", "folds", "spec"}
        PROVE  r[k] = a[k] \/ r[k] = b[k]
    BY <1>3
  <2> QED
    BY <2>1, <2>3, <2>4
<1> HIDE DEF r
<1>7. /\ Drawable(r, "ops10") /\ Drawable(r, "supers") /\ Drawable(r, "folds")
      /\ Drawable(r, "spec")
  BY <1>4, <1>5, <1>6 DEF Drawable
<1>8. r.enc \in Families
  BY <1>3, <1>6, AllThere
<1>9. Genome(r)
  BY <1>6, <1>7, <1>8, GenomeFrom
<1> QED
  BY <1>1, <1>9, <1>10, CanonGenome

LEMMA BorrowedGenome ==
    ASSUME NEW h, NEW donor, Genome(h), Genome(donor), NEW c \in Borrowed(h, donor)
    PROVE  Genome(c)
<1>1. PICK blk \in Blocks :
           c = [k \in DOMAIN h |-> IF k \in blk THEN Canon(donor)[k] ELSE Canon(h)[k]]
  BY DEF Borrowed
<1>2. Genome(Canon(donor)) /\ Genome(Canon(h)) /\ DOMAIN h = AllGenes
  BY CanonGenome DEF Genome
<1>3. DOMAIN c = AllGenes /\ \A k \in AllGenes : c[k] = Canon(donor)[k] \/ c[k] = Canon(h)[k]
  BY <1>1, <1>2
<1>4. c.enc \in Families
  BY <1>2, <1>3, AllThere DEF Genome
<1> QED
  BY <1>2, <1>3, <1>4, GenomeFrom

-----------------------------------------------------------------------------
(* ---- mutation ---- *)

LEMMA Inserted ==
    ASSUME NEW S, NEW f \in Seq(S), IsInjective(f), NEW i \in 1..(Len(f) + 1),
           NEW p \in S, p \notin ToSet(f)
    PROVE  SubList(InsertAt(f, i, p), S) /\ Len(InsertAt(f, i, p)) = Len(f) + 1
<1> DEFINE n == Len(f)
           x == SubSeq(f, 1, i - 1)
           y == SubSeq(f, i, n)
           r == (x \o <<p>>) \o y
<1>1. n \in Nat /\ i \in Int /\ 1 <= i /\ i <= n + 1 /\ DOMAIN f = 1..n
      /\ \A j \in 1..n : f[j] \in S /\ f[j] # p
  BY DEF ToSet
<1>2. r = InsertAt(f, i, p)
  BY DEF InsertAt
<1>3. x \in Seq(S) /\ Len(x) = i - 1 /\ \A j \in 1..(i - 1) : x[j] = f[j]
  <2>1. \A j \in 1..(i - 1) : f[j] \in S
    BY <1>1
  <2> QED
    BY <1>1, <2>1, SubSeqProperties
<1>4. y \in Seq(S) /\ Len(y) = n + 1 - i /\ \A j \in 1..(n + 1 - i) : y[j] = f[i + j - 1]
  <2>1. \A j \in i..n : f[j] \in S
    BY <1>1
  <2>2. /\ y \in Seq(S) /\ Len(y) = (IF i <= n THEN n - i + 1 ELSE 0)
        /\ \A j \in 1..(n - i + 1) : y[j] = f[i + j - 1]
    BY <1>1, <2>1, SubSeqProperties
  <2> HIDE DEF n, y
  <2> QED
    BY <1>1, <2>2
<1> HIDE DEF n, x, y
<1>5. /\ x \o <<p>> \in Seq(S) /\ Len(x \o <<p>>) = i
      /\ (x \o <<p>>)[i] = p
      /\ \A j \in 1..(i - 1) : (x \o <<p>>)[j] = x[j]
  <2>1. PICK w : w = <<p>>
    OBVIOUS
  <2>2. w \in Seq(S) /\ Len(w) = 1 /\ w[1] = p
    BY <2>1
  <2>3. PICK z : z = x
    OBVIOUS
  <2>4. z \in Seq(S) /\ w \in Seq(S)
    BY <1>3, <2>2, <2>3
  <2>5. /\ z \o w \in Seq(S) /\ Len(z \o w) = Len(z) + Len(w)
        /\ \A j \in 1..Len(z) : (z \o w)[j] = z[j]
        /\ \A j \in 1..Len(w) : (z \o w)[Len(z) + j] = w[j]
    BY ONLY <2>4
  <2>6. Len(z) = i - 1 /\ 1 \in 1..Len(w)
    BY <1>3, <2>2, <2>3
  <2>7. (z \o w)[Len(z) + 1] = p
    BY <2>2, <2>5, <2>6
  <2> QED
    BY <1>1, <2>1, <2>2, <2>3, <2>5, <2>6, <2>7
<1>6. /\ r \in Seq(S) /\ Len(r) = n + 1 /\ r[i] = p
      /\ \A j \in 1..(i - 1) : r[j] = f[j]
      /\ \A j \in 1..(n + 1 - i) : r[i + j] = f[i + j - 1]
  <2>3. PICK z : z = x \o <<p>>
    OBVIOUS
  <2>4. z \in Seq(S) /\ y \in Seq(S)
    BY <1>4, <1>5, <2>3
  <2>5. /\ z \o y \in Seq(S) /\ Len(z \o y) = Len(z) + Len(y)
        /\ \A j \in 1..Len(z) : (z \o y)[j] = z[j]
        /\ \A j \in 1..Len(y) : (z \o y)[Len(z) + j] = y[j]
    BY ONLY <2>4
  <2>6. Len(z) = i /\ i \in 1..i /\ \A j \in 1..(i - 1) : j \in 1..i /\ z[j] = f[j]
    BY <1>1, <1>3, <1>5, <2>3
  <2>7. r = z \o y
    BY <2>3
  <2> HIDE DEF r
  <2>8. r \in Seq(S) /\ Len(r) = n + 1
    <3>1. PICK b : b = Len(y)
      OBVIOUS
    <3>2. b = n + 1 - i
      BY <1>4, <3>1
    <3>3. Len(r) = i + b
      BY <2>5, <2>6, <2>7, <3>1
    <3>4. Len(r) = n + 1
      BY ONLY <1>1, <3>2, <3>3
    <3>5. r \in Seq(S)
      BY <2>5, <2>7
    <3> QED
      BY <3>4, <3>5
  <2>9. r[i] = p
    BY <1>5, <2>3, <2>5, <2>6, <2>7
  <2>10. \A j \in 1..(i - 1) : r[j] = f[j]
    BY <2>5, <2>6, <2>7
  <2>11. \A j \in 1..(n + 1 - i) : r[i + j] = f[i + j - 1]
    BY <1>4, <2>5, <2>6, <2>7
  <2> QED
    BY <2>8, <2>9, <2>10, <2>11
<1> HIDE DEF r
<1>7. \A k \in 1..(n + 1) : \/ k < i /\ k \in 1..n /\ r[k] = f[k]
                            \/ k = i /\ r[k] = p
                            \/ k > i /\ k - 1 \in 1..n /\ r[k] = f[k - 1]
  <2> SUFFICES ASSUME NEW k \in 1..(n + 1)
               PROVE  \/ k < i /\ k \in 1..n /\ r[k] = f[k]
                      \/ k = i /\ r[k] = p
                      \/ k > i /\ k - 1 \in 1..n /\ r[k] = f[k - 1]
    OBVIOUS
  <2>1. k \in Int /\ 1 <= k /\ k <= n + 1
    BY <1>1
  <2>2. CASE k < i
    BY <1>1, <1>6, <2>1, <2>2
  <2>3. CASE k = i
    BY <1>6, <2>3
  <2>4. CASE k > i
    <3>1. k - i \in 1..(n + 1 - i) /\ i + (k - i) = k /\ i + (k - i) - 1 = k - 1
      BY <1>1, <2>1, <2>4
    <3>2. r[i + (k - i)] = f[i + (k - i) - 1]
      BY <1>6, <3>1
    <3>3. r[k] = f[k - 1] /\ k - 1 \in 1..n
      BY <1>1, <2>1, <2>4, <3>1, <3>2
    <3> QED
      BY <2>4, <3>3
  <2> QED
    BY <1>1, <2>1, <2>2, <2>3, <2>4
<1>8. \A j, k \in 1..n : f[j] = f[k] => j = k
  BY <1>1 DEF IsInjective
<1>9. ASSUME NEW j \in 1..(n + 1), NEW k \in 1..(n + 1), r[j] = r[k]
      PROVE  j = k
  <2>1. j \in Int /\ k \in Int
    BY <1>1
  <2>2. CASE r[j] = p
    BY <1>1, <1>7, <1>9, <2>2
  <2>3. CASE r[j] # p
    <3>1. \/ j < i /\ j \in 1..n /\ r[j] = f[j]
          \/ j > i /\ j - 1 \in 1..n /\ r[j] = f[j - 1]
      BY <1>7, <2>3
    <3>2. \/ k < i /\ k \in 1..n /\ r[k] = f[k]
          \/ k > i /\ k - 1 \in 1..n /\ r[k] = f[k - 1]
      BY <1>7, <1>9, <2>3
    <3> QED
      BY <1>1, <1>8, <1>9, <2>1, <3>1, <3>2
  <2> QED
    BY <2>2, <2>3
<1>10. IsInjective(r)
  <2>1. DOMAIN r = 1..(n + 1)
    BY <1>6
  <2> QED
    BY <1>9, <2>1 DEF IsInjective
<1> QED
  BY <1>2, <1>6, <1>10 DEF SubList, n

LEMMA TakenOut ==
    ASSUME NEW S, NEW f \in Seq(S), IsInjective(f), NEW i \in DOMAIN f
    PROVE  SubList(RemoveAt(f, i), S) /\ Len(RemoveAt(f, i)) = Len(f) - 1
<1> DEFINE n == Len(f)
           x == SubSeq(f, 1, i - 1)
           y == SubSeq(f, i + 1, n)
           r == x \o y
<1>1. n \in Nat /\ i \in Int /\ 1 <= i /\ i <= n /\ DOMAIN f = 1..n
      /\ \A j \in 1..n : f[j] \in S
  OBVIOUS
<1>2. r = RemoveAt(f, i)
  BY DEF RemoveAt
<1>3. x \in Seq(S) /\ Len(x) = i - 1 /\ \A j \in 1..(i - 1) : x[j] = f[j]
  <2>1. \A j \in 1..(i - 1) : f[j] \in S
    BY <1>1
  <2> QED
    BY <1>1, <2>1, SubSeqProperties
<1>4. y \in Seq(S) /\ Len(y) = n - i /\ \A j \in 1..(n - i) : y[j] = f[i + j]
  <2>1. \A j \in (i + 1)..n : f[j] \in S
    BY <1>1
  <2>2. i + 1 \in Int /\ n \in Int
    BY <1>1
  <2>3. /\ y \in Seq(S) /\ Len(y) = (IF i + 1 <= n THEN n - (i + 1) + 1 ELSE 0)
        /\ \A j \in 1..(n - (i + 1) + 1) : y[j] = f[(i + 1) + j - 1]
    BY <2>1, <2>2, SubSeqProperties
  <2> HIDE DEF n, y
  <2>4. \A j \in 1..(n - i) : j \in 1..(n - (i + 1) + 1) /\ (i + 1) + j - 1 = i + j
    BY <1>1
  <2>5. Len(y) = n - i
    BY <1>1, <2>3
  <2> QED
    BY <2>3, <2>4, <2>5
<1> HIDE DEF n, x, y
<1>6. /\ r \in Seq(S) /\ Len(r) = n - 1
      /\ \A j \in 1..(i - 1) : r[j] = f[j]
      /\ \A j \in 1..(n - i) : r[(i - 1) + j] = f[i + j]
  <2>4. x \in Seq(S) /\ y \in Seq(S)
    BY <1>3, <1>4
  <2>5. /\ x \o y \in Seq(S) /\ Len(x \o y) = Len(x) + Len(y)
        /\ \A j \in 1..Len(x) : (x \o y)[j] = x[j]
        /\ \A j \in 1..Len(y) : (x \o y)[Len(x) + j] = y[j]
    BY ONLY <2>4
  <2>6. r = x \o y
    BY DEF r
  <2> HIDE DEF r
  <2>7. r \in Seq(S) /\ Len(r) = n - 1
    <3>1. PICK a : a = Len(x)
      OBVIOUS
    <3>2. PICK b : b = Len(y)
      OBVIOUS
    <3>3. a = i - 1 /\ b = n - i
      BY <1>3, <1>4, <3>1, <3>2
    <3>4. Len(r) = a + b
      BY <2>5, <2>6, <3>1, <3>2
    <3>5. Len(r) = n - 1
      BY ONLY <1>1, <3>3, <3>4
    <3>6. r \in Seq(S)
      BY <2>5, <2>6
    <3> QED
      BY <3>5, <3>6
  <2>8. \A j \in 1..(i - 1) : r[j] = f[j]
    BY <1>3, <2>5, <2>6
  <2>9. \A j \in 1..(n - i) : r[(i - 1) + j] = f[i + j]
    BY <1>3, <1>4, <2>5, <2>6
  <2> QED
    BY <2>7, <2>8, <2>9
<1> HIDE DEF r
<1>7. \A k \in 1..(n - 1) : \/ k < i /\ k \in 1..n /\ r[k] = f[k]
                            \/ k >= i /\ k + 1 \in 1..n /\ r[k] = f[k + 1]
  <2> SUFFICES ASSUME NEW k \in 1..(n - 1)
               PROVE  \/ k < i /\ k \in 1..n /\ r[k] = f[k]
                      \/ k >= i /\ k + 1 \in 1..n /\ r[k] = f[k + 1]
    OBVIOUS
  <2>1. k \in Int /\ 1 <= k /\ k <= n - 1
    BY <1>1
  <2>2. CASE k < i
    BY <1>1, <1>6, <2>1, <2>2
  <2>4. CASE k >= i
    <3>1. k + 1 - i \in 1..(n - i) /\ (i - 1) + (k + 1 - i) = k /\ i + (k + 1 - i) = k + 1
      BY <1>1, <2>1, <2>4
    <3>2. r[(i - 1) + (k + 1 - i)] = f[i + (k + 1 - i)]
      BY <1>6, <3>1
    <3>3. r[k] = f[k + 1] /\ k + 1 \in 1..n
      BY <1>1, <2>1, <2>4, <3>1, <3>2
    <3> QED
      BY <2>4, <3>3
  <2> QED
    BY <1>1, <2>1, <2>2, <2>4
<1>8. \A j, k \in 1..n : f[j] = f[k] => j = k
  BY <1>1 DEF IsInjective
<1>9. ASSUME NEW j \in 1..(n - 1), NEW k \in 1..(n - 1), r[j] = r[k]
      PROVE  j = k
  <2>1. j \in Int /\ k \in Int
    BY <1>1
  <2> QED
    BY <1>1, <1>7, <1>8, <1>9, <2>1
<1>10. IsInjective(r)
  <2>1. DOMAIN r = 1..(n - 1)
    BY <1>6
  <2> QED
    BY <1>9, <2>1 DEF IsInjective
<1> QED
  BY <1>2, <1>6, <1>10 DEF SubList, n

LEMMA SwappedIs ==
    ASSUME NEW S, NEW f \in Seq(S), IsInjective(f), NEW i \in DOMAIN f,
           NEW q \in S, q \notin ToSet(f)
    PROVE  SubList([f EXCEPT ![i] = q], S) /\ Len([f EXCEPT ![i] = q]) = Len(f)
<1> DEFINE r == [f EXCEPT ![i] = q]
<1>1. DOMAIN f = 1..Len(f) /\ Len(f) \in Nat
  OBVIOUS
<1>2. /\ r \in Seq(S) /\ Len(r) = Len(f) /\ DOMAIN r = DOMAIN f
      /\ \A j \in DOMAIN f : r[j] = IF j = i THEN q ELSE f[j]
  BY <1>1
<1>3. \A j \in DOMAIN f : f[j] # q
  BY DEF ToSet
<1> HIDE DEF r
<1>4. \A j, k \in DOMAIN f : r[j] = r[k] => j = k
  BY <1>2, <1>3 DEF IsInjective
<1>5. IsInjective(r)
  BY <1>2, <1>4 DEF IsInjective
<1> QED
  BY <1>2, <1>5 DEF SubList, r

LEMMA ListChangedIs ==
    ASSUME NEW S, NEW f \in Seq(S), IsInjective(f), NEW pool \in SUBSET S,
           NEW room \in BOOLEAN, NEW c \in ListChanged(f, pool, room)
    PROVE  SubList(c, S) /\ (Len(c) <= Len(f) \/ (room /\ Len(c) = Len(f) + 1))
<1> DEFINE out == pool \ ToSet(f)
<1>1. Len(f) \in Nat
  OBVIOUS
<1>2. CASE room /\ c \in Added(f, out)
  <2>1. PICK i \in 1..(Len(f) + 1), p \in out : c = InsertAt(f, i, p)
    BY <1>2 DEF Added
  <2>3. p \in S /\ p \notin ToSet(f)
    OBVIOUS
  <2>4. SubList(InsertAt(f, i, p), S) /\ Len(InsertAt(f, i, p)) = Len(f) + 1
    BY <2>3, Inserted
  <2>2. SubList(c, S) /\ Len(c) = Len(f) + 1
    BY <2>1, <2>4
  <2> QED
    BY <1>2, <2>2
<1>3. CASE c \in Removed(f)
  <2>1. PICK i \in DOMAIN f : c = RemoveAt(f, i)
    BY <1>3 DEF Removed
  <2>2. SubList(c, S) /\ Len(c) = Len(f) - 1
    BY <2>1, TakenOut
  <2>4. PICK n \in Nat : n = Len(f)
    BY <1>1
  <2>3. Len(c) <= Len(f)
    BY <2>2, <2>4
  <2> QED
    BY <2>2, <2>3
<1>4. CASE c \in Swapped(f, out)
  <2>1. PICK i \in DOMAIN f, q \in out : c = [f EXCEPT ![i] = q]
    BY <1>4 DEF Swapped
  <2>4. q \in S /\ q \notin ToSet(f)
    OBVIOUS
  <2>5. SubList([f EXCEPT ![i] = q], S) /\ Len([f EXCEPT ![i] = q]) = Len(f)
    BY <2>4, SwappedIs
  <2>2. SubList(c, S) /\ Len(c) = Len(f)
    BY <2>1, <2>5
  <2>6. PICK n \in Nat : n = Len(f)
    BY <1>1
  <2>3. Len(c) <= Len(f)
    BY <2>2, <2>6
  <2> QED
    BY <2>2, <2>3
<1> QED
  BY <1>2, <1>3, <1>4 DEF ListChanged

(* One gene changed to a value it can be drawn at.                         *)
LEMMA GeneChanged ==
    ASSUME NEW h, Genome(h), NEW k \in AllGenes \ {"enc"}, NEW v,
           Drawable([h EXCEPT ![k] = v], k)
    PROVE  Genome([h EXCEPT ![k] = v])
<1> DEFINE r == [h EXCEPT ![k] = v]
<1>1. DOMAIN h = AllGenes /\ h.enc \in Families /\ "enc" \in AllGenes
  BY AllThere DEF Genome
<1>2. DOMAIN r = AllGenes /\ \A j \in AllGenes \ {k} : r[j] = h[j]
  BY <1>1
<1>3. r.enc \in Families
  BY <1>1, <1>2
<1> HIDE DEF r
<1>4. Drawable(r, k)
  BY DEF r
<1>5. Genome(r)
  BY <1>2, <1>3, <1>4, GenomeFrom
<1> QED
  BY <1>5 DEF r

LEMMA ChangedGenome ==
    ASSUME NEW h, Genome(h), NEW k \in Pool(h), NEW c \in Changed(h, k)
    PROVE  Genome(c)
<1>1. DOMAIN h = AllGenes /\ h.enc \in Families /\ Lists(h)
  BY GenomeIs
<1>2. k \in AllGenes
  <2>1. CASE k \in Expressed(h.enc)
    <3>1. Expressed(h.enc) \subseteq {"skippad", "scale", "fold", "folds"} \cup EarlyCv8 \cup LateCv8
      BY <1>1 DEF Expressed, Families
    <3>2. {"skippad", "scale", "fold", "folds"} \subseteq AllGenes
      BY DEF AllGenes, EarlyCv8
    <3> QED
      BY <2>1, <3>1, <3>2 DEF AllGenes
  <2>2. CASE k \in CC0 \cup {"enc"}
    BY <2>2 DEF AllGenes
  <2> QED
    BY <2>1, <2>2 DEF Pool
<1>3. \A j \in ListGenes \cup {"spec"} : j \in AllGenes \ {"enc"}
  BY AllThere DEF ListGenes
<1>4. CASE k = "enc"
  <2>1. PICK f \in Families : c = [h EXCEPT !.enc = f]
    BY <1>4 DEF Changed
  <2>2. DOMAIN c = AllGenes /\ c.enc \in Families
        /\ \A j \in AllGenes \ {"enc"} : c[j] = h[j]
    BY <1>1, <2>1, AllThere
  <2> QED
    BY <2>2, GenomeFrom
<1>5. CASE k = "spec"
  <2>1. PICK s \in Toggled(h.spec) : c = [h EXCEPT !.spec = s]
    BY <1>5 DEF Changed
  <2>2. s \subseteq Specs
    BY <1>1 DEF Toggled, Lists
  <2>3. c.spec = s
    BY <1>1, <1>3, <2>1
  <2>4. Drawable(c, "spec")
    BY <2>2, <2>3 DEF Drawable
  <2> QED
    BY <1>3, <2>1, <2>4, GeneChanged
<1>6. CASE k = "ops10"
  <2>1. PICK f \in ListChanged(h.ops10, Ops10Pool, TRUE) : c = [h EXCEPT !.ops10 = f]
    BY <1>6 DEF Changed
  <2>2. SubList(f, Ops10Pool)
    BY <1>1, ListChangedIs DEF Lists
  <2>3. c.ops10 = f /\ "ops10" \in ListGenes
    BY <1>1, <1>3, <2>1 DEF ListGenes
  <2>4. Drawable(c, "ops10")
    BY <2>2, <2>3 DEF Drawable
  <2> QED
    BY <1>3, <2>1, <2>3, <2>4, GeneChanged
<1>7. CASE k = "opcall"
  <2>1. PICK f \in ListChanged(h.opcall, OpcallAvail(h), TRUE) : c = [h EXCEPT !.opcall = f]
    BY <1>7 DEF Changed
  <2>2. OpcallAvail(h) \in SUBSET OpcallPool
    BY DEF OpcallAvail
  <2>3. SubList(f, OpcallPool)
    BY <1>1, <2>2, ListChangedIs DEF Lists
  <2>4. c.opcall = f /\ "opcall" \in ListGenes
    BY <1>1, <1>3, <2>1 DEF ListGenes
  <2>5. Drawable(c, "opcall")
    BY <2>3, <2>4 DEF Drawable
  <2> QED
    BY <1>3, <2>1, <2>4, <2>5, GeneChanged
<1>8. CASE k = "supers"
  <2>1. PICK f \in ListChanged(h.supers, SuperPool, TRUE) : c = [h EXCEPT !.supers = f]
    BY <1>8 DEF Changed
  <2>2. SubList(f, SuperPool)
    BY <1>1, ListChangedIs DEF Lists
  <2>3. c.supers = f /\ "supers" \in ListGenes
    BY <1>1, <1>3, <2>1 DEF ListGenes
  <2>4. Drawable(c, "supers")
    BY <2>2, <2>3 DEF Drawable
  <2> QED
    BY <1>3, <2>1, <2>3, <2>4, GeneChanged
<1>9. CASE k = "folds"
  <2>1. PICK n \in 0..FoldMax : n = Len(h.folds)
    BY <1>1 DEF Lists
  <2> DEFINE room == Len(h.folds) < FoldMax
  <2>2. room \in BOOLEAN /\ (room => n < FoldMax)
    BY <2>1
  <2>3. PICK f \in ListChanged(h.folds, FoldPool, room) : c = [h EXCEPT !.folds = f]
    BY <1>9 DEF Changed
  <2> HIDE DEF room
  <2>4. SubList(f, FoldPool) /\ (Len(f) <= Len(h.folds) \/ (room /\ Len(f) = Len(h.folds) + 1))
    BY <1>1, <2>2, ListChangedIs DEF Lists
  <2>5. PICK m : m = Len(f)
    OBVIOUS
  <2>6. m \in Nat
    BY <2>4, <2>5 DEF SubList
  <2>10. m <= n \/ (room /\ m = n + 1)
    BY <2>1, <2>4, <2>5
  <2>12. n \in Nat /\ n <= FoldMax /\ FoldMax \in Nat
    BY DEF FoldMax
  <2>11. m <= FoldMax
    <3>1. CASE m <= n
      BY <2>6, <2>12, <3>1
    <3>2. CASE room /\ m = n + 1
      <4>1. n < FoldMax /\ m = n + 1
        BY <2>2, <3>2
      <4> QED
        BY <2>6, <2>12, <4>1
    <3> QED
      BY <2>10, <3>1, <3>2
  <2>7. Len(f) <= FoldMax
    BY <2>5, <2>11
  <2>8. c.folds = f /\ "folds" \in ListGenes
    BY <1>1, <1>3, <2>3 DEF ListGenes
  <2>9. Drawable(c, "folds")
    BY <2>4, <2>7, <2>8 DEF Drawable
  <2> QED
    BY <1>3, <2>3, <2>8, <2>9, GeneChanged
<1>10. CASE k \notin {"enc", "spec", "ops10", "opcall", "supers", "folds"}
  <2>1. PICK v \in Values(k) : c = [h EXCEPT ![k] = v]
    BY <1>10 DEF Changed
  <2>2. c[k] = v
    BY <1>1, <1>2, <2>1
  <2>3. Drawable(c, k)
    BY <1>10, <2>2 DEF Drawable
  <2> QED
    BY <1>2, <1>10, <2>1, <2>3, GeneChanged
<1> QED
  BY <1>4, <1>5, <1>6, <1>7, <1>8, <1>9, <1>10

LEMMA RepairedGenome ==
    ASSUME NEW h, Genome(h)
    PROVE  Genome(Repaired(h))
<1> DEFINE r == Repaired(h)
<1>1. DOMAIN h = AllGenes /\ h.enc \in Families /\ Lists(h)
      /\ \A k \in Others : h[k] \in Values(k)
  BY GenomeIs
<1>2. Fixed(h, r)
  BY <1>1, RepairFixes
<1> HIDE DEF r
<1>3. /\ \A k \in {"rtloop", "escape", "ops10"} : k \in AllGenes
      /\ "rtloop" \in Others /\ "escape" \in Others
  BY AllThere DEF ListGenes, Others
<1>4. Values("rtloop") = 0..2 /\ Values("escape") = 0..2
  BY DEF Values
<1>5. Drawable(r, "rtloop") /\ Drawable(r, "escape")
  <2>1. h.rtloop \in 0..2 /\ h.escape \in 0..2
    BY <1>1, <1>3, <1>4
  <2>2. r.rtloop \in 0..2 /\ r.escape \in 0..2
    BY <1>2, <2>1 DEF Fixed
  <2> QED
    BY <1>4, <2>2 DEF Drawable
<1>6. Drawable(r, "ops10")
  <2>1. SubList(r.ops10, Ops10Pool)
    BY <1>1, <1>2, <1>3, LoopedIs DEF Fixed, SubList
  <2> QED
    BY <2>1 DEF Drawable
<1>7. DOMAIN r = AllGenes /\ r.enc \in Families
  BY <1>1, <1>2, AllThere DEF Fixed
<1>8. Genome(r)
  BY <1>2, <1>5, <1>6, <1>7, GenomeFrom DEF Fixed
<1> QED
  BY <1>8 DEF r

LEMMA MutatedGenome ==
    ASSUME NEW h, Genome(h), NEW k \in Pool(h), NEW c \in Changed(Canon(h), k),
           NEW r \in Mutated(h, c)
    PROVE  Genome(r)
<1>1. k \in Pool(Canon(h))
  <2>1. Canon(h).enc = h.enc
    <3>1. DOMAIN h = AllGenes
      BY DEF Genome
    <3> QED
      BY <3>1, AllThere DEF Canon
  <2> QED
    BY <2>1 DEF Pool
<1>2. Genome(c)
  BY <1>1, CanonGenome, ChangedGenome
<1>3. r = c \/ r = Repaired(c)
  BY DEF Mutated
<1> QED
  BY <1>2, <1>3, RepairedGenome

-----------------------------------------------------------------------------
(* ---- the theorems ---- *)

Inv == Genome(g) /\ steps \in 0..MaxSteps

LEMMA StepInv ==
    ASSUME Inv, NEW to, Step(to)
    PROVE  steps' \in 0..MaxSteps
BY PartnersAssumption DEF Inv, Step

(* Whatever is crossed, borrowed into, mutated and asked for, the genome in *)
(* hand is one random_genome could draw: every gene at a value of its own,  *)
(* no list with a word twice or with one from outside its pool, no fold     *)
(* more than there are codes (crossover, borrow, mutate, rtloopall_repair). *)
THEOREM BredCanBeDrawn == Spec => []Inv
<1>1. Init => Inv
  <2> SUFFICES ASSUME Init
               PROVE  Inv
    OBVIOUS
  <2>1. CASE g \in HandMade
    BY <2>1, FoundersAssumption, PartnersAssumption DEF Init, Inv
  <2>2. CASE \E d \in Drawn : g = Asked(d)
    BY <2>2, RandomGenome, AskedGenome, PartnersAssumption DEF Init, Inv
  <2> QED
    BY <2>1, <2>2 DEF Init
<1>2. Inv /\ [Next]_vars => Inv'
  <2> SUFFICES ASSUME Inv, [Next]_vars
               PROVE  Inv'
    OBVIOUS
  <2>0. Genome(g) /\ steps \in 0..MaxSteps
    BY DEF Inv
  <2>5. \A p \in Partners(steps) : Genome(p)
    BY <2>0, PartnersAssumption
  <2>1. CASE Cross
    <3>1. PICK p \in Partners(steps) : g' \in Crossed(Canon(g), Canon(p))
      BY <2>1 DEF Cross
    <3>2. Genome(g')
      BY <2>0, <2>5, <3>1, CanonGenome, CrossedGenome
    <3> QED
      BY <2>1, <3>2, StepInv DEF Cross, Inv, Genome, Drawable
  <2>2. CASE Borrow
    <3>1. PICK donor \in Partners(steps) : g' \in Borrowed(g, donor)
      BY <2>2 DEF Borrow
    <3>2. Genome(g')
      BY <2>0, <2>5, <3>1, BorrowedGenome
    <3> QED
      BY <2>2, <3>2, StepInv DEF Borrow, Inv, Genome, Drawable
  <2>3. CASE Mutate
    <3>1. PICK k \in Pool(g) : \E h \in Changed(Canon(g), k) : g' \in Mutated(g, h)
      BY <2>3 DEF Mutate
    <3>2. Genome(g')
      BY <2>0, <3>1, MutatedGenome
    <3> QED
      BY <2>3, <3>2, StepInv DEF Mutate, Inv, Genome, Drawable
  <2>4. CASE Ask
    <3>1. Genome(g')
      BY <2>0, <2>4, AskedGenome DEF Ask
    <3> QED
      BY <2>0, <2>4, <3>1 DEF Ask, Inv, Genome, Drawable
  <2>6. CASE UNCHANGED vars
    BY <2>0, <2>6 DEF vars, Inv, Genome, Drawable
  <2> QED
    BY <2>1, <2>2, <2>3, <2>4, <2>6 DEF Next
<1> QED
  BY <1>1, <1>2, PTL DEF Spec

(* Whatever is bred, no two things the engine decodes share an opcode:     *)
(* super_slots, ops10_in and supers_in, for every list of words, pairs and *)
(* folds from pools of any size.                                           *)
THEOREM OpcodesAlwaysApart == Spec => []OpcodesApart
<1>1. Inv => OpcodesApart
  BY GenomeIs, CodesApart DEF Inv
<1> QED
  BY <1>1, BredCanBeDrawn, PTL

(* Whatever is bred and asked for, the run-time compilers built in have     *)
(* the opcodes they write: the eight loop words, and I+.                    *)
THEOREM OverlaysAlwaysHaveTheirs == Spec => []OverlaysHaveTheirOpcodes
<1>1. ASSUME Inv
      PROVE  OverlaysHaveTheirOpcodes
  <2>1. PICK h : h = Asked(g)
    OBVIOUS
  <2>2. Lists(h)
    BY <1>1, <2>1, AskedGenome, GenomeIs DEF Inv
  <2>3. Dump(h).loops = "loopall" => RtloopallOn(h)
    BY DEF Dump
  <2>4. Dump(h).iplus = RtiplusOn(h)
    BY DEF Dump
  <2> QED
    BY <2>1, <2>2, <2>3, <2>4, LoopsGiven, IPlusGiven DEF OverlaysHaveTheirOpcodes
<1> QED
  BY <1>1, BredCanBeDrawn, PTL

(* Two repairs are always enough for rtloopall, whatever the list, the      *)
(* folds, and the genes that claim words before the loop's.                 *)
THEOREM TwoRepairsAreEnough == Spec => []SecondRepairIsEnough
<1>1. ASSUME Inv
      PROVE  SecondRepairIsEnough
  <2>1. "rtloopall" \in AllGenes \ {"enc"} /\ DOMAIN g = AllGenes
    BY <1>1, AllThere DEF Inv, Genome
  <2>2. Drawable([g EXCEPT !.rtloopall = 1], "rtloopall")
    BY <2>1 DEF Drawable, Values
  <2>3. Genome([g EXCEPT !.rtloopall = 1])
    BY <1>1, <2>1, <2>2, GeneChanged DEF Inv
  <2>4. PICK h : h = Asked([g EXCEPT !.rtloopall = 1])
    OBVIOUS
  <2>5. Lists(h) /\ DOMAIN h = AllGenes
    BY <2>3, <2>4, AskedGenome, GenomeIs
  <2> QED
    BY <2>4, <2>5, TwiceRepaired DEF SecondRepairIsEnough
<1> QED
  BY <1>1, BredCanBeDrawn, PTL

(* ---- what drops a gene from the id ---- *)
LEMMA InRules ==
    ASSUME NEW h, NEW k
    PROVE  k \in RuleDropped(h) <=>
             \/ ~ToFuse(h) /\ k = "rtfuse"
             \/ ~("imm" \in h.spec /\ Overlay(h)) /\ k = "rtimm"
             \/ ~RtloopOn(h) /\ k = "rtloop"
             \/ ~RtloopallOn(h) /\ k = "rtloopall"
             \/ ~(RtloopallOn(h) /\ h.rtiplus # 0) /\ k = "rtiplus"
             \/ ~KfastOn(h) /\ k = "kfast"
             \/ ~TfindOn(h) /\ k = "tfind"
             \/ ~KinputOn(h) /\ k = "kinput"
             \/ ~KlookupOn(h) /\ k = "klookup"
             \/ ~KnumberOn(h) /\ k = "knumber"
             \/ ~SwapiOn(h) /\ k = "swapi"
             \/ ~Tag2(h) /\ k \in OnTag
             \/ ~T2wideOn(h) /\ k = "t2wide"
             \/ KinputOn(h) /\ k = "kstack"
             \/ ~(h.varcall # 0 /\ ~Tag2(h)) /\ k = "hotcalls"
             \/ ~JitOn(h) /\ k \in OnJit
             \/ ~(JitOn(h) /\ h.jitx # 0) /\ k \in OnJitx
             \/ ~(~Clang(h) /\ CellWidth = 8 /\ h.lto = 0) /\ k = "jitrp"
             \/ ~(h.opt # "Os") /\ k = "jitos"
             \/ ~(Given10(h) \cap OpBody # {}) /\ k = "opbody"
             \/ ~(\/ Given10(h) \cap OpbBase # {}
                  \/ h.opbody # 0 /\ Given10(h) \cap OpBody # {}) /\ k = "opinline"
             \/ ~(Given10(h) \cap {"THREAD-FIND", "(FIND)"} # {}) /\ k = "bfind"
             \/ ~(Clang(h) /\ h.tail # 0 /\ h.tos # 0 /\ ~MscOn(h)) /\ k = "tailpn"
BY DEF RuleDropped, Unless

LEMMA InDropped ==
    ASSUME NEW h, Cv8(h), NEW k
    PROVE  k \in Dropped(h) <=>
             \/ k \in RuleDropped(h)
             \/ IF h.varcall # 0 THEN k = "sharedcall" ELSE k = "doesfar"
             \/ h.tos = 0 /\ k \in {"msc", "tail"}
             \/ MscOn(h) /\ k \in {"d256", "sharedcall", "tail"}
             \/ ~(h.tail = 0 \/ h.tos = 0 \/ MscOn(h)) /\ k \in {"d256", "sharedcall"}
             \/ Clang(h) /\ k \in GccOnly
             \/ ~Clang(h) /\ k = "compiler"
             \/ ~Clang(h) /\ ~(h.align1 = 0 /\ h.alignfn = 0) /\ k = "alignhot"
BY DEF Dropped, DispatchDropped, CompilerDropped, Unless

(* The genes no rule of express() drops from a CV8 id.                      *)
Plain == {"tos","scale","bytehdr","spec","varcall","varslot","guard","folds","escape",
             "bss","thinhdr","abortif","lean","threads","fbuf","fsys","dskew"}

LEMMA NeverDropped ==
    ASSUME NEW h, Cv8(h), NEW k \in Plain \cup {"supers","ops10","opcall"}
    PROVE k \notin Dropped(h)
<1>1. k \notin RuleDropped(h)
   BY InRules DEF Plain, OnTag, OnJit, OnJitx
<1>2. QED BY <1>1, InDropped DEF Plain, GccOnly


(* What drops each gene that the settings of build() read.                 *)
DropsOf(h) ==
    /\ "kfast" \in Dropped(h) <=> ~KfastOn(h)
    /\ "tfind" \in Dropped(h) <=> ~TfindOn(h)
    /\ "kinput" \in Dropped(h) <=> ~KinputOn(h)
    /\ "klookup" \in Dropped(h) <=> ~KlookupOn(h)
    /\ "knumber" \in Dropped(h) <=> ~KnumberOn(h)
    /\ "rtfuse" \in Dropped(h) <=> ~ToFuse(h)
    /\ "rtimm" \in Dropped(h) <=> ~("imm" \in h.spec /\ Overlay(h))
    /\ "rtloop" \in Dropped(h) <=> ~RtloopOn(h)
    /\ "rtloopall" \in Dropped(h) <=> ~RtloopallOn(h)
    /\ "rtiplus" \in Dropped(h) <=> ~RtiplusOn(h)
    /\ "tag2" \in Dropped(h) <=> ~Tag2(h)
    /\ "t2wide" \in Dropped(h) <=> ~T2wideOn(h) \/ ~Tag2(h)
    /\ "t2hot" \in Dropped(h) <=> ~Tag2(h)
    /\ "hotinl" \in Dropped(h) <=> ~Tag2(h)
    /\ "rtempty" \in Dropped(h) <=> ~Tag2(h)
    /\ "factor" \in Dropped(h) <=> ~Tag2(h)
    /\ "hotcalls" \in Dropped(h) <=> ~(h.varcall # 0 /\ ~Tag2(h))
    /\ "jit" \in Dropped(h) <=> ~JitOn(h)
    /\ "jitx" \in Dropped(h) <=> ~JitOn(h)
    /\ "opbody" \in Dropped(h) <=> ~(Given10(h) \cap OpBody # {})
    /\ "msc" \in Dropped(h) <=> h.tos = 0
    /\ "doesfar" \in Dropped(h) <=> h.varcall = 0
    /\ "sharedcall" \in Dropped(h) <=> h.varcall # 0 \/ MscOn(h)
    /\ "d256" \in Dropped(h) <=> MscOn(h)

LEMMA DropsAre == ASSUME NEW h, Cv8(h), h.tail = 0 PROVE DropsOf(h)
<1>1. "kfast" \in Dropped(h) <=> ~KfastOn(h)
  <2>1. "kfast" \in RuleDropped(h) <=> ~KfastOn(h)
    BY InRules DEF OnTag, OnJit, OnJitx, RtiplusOn
  <2>2. QED BY <2>1, InDropped DEF GccOnly
<1>2. "tfind" \in Dropped(h) <=> ~TfindOn(h)
  <2>1. "tfind" \in RuleDropped(h) <=> ~TfindOn(h)
    BY InRules DEF OnTag, OnJit, OnJitx, RtiplusOn
  <2>2. QED BY <2>1, InDropped DEF GccOnly
<1>3. "kinput" \in Dropped(h) <=> ~KinputOn(h)
  <2>1. "kinput" \in RuleDropped(h) <=> ~KinputOn(h)
    BY InRules DEF OnTag, OnJit, OnJitx, RtiplusOn
  <2>2. QED BY <2>1, InDropped DEF GccOnly
<1>4. "klookup" \in Dropped(h) <=> ~KlookupOn(h)
  <2>1. "klookup" \in RuleDropped(h) <=> ~KlookupOn(h)
    BY InRules DEF OnTag, OnJit, OnJitx, RtiplusOn
  <2>2. QED BY <2>1, InDropped DEF GccOnly
<1>5. "knumber" \in Dropped(h) <=> ~KnumberOn(h)
  <2>1. "knumber" \in RuleDropped(h) <=> ~KnumberOn(h)
    BY InRules DEF OnTag, OnJit, OnJitx, RtiplusOn
  <2>2. QED BY <2>1, InDropped DEF GccOnly
<1>6. "rtfuse" \in Dropped(h) <=> ~ToFuse(h)
  <2>1. "rtfuse" \in RuleDropped(h) <=> ~ToFuse(h)
    BY InRules DEF OnTag, OnJit, OnJitx, RtiplusOn
  <2>2. QED BY <2>1, InDropped DEF GccOnly
<1>7. "rtimm" \in Dropped(h) <=> ~("imm" \in h.spec /\ Overlay(h))
  <2>1. "rtimm" \in RuleDropped(h) <=> ~("imm" \in h.spec /\ Overlay(h))
    BY InRules DEF OnTag, OnJit, OnJitx, RtiplusOn
  <2>2. QED BY <2>1, InDropped DEF GccOnly
<1>8. "rtloop" \in Dropped(h) <=> ~RtloopOn(h)
  <2>1. "rtloop" \in RuleDropped(h) <=> ~RtloopOn(h)
    BY InRules DEF OnTag, OnJit, OnJitx, RtiplusOn
  <2>2. QED BY <2>1, InDropped DEF GccOnly
<1>9. "rtloopall" \in Dropped(h) <=> ~RtloopallOn(h)
  <2>1. "rtloopall" \in RuleDropped(h) <=> ~RtloopallOn(h)
    BY InRules DEF OnTag, OnJit, OnJitx, RtiplusOn
  <2>2. QED BY <2>1, InDropped DEF GccOnly
<1>10. "rtiplus" \in Dropped(h) <=> ~RtiplusOn(h)
  <2>1. "rtiplus" \in RuleDropped(h) <=> ~RtiplusOn(h)
    BY InRules DEF OnTag, OnJit, OnJitx, RtiplusOn
  <2>2. QED BY <2>1, InDropped DEF GccOnly
<1>11. "tag2" \in Dropped(h) <=> ~Tag2(h)
  <2>1. "tag2" \in RuleDropped(h) <=> ~Tag2(h)
    BY InRules DEF OnTag, OnJit, OnJitx, RtiplusOn
  <2>2. QED BY <2>1, InDropped DEF GccOnly
<1>12. "t2wide" \in Dropped(h) <=> ~T2wideOn(h) \/ ~Tag2(h)
  <2>1. "t2wide" \in RuleDropped(h) <=> ~T2wideOn(h) \/ ~Tag2(h)
    BY InRules DEF OnTag, OnJit, OnJitx, RtiplusOn
  <2>2. QED BY <2>1, InDropped DEF GccOnly
<1>13. "t2hot" \in Dropped(h) <=> ~Tag2(h)
  <2>1. "t2hot" \in RuleDropped(h) <=> ~Tag2(h)
    BY InRules DEF OnTag, OnJit, OnJitx, RtiplusOn
  <2>2. QED BY <2>1, InDropped DEF GccOnly
<1>14. "hotinl" \in Dropped(h) <=> ~Tag2(h)
  <2>1. "hotinl" \in RuleDropped(h) <=> ~Tag2(h)
    BY InRules DEF OnTag, OnJit, OnJitx, RtiplusOn
  <2>2. QED BY <2>1, InDropped DEF GccOnly
<1>15. "rtempty" \in Dropped(h) <=> ~Tag2(h)
  <2>1. "rtempty" \in RuleDropped(h) <=> ~Tag2(h)
    BY InRules DEF OnTag, OnJit, OnJitx, RtiplusOn
  <2>2. QED BY <2>1, InDropped DEF GccOnly
<1>16. "factor" \in Dropped(h) <=> ~Tag2(h)
  <2>1. "factor" \in RuleDropped(h) <=> ~Tag2(h)
    BY InRules DEF OnTag, OnJit, OnJitx, RtiplusOn
  <2>2. QED BY <2>1, InDropped DEF GccOnly
<1>17. "hotcalls" \in Dropped(h) <=> ~(h.varcall # 0 /\ ~Tag2(h))
  <2>1. "hotcalls" \in RuleDropped(h) <=> ~(h.varcall # 0 /\ ~Tag2(h))
    BY InRules DEF OnTag, OnJit, OnJitx, RtiplusOn
  <2>2. QED BY <2>1, InDropped DEF GccOnly
<1>18. "jit" \in Dropped(h) <=> ~JitOn(h)
  <2>1. "jit" \in RuleDropped(h) <=> ~JitOn(h)
    BY InRules DEF OnTag, OnJit, OnJitx, RtiplusOn
  <2>2. QED BY <2>1, InDropped DEF GccOnly
<1>19. "jitx" \in Dropped(h) <=> ~JitOn(h)
  <2>1. "jitx" \in RuleDropped(h) <=> ~JitOn(h)
    BY InRules DEF OnTag, OnJit, OnJitx, RtiplusOn
  <2>2. QED BY <2>1, InDropped DEF GccOnly
<1>20. "opbody" \in Dropped(h) <=> ~(Given10(h) \cap OpBody # {})
  <2>1. "opbody" \in RuleDropped(h) <=> ~(Given10(h) \cap OpBody # {})
    BY InRules DEF OnTag, OnJit, OnJitx, RtiplusOn
  <2>2. QED BY <2>1, InDropped DEF GccOnly
<1>21. "msc" \in Dropped(h) <=> h.tos = 0
  <2>1. "msc" \in RuleDropped(h) <=> FALSE
    BY InRules DEF OnTag, OnJit, OnJitx, RtiplusOn
  <2>2. QED BY <2>1, InDropped DEF GccOnly
<1>22. "doesfar" \in Dropped(h) <=> h.varcall = 0
  <2>1. "doesfar" \in RuleDropped(h) <=> FALSE
    BY InRules DEF OnTag, OnJit, OnJitx, RtiplusOn
  <2>2. QED BY <2>1, InDropped DEF GccOnly
<1>23. "sharedcall" \in Dropped(h) <=> h.varcall # 0 \/ MscOn(h)
  <2>1. "sharedcall" \in RuleDropped(h) <=> FALSE
    BY InRules DEF OnTag, OnJit, OnJitx, RtiplusOn
  <2>2. QED BY <2>1, InDropped DEF GccOnly
<1>24. "d256" \in Dropped(h) <=> MscOn(h)
  <2>1. "d256" \in RuleDropped(h) <=> FALSE
    BY InRules DEF OnTag, OnJit, OnJitx, RtiplusOn
  <2>2. QED BY <2>1, InDropped DEF GccOnly
<1>99. QED BY <1>1, <1>2, <1>3, <1>4, <1>5, <1>6, <1>7, <1>8, <1>9, <1>10, <1>11, <1>12, <1>13, <1>14, <1>15, <1>16, <1>17, <1>18, <1>19, <1>20, <1>21, <1>22, <1>23, <1>24 DEF DropsOf

-----------------------------------------------------------------------------

(* ---- two CV8 genomes of one id ---- *)

(* Tail calls are frozen off: Asked has seen to it.                         *)
SameId(h, j) ==
    /\ Cv8(h) /\ Cv8(j) /\ h.tail = 0 /\ j.tail = 0
    /\ Live(h) = Live(j)
    /\ \A k \in Live(h) : Shown(h, k) = Shown(j, k)

(* The genes whose value in the id is not the genome's.                     *)
Odd == {"supers", "ops10", "opcall", "rtimm", "rtloop"}

LEMMA LiveIs ==
    ASSUME NEW h, Cv8(h), NEW k \in EarlyCv8 \cup LateCv8, k # "opcall"
    PROVE  k \in Live(h) <=> k \notin Dropped(h) /\ (k \in Late => h[k] # 0)
BY DEF Live, Expressed, Cv8

LEMMA ShownIs ==
    ASSUME NEW h, NEW k, k \notin Odd
    PROVE  Shown(h, k) = h[k]
BY DEF Shown, Odd

LEMMA SameBack == ASSUME NEW h, NEW j, SameId(h, j) PROVE SameId(j, h)
BY DEF SameId

(* What one has in the id the other has too, at the same value.             *)
LEMMA Carried ==
    ASSUME NEW h, NEW j, SameId(h, j),
           NEW k \in (EarlyCv8 \cup LateCv8) \ Odd,
           k \notin Dropped(h), k \in Late => h[k] # 0
    PROVE  k \notin Dropped(j) /\ h[k] = j[k]
<1>1. Cv8(h) /\ Cv8(j) /\ k # "opcall" BY DEF SameId, Odd
<1>2. k \in Live(h) BY <1>1, LiveIs
<1>3. k \in Live(j) /\ Shown(h, k) = Shown(j, k) BY <1>2 DEF SameId
<1>4. k \notin Dropped(j) BY <1>1, <1>3, LiveIs
<1>5. QED BY <1>3, <1>4, ShownIs

(* A gene that neither drops is the same, be it that both have it off.      *)
LEMMA SameValue ==
    ASSUME NEW h, NEW j, SameId(h, j),
           NEW k \in (EarlyCv8 \cup LateCv8) \ Odd,
           k \notin Dropped(h), k \notin Dropped(j)
    PROVE  h[k] = j[k]
<1>1. CASE k \in Late => h[k] # 0 BY <1>1, Carried
<1>2. CASE k \in Late => j[k] # 0 BY <1>2, Carried, SameBack
<1>3. CASE h[k] = 0 /\ j[k] = 0 BY <1>3
<1>4. QED BY <1>1, <1>2, <1>3

Gated == {"kfast", "tfind", "kinput", "klookup", "knumber", "rtloopall", "rtiplus", "tag2",
          "t2wide", "t2hot", "hotinl", "rtempty", "factor", "hotcalls", "jit", "jitx",
          "opbody"}

LEMMA ReadGenes ==
    /\ Plain \subseteq (EarlyCv8 \cup LateCv8) \ Odd
    /\ Gated \cup {"rtfuse", "msc", "doesfar", "sharedcall", "d256"}
         \subseteq (EarlyCv8 \cup LateCv8) \ Odd
    /\ Gated \subseteq Late
BY DEF Plain, Gated, EarlyCv8, LateCv8, Late, Odd, OnTag, OnJit, OnJitx

-----------------------------------------------------------------------------

LEMMA PlainSame ==
    ASSUME NEW h, NEW j, SameId(h, j), NEW k \in Plain
    PROVE  h[k] = j[k]
<1>1. Cv8(h) /\ Cv8(j) BY DEF SameId
<1>2. k \notin Dropped(h) /\ k \notin Dropped(j) BY <1>1, NeverDropped
<1>3. QED BY <1>2, SameValue, ReadGenes DEF Gated

LEMMA ListsSame ==
    ASSUME NEW h, NEW j, SameId(h, j)
    PROVE  SupersIn(h) = SupersIn(j) /\ Ops10In(h) = Ops10In(j) /\ OpcallIn(h) = OpcallIn(j)
<1>1. Cv8(h) /\ Cv8(j) BY DEF SameId
<1>2. \A k \in {"supers", "ops10", "opcall"} : k \notin Dropped(h) /\ k \notin Dropped(j)
  BY <1>1, NeverDropped
<1>3. \A k \in {"supers", "ops10"} : k \in Live(h)
  BY <1>1, <1>2 DEF Live, Expressed, Cv8, EarlyCv8, LateCv8, Late, OnTag, OnJit, OnJitx
<1>4. ("opcall" \in Live(h) <=> OpcallIn(h) # <<>>) /\ ("opcall" \in Live(j) <=> OpcallIn(j) # <<>>)
  BY <1>1, <1>2 DEF Live, Expressed, Cv8, LateCv8, Late
<1>5. SupersIn(h) = SupersIn(j) /\ Ops10In(h) = Ops10In(j)
  BY <1>3 DEF SameId, Shown
<1>6. OpcallIn(h) = OpcallIn(j)
  <2>1. CASE "opcall" \in Live(h) BY <2>1 DEF SameId, Shown
  <2>2. CASE "opcall" \notin Live(h) BY <2>2, <1>4 DEF SameId
  <2>3. QED BY <2>1, <2>2
<1>7. QED BY <1>5, <1>6

LEMMA CodesSame ==
    ASSUME NEW h, NEW j, SameId(h, j)
    PROVE  Ops10Codes(h) = Ops10Codes(j) /\ SuperCodes(h) = SuperCodes(j)
<1>1. h.folds = j.folds /\ h.spec = j.spec /\ h.escape = j.escape
  BY PlainSame DEF Plain
<1>2. SuperSlots(h) = SuperSlots(j) BY <1>1 DEF SuperSlots, FirstFreed
<1>3. QED BY <1>2, ListsSame DEF Ops10Codes, SuperCodes, PairSlots

(* Each gene that is dropped unless it counts says by being there that it    *)
(* does.                                                                    *)
LEMMA GatesCarry ==
    ASSUME NEW h, NEW j, SameId(h, j)
    PROVE  /\ KfastOn(h) => KfastOn(j)
           /\ KinputOn(h) => KinputOn(j)
           /\ KlookupOn(h) => KlookupOn(j)
           /\ KnumberOn(h) => KnumberOn(j)
           /\ RtloopallOn(h) => RtloopallOn(j)
           /\ RtiplusOn(h) => RtiplusOn(j)
           /\ Tag2(h) => Tag2(j)
           /\ T2wideOn(h) => T2wideOn(j)
           /\ JitOn(h) => JitOn(j)
<1>1. DropsOf(h) /\ DropsOf(j) BY DropsAre DEF SameId
<1>2. KfastOn(h) => KfastOn(j)
  <2> SUFFICES ASSUME KfastOn(h) PROVE KfastOn(j) OBVIOUS
  <2>1. h["kfast"] # 0 BY DEF KfastOn
  <2>2. "kfast" \notin Dropped(h) BY <1>1 DEF DropsOf
  <2>3. "kfast" \notin Dropped(j) BY <2>1, <2>2, Carried, ReadGenes DEF Gated
  <2>4. QED BY <1>1, <2>3 DEF DropsOf
<1>3. KinputOn(h) => KinputOn(j)
  <2> SUFFICES ASSUME KinputOn(h) PROVE KinputOn(j) OBVIOUS
  <2>1. h["kinput"] # 0 BY DEF KinputOn
  <2>2. "kinput" \notin Dropped(h) BY <1>1 DEF DropsOf
  <2>3. "kinput" \notin Dropped(j) BY <2>1, <2>2, Carried, ReadGenes DEF Gated
  <2>4. QED BY <1>1, <2>3 DEF DropsOf
<1>4. KlookupOn(h) => KlookupOn(j)
  <2> SUFFICES ASSUME KlookupOn(h) PROVE KlookupOn(j) OBVIOUS
  <2>1. h["klookup"] # 0 BY DEF KlookupOn
  <2>2. "klookup" \notin Dropped(h) BY <1>1 DEF DropsOf
  <2>3. "klookup" \notin Dropped(j) BY <2>1, <2>2, Carried, ReadGenes DEF Gated
  <2>4. QED BY <1>1, <2>3 DEF DropsOf
<1>5. KnumberOn(h) => KnumberOn(j)
  <2> SUFFICES ASSUME KnumberOn(h) PROVE KnumberOn(j) OBVIOUS
  <2>1. h["knumber"] # 0 BY DEF KnumberOn
  <2>2. "knumber" \notin Dropped(h) BY <1>1 DEF DropsOf
  <2>3. "knumber" \notin Dropped(j) BY <2>1, <2>2, Carried, ReadGenes DEF Gated
  <2>4. QED BY <1>1, <2>3 DEF DropsOf
<1>6. RtloopallOn(h) => RtloopallOn(j)
  <2> SUFFICES ASSUME RtloopallOn(h) PROVE RtloopallOn(j) OBVIOUS
  <2>1. h["rtloopall"] # 0 BY DEF RtloopallOn
  <2>2. "rtloopall" \notin Dropped(h) BY <1>1 DEF DropsOf
  <2>3. "rtloopall" \notin Dropped(j) BY <2>1, <2>2, Carried, ReadGenes DEF Gated
  <2>4. QED BY <1>1, <2>3 DEF DropsOf
<1>7. RtiplusOn(h) => RtiplusOn(j)
  <2> SUFFICES ASSUME RtiplusOn(h) PROVE RtiplusOn(j) OBVIOUS
  <2>1. h["rtiplus"] # 0 BY DEF RtiplusOn
  <2>2. "rtiplus" \notin Dropped(h) BY <1>1 DEF DropsOf
  <2>3. "rtiplus" \notin Dropped(j) BY <2>1, <2>2, Carried, ReadGenes DEF Gated
  <2>4. QED BY <1>1, <2>3 DEF DropsOf
<1>8. Tag2(h) => Tag2(j)
  <2> SUFFICES ASSUME Tag2(h) PROVE Tag2(j) OBVIOUS
  <2>1. h["tag2"] # 0 BY DEF Tag2, Tag2
  <2>2. "tag2" \notin Dropped(h) BY <1>1 DEF DropsOf
  <2>3. "tag2" \notin Dropped(j) BY <2>1, <2>2, Carried, ReadGenes DEF Gated
  <2>4. QED BY <1>1, <2>3 DEF DropsOf
<1>9. T2wideOn(h) => T2wideOn(j)
  <2> SUFFICES ASSUME T2wideOn(h) PROVE T2wideOn(j) OBVIOUS
  <2>1. h["t2wide"] # 0 BY DEF T2wideOn
  <2>2. "t2wide" \notin Dropped(h) BY <1>1 DEF DropsOf, T2wideOn
  <2>3. "t2wide" \notin Dropped(j) BY <2>1, <2>2, Carried, ReadGenes DEF Gated
  <2>4. QED BY <1>1, <2>3 DEF DropsOf
<1>10. JitOn(h) => JitOn(j)
  <2> SUFFICES ASSUME JitOn(h) PROVE JitOn(j) OBVIOUS
  <2>1. h["jit"] # 0 BY DEF JitOn
  <2>2. "jit" \notin Dropped(h) BY <1>1 DEF DropsOf
  <2>3. "jit" \notin Dropped(j) BY <2>1, <2>2, Carried, ReadGenes DEF Gated
  <2>4. QED BY <1>1, <2>3 DEF DropsOf
<1>11. QED BY <1>2, <1>3, <1>4, <1>5, <1>6, <1>7, <1>8, <1>9, <1>10

LEMMA RtloopCarries ==
    ASSUME NEW h, NEW j, SameId(h, j), RtloopOn(h)
    PROVE  RtloopOn(j)
<1>1. DropsOf(h) /\ DropsOf(j) BY DropsAre DEF SameId
<1>2. h.rtloop # 0 BY DEF RtloopOn
<1>3. "rtloop" \notin Dropped(h) BY <1>1 DEF DropsOf
<1>4. "rtloop" \in Live(h) BY <1>2, <1>3, LiveIs DEF SameId, LateCv8
<1>5. "rtloop" \in Live(j) BY <1>4 DEF SameId
<1>6. "rtloop" \notin Dropped(j) BY <1>5, LiveIs DEF SameId, LateCv8
<1>7. QED BY <1>1, <1>6 DEF DropsOf

LEMMA GatesSame ==
    ASSUME NEW h, NEW j, SameId(h, j)
    PROVE  /\ KfastOn(h) <=> KfastOn(j)
           /\ KinputOn(h) <=> KinputOn(j)
           /\ KlookupOn(h) <=> KlookupOn(j)
           /\ KnumberOn(h) <=> KnumberOn(j)
           /\ RtloopOn(h) <=> RtloopOn(j)
           /\ RtloopallOn(h) <=> RtloopallOn(j)
           /\ RtiplusOn(h) <=> RtiplusOn(j)
           /\ Tag2(h) <=> Tag2(j)
           /\ T2wideOn(h) <=> T2wideOn(j)
           /\ JitOn(h) <=> JitOn(j)
<1>1. SameId(j, h) BY SameBack
<1>2. RtloopOn(h) <=> RtloopOn(j) BY <1>1, RtloopCarries
<1>3. QED BY <1>1, <1>2, GatesCarry

(* The fuser: rtfuse counts where there is something to fuse, and rtimm = 2 *)
(* where rtfuse does not count.                                             *)
LEMMA FuserSame ==
    ASSUME NEW h, NEW j, SameId(h, j)
    PROVE  /\ ToFuse(h) <=> ToFuse(j)
           /\ (h.rtfuse # 0 /\ ToFuse(h)) <=> (j.rtfuse # 0 /\ ToFuse(j))
<1>1. DropsOf(h) /\ DropsOf(j) BY DropsAre DEF SameId
<1>2. ToFuse(h) <=> ToFuse(j) BY ListsSame DEF ToFuse, HasRtTests
<1>3. ToFuse(h) => h.rtfuse = j.rtfuse
  <2> SUFFICES ASSUME ToFuse(h) PROVE h.rtfuse = j.rtfuse OBVIOUS
  <2>1. "rtfuse" \notin Dropped(h) /\ "rtfuse" \notin Dropped(j) BY <1>1, <1>2 DEF DropsOf
  <2>2. QED BY <2>1, SameValue, ReadGenes DEF Gated
<1>4. QED BY <1>2, <1>3

LEMMA RtimmCarries ==
    ASSUME NEW h, NEW j, SameId(h, j), ~(h.rtfuse # 0 /\ ToFuse(h)), Rtimm2(h)
    PROVE  Rtimm2(j)
<1>1. DropsOf(h) /\ DropsOf(j) BY DropsAre DEF SameId
<1>2. Overlay(h) /\ h.rtimm = 2 /\ "imm" \in h.spec BY DEF Overlay, Rtimm2
<1>3. "rtimm" \notin Dropped(h) BY <1>1, <1>2 DEF DropsOf
<1>4. "rtimm" \in Live(h) BY <1>2, <1>3, LiveIs DEF SameId, LateCv8
<1>5. Shown(h, "rtimm") = Shown(j, "rtimm") BY <1>4 DEF SameId
<1>6. Shown(h, "rtimm") = 2 BY <1>2 DEF Shown
<1>7. ~(j.rtfuse # 0 /\ ToFuse(j)) BY FuserSame
<1>8. Shown(j, "rtimm") = j.rtimm BY <1>7 DEF Shown
<1>9. h.spec = j.spec BY PlainSame DEF Plain
<1>10. QED BY <1>2, <1>5, <1>6, <1>8, <1>9 DEF Rtimm2, SameId

LEMMA OverlaySame ==
    ASSUME NEW h, NEW j, SameId(h, j)
    PROVE  /\ Overlay(h) <=> Overlay(j)
           /\ ~(h.rtfuse # 0 /\ ToFuse(h)) => (Rtimm2(h) <=> Rtimm2(j))
           /\ RtimmLean(h) <=> RtimmLean(j)
<1>1. SameId(j, h) BY SameBack
<1>2. (h.rtfuse # 0 /\ ToFuse(h)) <=> (j.rtfuse # 0 /\ ToFuse(j)) BY FuserSame
<1>3. ~(h.rtfuse # 0 /\ ToFuse(h)) => (Rtimm2(h) <=> Rtimm2(j)) BY <1>1, <1>2, RtimmCarries
<1>4. Overlay(h) <=> Overlay(j) BY <1>2, <1>3, GatesSame DEF Overlay, SameId
<1>5. RtimmLean(h) <=> RtimmLean(j) BY <1>2, <1>3, FuserSame, GatesSame DEF RtimmLean
<1>6. QED BY <1>3, <1>4, <1>5

(* rtimm = 1 and 2 make one dump where rtfuse counts.                       *)
LEMMA FuseImmCarries ==
    ASSUME NEW h, NEW j, SameId(h, j), Overlay(h), h.rtimm # 0 /\ "imm" \in h.spec
    PROVE  j.rtimm # 0 /\ "imm" \in j.spec
<1>1. DropsOf(h) BY DropsAre DEF SameId
<1>2. "rtimm" \notin Dropped(h) BY <1>1 DEF DropsOf
<1>3. "rtimm" \in Live(h) BY <1>2, LiveIs DEF SameId, LateCv8
<1>4. "rtimm" \in Live(j) BY <1>3 DEF SameId
<1>5. j.rtimm # 0 BY <1>4, LiveIs DEF SameId, LateCv8, Late
<1>6. QED BY <1>5, PlainSame DEF Plain

LEMMA RtloopValue ==
    ASSUME NEW h, NEW j, SameId(h, j), RtloopOn(h), ~RtloopallOn(h)
    PROVE  h.rtloop = j.rtloop
<1>1. DropsOf(h) BY DropsAre DEF SameId
<1>2. h.rtloop # 0 BY DEF RtloopOn
<1>3. "rtloop" \notin Dropped(h) BY <1>1 DEF DropsOf
<1>4. "rtloop" \in Live(h) BY <1>2, <1>3, LiveIs DEF SameId, LateCv8
<1>5. Shown(h, "rtloop") = Shown(j, "rtloop") BY <1>4 DEF SameId
<1>6. ~RtloopallOn(j) BY GatesSame
<1>7. QED BY <1>5, <1>6 DEF Shown

(* Dispatch: MscOn, and what it and the variable-length calls stand in for. *)
LEMMA DispatchSame ==
    ASSUME NEW h, NEW j, SameId(h, j)
    PROVE  /\ MscOn(h) <=> MscOn(j)
           /\ Sharedcall(h) <=> Sharedcall(j)
           /\ Doesfar(h) <=> Doesfar(j)
           /\ (h.d256 # 0 \/ MscOn(h)) <=> (j.d256 # 0 \/ MscOn(j))
<1>1. DropsOf(h) /\ DropsOf(j) BY DropsAre DEF SameId
<1>2. h.tos = j.tos /\ h.varcall = j.varcall BY PlainSame DEF Plain
<1>3. h.tos # 0 => h.msc = j.msc
  <2> SUFFICES ASSUME h.tos # 0 PROVE h.msc = j.msc OBVIOUS
  <2>1. "msc" \notin Dropped(h) /\ "msc" \notin Dropped(j) BY <1>1, <1>2 DEF DropsOf
  <2>2. QED BY <2>1, SameValue, ReadGenes DEF Gated
<1>4. MscOn(h) <=> MscOn(j) BY <1>2, <1>3 DEF MscOn
<1>5. h.varcall = 0 /\ ~MscOn(h) => h.sharedcall = j.sharedcall
  <2> SUFFICES ASSUME h.varcall = 0 /\ ~MscOn(h) PROVE h.sharedcall = j.sharedcall OBVIOUS
  <2>1. "sharedcall" \notin Dropped(h) /\ "sharedcall" \notin Dropped(j) BY <1>1, <1>2, <1>4 DEF DropsOf
  <2>2. QED BY <2>1, SameValue, ReadGenes DEF Gated
<1>6. h.varcall # 0 => h.doesfar = j.doesfar
  <2> SUFFICES ASSUME h.varcall # 0 PROVE h.doesfar = j.doesfar OBVIOUS
  <2>1. "doesfar" \notin Dropped(h) /\ "doesfar" \notin Dropped(j) BY <1>1, <1>2 DEF DropsOf
  <2>2. QED BY <2>1, SameValue, ReadGenes DEF Gated
<1>7. ~MscOn(h) => h.d256 = j.d256
  <2> SUFFICES ASSUME ~MscOn(h) PROVE h.d256 = j.d256 OBVIOUS
  <2>1. "d256" \notin Dropped(h) /\ "d256" \notin Dropped(j) BY <1>1, <1>4 DEF DropsOf
  <2>2. QED BY <2>1, SameValue, ReadGenes DEF Gated
<1>8. QED BY <1>2, <1>4, <1>5, <1>6, <1>7 DEF Sharedcall, Doesfar

(* What counts with the two-bit tag only.                                   *)
LEMMA TagSame ==
    ASSUME NEW h, NEW j, SameId(h, j), Tag2(h)
    PROVE  h.t2hot = j.t2hot /\ h.hotinl = j.hotinl /\ h.rtempty = j.rtempty /\ h.factor = j.factor
<1>1. DropsOf(h) /\ DropsOf(j) BY DropsAre DEF SameId
<1>2. Tag2(j) BY GatesSame
<1>3. \A k \in {"t2hot", "hotinl", "rtempty", "factor"} : k \notin Dropped(h) /\ k \notin Dropped(j)
  BY <1>1, <1>2 DEF DropsOf
<1>4. QED BY <1>3, SameValue, ReadGenes DEF Gated

LEMMA HotcallsSame ==
    ASSUME NEW h, NEW j, SameId(h, j), h.varcall # 0, ~Tag2(h)
    PROVE  h.hotcalls = j.hotcalls
<1>1. DropsOf(h) /\ DropsOf(j) BY DropsAre DEF SameId
<1>2. j.varcall # 0 /\ ~Tag2(j) BY GatesSame, PlainSame DEF Plain
<1>3. "hotcalls" \notin Dropped(h) /\ "hotcalls" \notin Dropped(j) BY <1>1, <1>2 DEF DropsOf
<1>4. QED BY <1>3, SameValue, ReadGenes DEF Gated

LEMMA JitSame ==
    ASSUME NEW h, NEW j, SameId(h, j)
    PROVE  JitSettings(h, Live(h)) = JitSettings(j, Live(j))
<1>1. DropsOf(h) /\ DropsOf(j) /\ Live(h) = Live(j) BY DropsAre DEF SameId
<1>2. CASE ~JitOn(h) BY <1>2, GatesSame DEF JitSettings
<1>3. CASE JitOn(h)
  <2>1. JitOn(j) BY <1>3, GatesSame
  <2>2. h.jitx = j.jitx
    <3>1. "jitx" \notin Dropped(h) /\ "jitx" \notin Dropped(j) BY <1>1, <1>3, <2>1 DEF DropsOf
    <3>2. QED BY <3>1, SameValue, ReadGenes DEF Gated
  <2>3. "jitrp" \in Live(h) => JitrpReg(h) = JitrpReg(j)
    <3> SUFFICES ASSUME "jitrp" \in Live(h) PROVE JitrpReg(h) = JitrpReg(j) OBVIOUS
    <3>1. Cv8(h) /\ Cv8(j) /\ "jitrp" \in Live(j) BY <1>1 DEF SameId
    <3>2. "jitrp" \in (EarlyCv8 \cup LateCv8) /\ "regpin" \in (EarlyCv8 \cup LateCv8) \ Odd
      BY DEF LateCv8, OnJit, Odd
    <3>3. "jitrp" \notin Dropped(h) /\ "jitrp" \notin Dropped(j) BY <3>1, <3>2, LiveIs
    <3>4. ~Clang(h) /\ ~Clang(j) BY <3>1, <3>3, InDropped, InRules
    <3>5. "regpin" \notin Dropped(h) /\ "regpin" \notin Dropped(j)
      <4>1. "regpin" \notin RuleDropped(h) /\ "regpin" \notin RuleDropped(j)
        BY InRules DEF OnTag, OnJit, OnJitx
      <4>2. QED BY <3>1, <3>4, <4>1, InDropped
    <3>6. h.regpin = j.regpin BY <3>2, <3>5, SameValue
    <3>7. QED BY <3>6 DEF JitrpReg
  <2>4. "jitk" \in Live(h) => h.jitk = j.jitk
    <3>1. "jitk" \notin Odd BY DEF Odd
    <3>2. QED BY <3>1, ShownIs DEF SameId
  <2>5. QED BY <1>1, <1>3, <2>1, <2>2, <2>3, <2>4 DEF JitSettings
<1>4. QED BY <1>2, <1>3

LEMMA OpbodySame ==
    ASSUME NEW h, NEW j, SameId(h, j)
    PROVE  (IF h.opbody # 0 THEN Given10(h) \cap OpBody ELSE {})
             = (IF j.opbody # 0 THEN Given10(j) \cap OpBody ELSE {})
<1>1. DropsOf(h) /\ DropsOf(j) BY DropsAre DEF SameId
<1>2. Given10(h) = Given10(j) BY ListsSame DEF Given10
<1>3. CASE Given10(h) \cap OpBody = {} BY <1>2, <1>3
<1>4. CASE Given10(h) \cap OpBody # {}
  <2>1. "opbody" \notin Dropped(h) /\ "opbody" \notin Dropped(j) BY <1>1, <1>2, <1>4 DEF DropsOf
  <2>2. h.opbody = j.opbody BY <2>1, SameValue, ReadGenes DEF Gated
  <2>3. QED BY <1>2, <2>2
<1>5. QED BY <1>3, <1>4

LEMMA EngineSame ==
    ASSUME NEW h, NEW j, SameId(h, j)
    PROVE  EngineCv8(h, Live(h)) = EngineCv8(j, Live(j))
<1>1. Live(h) = Live(j) BY DEF SameId
<1>2. /\ h.tos = j.tos /\ h.folds = j.folds /\ h.scale = j.scale /\ h.varcall = j.varcall
      /\ h.varslot = j.varslot /\ h.guard = j.guard /\ h.dskew = j.dskew /\ h.fsys = j.fsys
      /\ h.spec = j.spec /\ h.fbuf = j.fbuf /\ h.escape = j.escape
  BY PlainSame DEF Plain
<1>3. FsysLevel(h) = FsysLevel(j) BY <1>2 DEF FsysLevel, FsysOn, SameId
<1>4. (h.hotcalls # 0 /\ h.varcall # 0 /\ ~Tag2(h)) <=> (j.hotcalls # 0 /\ j.varcall # 0 /\ ~Tag2(j))
  BY <1>2, GatesSame, HotcallsSame
<1>5. Sharedcall(h) = Sharedcall(j) /\ Doesfar(h) = Doesfar(j) /\ MscOn(h) = MscOn(j)
  <2>1. /\ Sharedcall(h) \in BOOLEAN /\ Sharedcall(j) \in BOOLEAN
        /\ Doesfar(h) \in BOOLEAN /\ Doesfar(j) \in BOOLEAN
        /\ MscOn(h) \in BOOLEAN /\ MscOn(j) \in BOOLEAN
    BY DEF Sharedcall, Doesfar, MscOn
  <2>2. QED BY <2>1, DispatchSame
<1>6. <<Tag2(h), T2wideOn(h)>> = <<Tag2(j), T2wideOn(j)>>
  <2>1. /\ Tag2(h) \in BOOLEAN /\ Tag2(j) \in BOOLEAN
        /\ T2wideOn(h) \in BOOLEAN /\ T2wideOn(j) \in BOOLEAN
    BY DEF Tag2, T2wideOn
  <2>2. QED BY <2>1, GatesSame
<1>7. JitSettings(h, Live(h)) = JitSettings(j, Live(j)) BY JitSame
<1>8. (h.d256 # 0 \/ MscOn(h)) <=> (j.d256 # 0 \/ MscOn(j)) BY DispatchSame
<1>9. /\ <<Ops10In(h), Ops10Codes(h)>> = <<Ops10In(j), Ops10Codes(j)>>
      /\ <<SupersIn(h), SuperCodes(h)>> = <<SupersIn(j), SuperCodes(j)>>
      /\ OpcallIn(h) = OpcallIn(j)
  BY ListsSame, CodesSame
<1>10. (h.d256 # 0 \/ MscOn(h)) = (j.d256 # 0 \/ MscOn(j)) BY <1>8
<1>11. (h.hotcalls # 0 /\ h.varcall # 0 /\ ~Tag2(h)) = (j.hotcalls # 0 /\ j.varcall # 0 /\ ~Tag2(j))
  BY <1>4
<1>12. QED BY <1>1, <1>2, <1>3, <1>5, <1>6, <1>7, <1>9, <1>10, <1>11 DEF EngineCv8

LEMMA DumpSame ==
    ASSUME NEW h, NEW j, SameId(h, j)
    PROVE  Dump(h) = Dump(j)
<1> DEFINE Kernel(x) == {n \in {"kfast", "kinput", "klookup", "knumber"} :
                   CASE n = "kfast" -> KfastOn(x)     [] n = "kinput" -> KinputOn(x)
                     [] n = "klookup" -> KlookupOn(x) [] n = "knumber" -> KnumberOn(x)}
           Fuse(x) == IF RtimmLean(x) THEN "lit"
                ELSE IF ~Overlay(x) THEN "none"
                ELSE IF x.rtimm # 0 /\ "imm" \in x.spec THEN "fuse-imm" ELSE "fuse"
           Loops(x) == IF RtloopallOn(x) THEN "loopall" ELSE IF RtloopOn(x) THEN "loop" ELSE "none"
           Header(x) == IF Tag2(x) THEN "t" ELSE IF x.bytehdr # 0 THEN "b" ELSE "cell"
           Empty(x) == Tag2(x) /\ x.rtempty # 0
<1>1. SameId(j, h) BY SameBack
<1>2. Kernel(h) = Kernel(j) BY GatesSame
<1>3. Fuse(h) = Fuse(j) BY <1>1, OverlaySame, FuseImmCarries
<1>4. Loops(h) = Loops(j) BY GatesSame
<1>5. h.bytehdr = j.bytehdr /\ h.fsys = j.fsys BY PlainSame DEF Plain
<1>6. Header(h) = Header(j) BY <1>5, GatesSame
<1>7. Empty(h) = Empty(j) BY GatesSame, TagSame
<1>8. RtiplusOn(h) = RtiplusOn(j) /\ JitOn(h) = JitOn(j)
  <2>1. /\ RtiplusOn(h) \in BOOLEAN /\ RtiplusOn(j) \in BOOLEAN
        /\ JitOn(h) \in BOOLEAN /\ JitOn(j) \in BOOLEAN
    BY DEF RtiplusOn, JitOn
  <2>2. QED BY <2>1, GatesSame
<1>9. FsysLevel(h) = FsysLevel(j) BY <1>5 DEF FsysLevel, FsysOn, SameId
<1>10. \A x : Dump(x) = [header |-> Header(x), kernel |-> Kernel(x), fuse |-> Fuse(x),
     loops |-> Loops(x), iplus |-> RtiplusOn(x), empty |-> Empty(x), jit |-> JitOn(x),
     fsys |-> FsysLevel(x)]
  BY DEF Dump
<1> HIDE DEF Header, Kernel, Fuse, Loops, Empty
<1>11. QED BY <1>2, <1>3, <1>4, <1>6, <1>7, <1>8, <1>9, <1>10

LEMMA HeaderlessSame ==
    ASSUME NEW h, NEW j, SameId(h, j)
    PROVE  Headerless(h) = Headerless(j)
<1>1. (RtloopOn(h) /\ ~RtloopallOn(h) /\ h.rtloop = 2) <=> (RtloopOn(j) /\ ~RtloopallOn(j) /\ j.rtloop = 2)
  BY GatesSame, RtloopValue
<1>2. RtimmLean(h) <=> RtimmLean(j) BY OverlaySame
<1>3. FsysOn(h) <=> FsysOn(j) BY PlainSame DEF FsysOn, SameId, Plain
<1>4. QED BY <1>1, <1>2, <1>3 DEF Headerless, Unless

LEMMA ImageSame ==
    ASSUME NEW h, NEW j, SameId(h, j)
    PROVE  ImageCv8(h, Live(h)) = ImageCv8(j, Live(j))
<1> DEFINE Hot(x) == IF x.varcall # 0 /\ ~Tag2(x) THEN x.hotcalls ELSE 0
           Rtfuse(x) == (x.rtfuse # 0 /\ ToFuse(x)) \/ Rtimm2(x) \/ RtiplusOn(x)
           Tag(x) == IF Tag2(x) THEN <<x.t2hot, T2wideOn(x), x.hotinl>> ELSE <<>>
           Bodies(x) == IF x.opbody # 0 THEN Given10(x) \cap OpBody ELSE {}
           Factor(x) == IF "factor" \in Live(x) THEN x.factor ELSE 0
           Straight(x) == <<x.bss, x.thinhdr, x.abortif, x.lean, x.threads>>
<1>1. Live(h) = Live(j) BY DEF SameId
<1>2. /\ h.bytehdr = j.bytehdr /\ h.bss = j.bss /\ h.thinhdr = j.thinhdr
      /\ h.abortif = j.abortif /\ h.lean = j.lean /\ h.threads = j.threads
      /\ h.varcall = j.varcall
  BY PlainSame DEF Plain
<1>3. Hot(h) = Hot(j) BY <1>2, GatesSame, HotcallsSame
<1>4. Rtfuse(h) = Rtfuse(j)
  <2>1. (h.rtfuse # 0 /\ ToFuse(h)) <=> (j.rtfuse # 0 /\ ToFuse(j)) BY FuserSame
  <2>2. ~(h.rtfuse # 0 /\ ToFuse(h)) => (Rtimm2(h) <=> Rtimm2(j)) BY OverlaySame
  <2>3. RtiplusOn(h) <=> RtiplusOn(j) BY GatesSame
  <2>4. QED BY <2>1, <2>2, <2>3
<1>5. T2wideOn(h) = T2wideOn(j) /\ JitOn(h) = JitOn(j)
  <2>1. T2wideOn(h) \in BOOLEAN /\ T2wideOn(j) \in BOOLEAN
        /\ JitOn(h) \in BOOLEAN /\ JitOn(j) \in BOOLEAN
    BY DEF T2wideOn, JitOn
  <2>2. QED BY <2>1, GatesSame
<1>6. Tag(h) = Tag(j) BY <1>5, GatesSame, TagSame
<1>7. Bodies(h) = Bodies(j) BY OpbodySame
<1>8. Factor(h) = Factor(j)
  <2>1. "factor" \notin Odd BY DEF Odd
  <2>2. QED BY <2>1, ShownIs DEF SameId
<1>9. Straight(h) = Straight(j) BY <1>2
<1>10. (JitOn(h) /\ "jitimg" \in Live(h)) = (JitOn(j) /\ "jitimg" \in Live(j)) BY <1>1, <1>5
<1>11. ("opinline" \in Live(h)) = ("opinline" \in Live(j)) BY <1>1
<1>12. \A x : ImageCv8(x, Live(x)) =
    [dump |-> Dump(x), bytehdr |-> x.bytehdr, hotcalls |-> Hot(x), rtfuse |-> Rtfuse(x),
     tag |-> Tag(x), opbodies |-> Bodies(x), opinline |-> "opinline" \in Live(x),
     plain |-> Straight(x), factor |-> Factor(x), jit |-> JitOn(x),
     jitimg |-> JitOn(x) /\ "jitimg" \in Live(x), headers |-> Headerless(x)]
  BY DEF ImageCv8
<1> HIDE DEF Hot, Rtfuse, Tag, Bodies, Factor, Straight
<1>13. QED BY <1>2, <1>3, <1>4, <1>5, <1>6, <1>7, <1>8, <1>9, <1>10, <1>11, <1>12, DumpSame, HeaderlessSame

-----------------------------------------------------------------------------

(* ---- the other encodings ---- *)
LEMMA OtherSame ==
    ASSUME NEW h, NEW j, h.enc \in Families, ~Cv8(h), ~Cv8(j), Live(h) = Live(j),
           \A k \in Live(h) : Shown(h, k) = Shown(j, k)
    PROVE  Files(h) = Files(j)
<1>1. "enc" \notin Late /\ "skippad" \notin Late /\ "scale" \notin Late /\ "fold" \notin Late /\ "folds" \notin Late
  BY DEF Late, LateCv8, OnTag, OnJit, OnJitx
<1>2. "enc" \in Live(h) BY <1>1 DEF Live, Dropped, Unless
<1>3. h.enc = j.enc BY <1>2 DEF Shown
<1>4. CASE h.enc = "cell" BY <1>3, <1>4 DEF Files, EngineOther
<1>5. CASE h.enc = "sod16"
  <2>1. "skippad" \in Live(h) BY <1>1, <1>5 DEF Live, Dropped, Unless, Expressed, Cv8
  <2>2. h.skippad = j.skippad BY <2>1 DEF Shown
  <2>3. QED BY <1>3, <1>5, <2>2 DEF Files, EngineOther
<1>6. CASE h.enc = "cpt16"
  <2>1. \A k \in {"skippad", "scale", "fold"} : k \in Live(h)
    BY <1>1, <1>6 DEF Live, Dropped, Unless, Expressed, Cv8
  <2>2. h.skippad = j.skippad /\ h.scale = j.scale /\ h.fold = j.fold BY <2>1 DEF Shown
  <2>3. h.fold # 0 => h.folds = j.folds
    <3> SUFFICES ASSUME h.fold # 0 PROVE h.folds = j.folds OBVIOUS
    <3>1. "folds" \in Live(h) BY <1>1, <1>6 DEF Live, Dropped, Unless, Expressed, Cv8
    <3>2. QED BY <3>1 DEF Shown
  <2>4. Scale1(h) = Scale1(j) BY <2>2 DEF Scale1
  <2>5. (IF h.fold # 0 THEN h.folds ELSE <<>>) = (IF j.fold # 0 THEN j.folds ELSE <<>>) BY <2>2, <2>3
  <2>6. QED BY <1>3, <1>6, <2>2, <2>4, <2>5 DEF Files, EngineOther
<1>7. QED BY <1>4, <1>5, <1>6 DEF Families, Cv8

LEMMA EncSame ==
    ASSUME NEW h, NEW j, Live(h) = Live(j), \A k \in Live(h) : Shown(h, k) = Shown(j, k)
    PROVE  h.enc = j.enc
<1>1. "enc" \notin Late BY DEF Late, LateCv8, OnTag, OnJit, OnJitx
<1>2. "enc" \in Live(h)
  <2>1. CASE Cv8(h)
    <3>1. "enc" \notin RuleDropped(h) BY InRules DEF OnTag, OnJit, OnJitx
    <3>2. QED BY <1>1, <2>1, <3>1, InDropped DEF Live, GccOnly
  <2>2. CASE ~Cv8(h) BY <1>1, <2>2 DEF Live, Dropped, Unless
  <2>3. QED BY <2>1, <2>2
<1>3. QED BY <1>2 DEF Shown

LEMMA SameIdFiles ==
    ASSUME NEW h, NEW j, h.enc \in Families, Cv8(h) => h.tail = 0, Cv8(j) => j.tail = 0,
           Live(h) = Live(j), \A k \in Live(h) : Shown(h, k) = Shown(j, k)
    PROVE  Files(h) = Files(j)
<1>1. Cv8(h) <=> Cv8(j)
  BY EncSame DEF Cv8
<1>2. CASE Cv8(h)
  <2>1. SameId(h, j)
    BY <1>1, <1>2 DEF SameId
  <2>2. EngineCv8(h, Live(h)) = EngineCv8(j, Live(j)) /\ ImageCv8(h, Live(h)) = ImageCv8(j, Live(j))
    BY <2>1, EngineSame, ImageSame
  <2> QED
    BY <1>1, <1>2, <2>2 DEF Files
<1>3. CASE ~Cv8(h)
  BY <1>1, <1>3, OtherSame
<1> QED
  BY <1>2, <1>3

LEMMA CanonTwice ==
    ASSUME NEW x, DOMAIN x = AllGenes
    PROVE  Canon(Canon(x)) = Canon(x) /\ Canon(x).tail = x.tail /\ Canon(x).enc = x.enc
<1> DEFINE y == [x EXCEPT !.scale = 0]
<1>1. CASE x.bytehdr # 0
  <2>1. y.bytehdr = x.bytehdr /\ y.tail = x.tail /\ y.enc = x.enc
    BY <1>1, AllThere
  <2>2. [y EXCEPT !.scale = 0] = y
    OBVIOUS
  <2> QED
    BY <1>1, <2>1, <2>2 DEF Canon
<1>2. CASE x.bytehdr = 0
  BY <1>2 DEF Canon
<1> QED
  BY <1>1, <1>2

LEMMA AskedTwice ==
    ASSUME NEW h, Genome(h)
    PROVE  /\ Canon(Asked(h)) = Asked(h)
           /\ Asked(h).enc \in Families
           /\ Cv8(Asked(h)) => Asked(h).tail = 0
<1> DEFINE r == [h EXCEPT !.tail = 0, !.kstack = 0, !.tailpn = 0]
<1>1. DOMAIN h = AllGenes /\ h.enc \in Families
  BY DEF Genome
<1>2. DOMAIN r = AllGenes /\ r.tail = 0 /\ r.enc = h.enc
  BY <1>1, AllThere
<1>3. DOMAIN Require(h) = AllGenes /\ Require(h).enc = h.enc /\ (Cv8(h) => Require(h).tail = 0)
  <2> HIDE DEF r
  <2>1. Require(h) = IF Cv8(h) THEN r ELSE h
    BY DEF Require, r
  <2> QED
    BY <1>1, <1>2, <2>1
<1> QED
  BY <1>1, <1>3, CanonTwice DEF Asked, Cv8

(* Two genomes of one id build the same files, whatever genes were bred     *)
(* into either: what express() leaves out of the id reaches neither the     *)
(* engine's source nor its macros, the dump or the converter (_build).      *)
THEOREM SameIdBuildsSameFiles == Spec => SameIdSameFiles
<1>1. ASSUME Inv, Inv', Express(Asked(g)) = Express(Asked(g'))
      PROVE  Files(Asked(g)) = Files(Asked(g'))
  <2>1. PICK h : h = Asked(g)
    OBVIOUS
  <2>2. PICK j : j = Asked(g')
    OBVIOUS
  <2>3. Genome(g) /\ Genome(g')
    BY <1>1 DEF Inv, Genome, Drawable
  <2>4. /\ Canon(h) = h /\ h.enc \in Families /\ (Cv8(h) => h.tail = 0)
        /\ Canon(j) = j /\ j.enc \in Families /\ (Cv8(j) => j.tail = 0)
    BY <2>1, <2>2, <2>3, AskedTwice
  <2>5. [k \in Live(h) |-> Shown(h, k)] = [k \in Live(j) |-> Shown(j, k)]
    BY <1>1, <2>1, <2>2, <2>4 DEF Express
  <2>6. Live(h) = Live(j) /\ \A k \in Live(h) : Shown(h, k) = Shown(j, k)
    BY <2>5
  <2> QED
    BY <2>1, <2>2, <2>4, <2>6, SameIdFiles
<1>2. Inv /\ Inv' => [Express(Asked(g)) = Express(Asked(g'))
                        => Files(Asked(g)) = Files(Asked(g'))]_vars
  BY <1>1
<1> QED
  BY <1>2, BredCanBeDrawn, PTL DEF SameIdSameFiles
=============================================================================

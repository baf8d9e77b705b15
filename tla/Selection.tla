------------------------------ MODULE Selection -----------------------------
(***************************************************************************)
(* Who lives on in lab/evolve/evolve.py's main(): rank(), survive(), the   *)
(* attic, and the islands with their migration, over designs whose records *)
(* Dominance compares.  Children come from anywhere; a design dies at its  *)
(* reading, the second (gate_again) too.                                   *)
(***************************************************************************)
EXTENDS Dominance, Sequences, FiniteSets, SequencesExt

CONSTANTS Measures,                 \* of a design (a number): its Record, its family enc, its gene values
          Families,                 \* FAMILIES, in order
          N, Q_KEEP, ATTIC,         \* --pop; the knee kept; the attic's size
          IslandCounts,             \* --islands: the numbers of islands looked at
          MIGRATE,                  \* generations between migrations
          MaxDead, Litter           \* bounds: designs that die; a generation's children not there already

Bred == DOMAIN Measures

ASSUME SelectionAssumption ==
    /\ {N, MIGRATE} \subseteq Nat \ {0} /\ {Q_KEEP, ATTIC, MaxDead, Litter} \subseteq Nat
    /\ IslandCounts \subseteq Nat \ {0}
    /\ IsFiniteSet(Bred) /\ Bred \subseteq Nat /\ Families \in Seq(Range(Families))
    /\ \A i \in Bred : LET m == Measures[i]
                      IN  /\ {m.speed, m.total, m.rss, m.speed32} \subseteq Nat
                          /\ m.enc \in Range(Families) /\ IsFiniteSet(m.genes)

VARIABLES isl,                      \* the islands: of one, the population
          attic,
          dead,                     \* designs whose status is not ok
          kids,                     \* of each island, the children made
          gen,                      \* the generation, modulo MIGRATE
          phase                     \* breed, survive, stopped

selVars == <<isl, attic, dead, kids, gen, phase>>

(* A set in an order: upTo[i] are its elements up to i, and so tell i's place. *)
Listed(S, upTo) ==
    LET place == [i \in S |-> Cardinality(upTo[i])]
    IN  [k \in 1 .. Cardinality(S) |-> CHOOSE i \in S : place[i] = k]
Ascending(S) == Listed(S, [i \in S |-> {j \in S : j <= i}])

(* s[at[1]], s[at[2]] ...  The empty list is for TLC, which works a list out  *)
(* once, but a function at every use.                                      *)
Picked(s, at) == <<>> \o [k \in DOMAIN at |-> s[at[k]]]
Kept(s, T) == Picked(s, Ascending({k \in DOMAIN s : s[k] \in T}))
Uniq(s) == Picked(s, Ascending({k \in DOMAIN s : \A j \in 1 .. k - 1 : s[j] # s[k]}))
Living(s) == Kept(Uniq(s), Bred \ dead)
Pop == Uniq(FlattenSeq(isl))

(* sorted(s, key): stable, the least first. *)
SortedBy(s, key) ==
    LET by == Picked(key, s)
        upTo(k) == {j \in DOMAIN s : by[j] < by[k] \/ (by[j] = by[k] /\ j <= k)}
    IN  Picked(s, Listed(DOMAIN s, [k \in DOMAIN s |-> upTo(k)]))
-----------------------------------------------------------------------------
(* fronts(), as Fronts has it step by step. *)
Better(i, j) == i # j /\ Dominates(Measures[i], Measures[j])
PlacedIn(F) == UNION {Range(F[k]) : k \in DOMAIN F}
NextFront(ids, F) ==
    LET free  == {y \in Range(ids) \ PlacedIn(F) : \A x \in Range(ids) : Better(x, y) => x \in PlacedIn(F)}
        freed == [y \in free |-> IF F = <<>> THEN 0
                                 ELSE Max({0} \cup {k \in DOMAIN Last(F) : Better(Last(F)[k], y)})]
    IN  SortedBy(Kept(ids, free), freed)
Added(F, f) == IF f = <<>> THEN F ELSE Append(F, f)
Peeled(ids) ==
    LET upto[k \in 0 .. Len(ids)] == IF k = 0 THEN <<>> ELSE LET F == upto[k - 1] IN Added(F, NextFront(ids, F))
    IN  upto[Len(ids)]
FrontsOf(ids) == LET F == Peeled(ids) IN Added(F, Kept(ids, Range(ids) \ PlacedIn(F)))

(* crowding(): how far apart a design's neighbours are in each objective,   *)
(* over the front's range; the ends are furthest.  In units of one over    *)
(* the product of the ranges, the fractions are whole numbers.             *)
Objectives == {"speed", "total", "rss"} \cup (IF TWO_WIDTHS THEN {"speed32"} ELSE {})
Furthest == 1000000000
Sorts(front) == [o \in Objectives |-> SortedBy(front, [i \in Bred |-> Measures[i][o]])]
Spans(by) == [o \in Objectives |-> Max({1, Measures[Last(by[o])][o] - Measures[Head(by[o])][o]})]
Gap(s, o, i) == LET k == CHOOSE k \in DOMAIN s : s[k] = i
                IN  Measures[s[k + 1]][o] - Measures[s[k - 1]][o]
Crowd(by, span, i) ==
    LET other(o, u) == IF u = o \/ u \notin Objectives THEN 1 ELSE span[u]
        rest(o) == other(o, "speed") * other(o, "total") * other(o, "rss") * other(o, "speed32")
        part(o) == IF o \in Objectives THEN Gap(by[o], o, i) * rest(o) ELSE 0
    IN  part("speed") + part("total") + part("rss") + part("speed32")
Crowding(by, span) ==
    [i \in Range(by["speed"]) |->
        IF \E o \in Objectives : i \in {Head(by[o]), Last(by[o])} THEN Furthest ELSE Crowd(by, span, i)]

(* rank()'s order. *)
Apart(front, cd) == SortedBy(front, [i \in DOMAIN cd |-> -cd[i]])
Spread(front, by) == Apart(front, Crowding(by, Spans(by)))
Ordered(F) == FlattenSeq([k \in DOMAIN F |-> Spread(F[k], Sorts(F[k]))])
Order(ids) == Ordered(FrontsOf(ids))
-----------------------------------------------------------------------------
Quality(i) == Measures[i].speed * Measures[i].total * Measures[i].rss
UpTo(s, k) == SubSeq(s, 1, Min({Len(s), k}))
Knee(order, q) ==
    UpTo(SortedBy(Kept(order, {i \in Bred : Measures[i].rss # 0}), [i \in Bred |-> Quality(i)]), q)
Champions(order) ==
    LET of(f) == Kept(order, {i \in Bred : Measures[i].enc = f})
        has   == Kept(Families, {f \in Range(Families) : of(f) # <<>>})
    IN  [k \in DOMAIN has |-> Head(of(has[k]))]

(* Not the code: n, and no more for the families' best and the knee. *)
ChosenCut(order, first, n) == UpTo(Uniq(first \o order), n)

(* survive(): each family's best and the knee first. *)
Chosen(order, first, n) == UpTo(Uniq(first \o order), Max({n, Len(first)}))
Ranking(order, n, q) == Chosen(order, Champions(order) \o Knee(order, q), n)
Survive(members, made, n, q) == Ranking(Order(Living(members \o made)), n, q)

Genes(i) == Measures[i].genes
GenesOf(S) == UNION {Genes(i) : i \in S}

(* attic_of(): of those out of the population, who carries a gene value no  *)
(* survivor has; most of them first.                                       *)
AtticOf(order, pop) ==
    LET out   == Kept(Uniq(order \o Living(attic)), Bred \ Range(pop))
        novel == [i \in Bred |-> Cardinality(Genes(i) \ GenesOf(Range(pop)))]
    IN  UpTo(SortedBy(Kept(out, {i \in Bred : novel[i] > 0}), [i \in Bred |-> -novel[i]]), ATTIC)

(* migrants(): an island's two fastest and its best by quality. *)
Migrants(members) ==
    LET al == Living(members)
    IN  Uniq(UpTo(SortedBy(al, [i \in Bred |-> Measures[i].speed]), 2) \o Knee(al, 1))

(* One island of N, or some of fewer. *)
Size(k) == IF k = 1 THEN N ELSE Max({2, N \div k})
KneeOf(k) == IF k = 1 THEN Q_KEEP ELSE Max({1, Q_KEEP \div k})

(* The islands after a generation; every tenth, each takes in the migrants  *)
(* of the one before it.                                                   *)
SurviveEach(with) == [j \in DOMAIN isl |-> Survive(isl[j], with[j], Size(Len(isl)), KneeOf(Len(isl)))]
Migrated(after) ==
    LET k == Len(after)
        from(j) == Kept(Migrants(after[IF j = 1 THEN k ELSE j - 1]), Bred \ Range(after[j]))
    IN  IF k > 1 /\ gen = 0 THEN [j \in 1 .. k |-> Survive(after[j], from(j), Size(k), KneeOf(k))] ELSE after
-----------------------------------------------------------------------------
(* The founders dealt out, those that live known. *)
Dealt(pop, k) == [j \in 1 .. k |-> Picked(pop, Ascending({p \in DOMAIN pop : (p - 1) % k = j - 1}))]

SelInit ==
    /\ \E k \in IslandCounts : isl = Dealt(Ascending({i \in Bred : i <= N}), k)
    /\ attic = <<>> /\ kids = <<>> /\ gen = 1 % MIGRATE /\ phase = "breed"
    /\ dead \in SUBSET {i \in Bred : i <= N}

Reads(asked) ==
    \E d \in SUBSET (asked \ dead) :
       /\ d # {} => Cardinality(dead \cup d) <= MaxDead
       /\ dead' = dead \cup d

(* breed() of each island, and flush(): the children, and the gated designs *)
(* again, are read.                                                        *)
Breed ==
    /\ phase = "breed" /\ Living(Pop) # <<>>
    /\ LET k == Len(isl)
           made == {Ascending(S) : S \in {S \in SUBSET Bred : Cardinality(S) <= Litter}}
       IN  kids' \in {m \in [1 .. k -> made] : Len(FlattenSeq(m)) <= Litter}
    /\ Reads(Range(Pop) \cup UNION {Range(kids'[j]) : j \in DOMAIN kids'})
    /\ phase' = "survive"
    /\ UNCHANGED <<isl, attic, gen>>

(* Nothing alive to breed from. *)
Stop == phase = "breed" /\ Living(Pop) = <<>> /\ phase' = "stopped" /\ UNCHANGED <<isl, attic, dead, kids, gen>>

(* Not the code: with islands, the last one's candidates alone. *)
CandidatesOfLast == Living(Last(isl) \o Last(kids))
Pool == Living(FlattenSeq(isl) \o FlattenSeq(kids))

(* The next population, and the attic of the rest. *)
SelectNext ==
    /\ phase = "survive"
    /\ isl' = Migrated(SurviveEach(kids))
    /\ attic' = IF ATTIC = 0 THEN <<>> ELSE AtticOf(Order(Pool), Uniq(FlattenSeq(isl')))
    /\ kids' = <<>> /\ gen' = (gen + 1) % MIGRATE /\ phase' = "breed"
    /\ UNCHANGED dead

SelNext == Breed \/ Stop \/ SelectNext
SelSpec == SelInit /\ [][SelNext]_selVars
-----------------------------------------------------------------------------
Candidates == (UNION {Range(isl[j] \o kids[j]) : j \in DOMAIN isl}) \ dead

(* No family dies out by crowding, and the knee survives, but where every   *)
(* one of the family, or the knee, is dead: of the candidates of all the    *)
(* islands, whichever they are on, with migration too (evolve.py:1705,      *)
(* 2371).                                                                  *)
NoFamilyDiesOut ==
    [][phase = "survive" =>
          LET pop == UNION {Range(isl'[j]) : j \in DOMAIN isl'}
          IN  /\ {Measures[i].enc : i \in Candidates} = {Measures[i].enc : i \in pop}
              /\ \A j \in Candidates : Q_KEEP > 0 /\ Measures[j].rss # 0 =>
                    \E i \in pop : Measures[i].rss # 0 /\ Quality(i) <= Quality(j)]_selVars

(* Demoted, not deleted: a gene value some living candidate or the attic    *)
(* has is in the population or the attic after, as long as the attic has    *)
(* room (evolve.py:1697, 2403, 2412).                                      *)
NoGeneForgotten ==
    [][phase = "survive" /\ Len(attic') < ATTIC =>
          GenesOf(Candidates \cup Range(Living(attic)))
             \subseteq GenesOf((UNION {Range(isl'[j]) : j \in DOMAIN isl'}) \cup Range(attic'))]_selVars
=============================================================================

------------------------------ MODULE Breeding ------------------------------
(***************************************************************************)
(* What one generation of lab/evolve/evolve.py computes from the records   *)
(* it has: who is asked for, who is screened, gated and measured again,    *)
(* and who survives.  Everything here is a function of its arguments: the  *)
(* evolver's random draws come from --seed, so they are fixed for a run,   *)
(* and any fixed function of the same arguments stands for them.           *)
(*                                                                         *)
(* A design is a number (gid: canon's hash), its one gene its parity.  A   *)
(* reading is the logarithm of a speed, so the geometric mean of two       *)
(* readings is half their sum; a record holds twice the logarithm.         *)
(***************************************************************************)
EXTENDS Integers, Sequences, FiniteSets, SequencesExt

CONSTANTS N,            \* --pop: designs in the population, and children in a generation
          M,            \* designs the genome space has
          Tries,        \* mutations tried for a design not yet asked for (10)
          Readings,     \* the readings a timing can give
          FASTGATE,     \* --fastgate: a child as fast as this many is measured twice; 0, off
          SCREEN_FROM, SCREEN_EVERY, SCREEN_MIN, SCREEN_AUDIT

ASSUME BreedingAssumption ==
    /\ {N, M, Tries, SCREEN_FROM, SCREEN_EVERY} \subseteq Nat \ {0}
    /\ {FASTGATE, SCREEN_MIN, SCREEN_AUDIT} \subseteq Nat
    /\ N <= M
    /\ Readings \subseteq Nat \ {0}

Designs == 0 .. M - 1
ByNumber == [k \in 1 .. M |-> k - 1]
Dead    == 0                       \* the reading of a design that dies
Record  == [status : {"ok", "died", "screened"}, speed : Nat, gen : Nat, gated : 0 .. 2]
NoModel == [fit |-> -1, model |-> <<>>]

Alive(R) == {i \in DOMAIN R : R[i].status = "ok"}

(* Of a list the designs that have a key, each once (dict.fromkeys), those  *)
(* with the least keys first; ties stay in list order.                     *)
Listed(s, key) ==
    LET firsts   == {k \in DOMAIN s : s[k] \in DOMAIN key /\ \A j \in 1 .. k - 1 : s[j] # s[k]}
        ahead(k) == {j \in firsts : \/ key[s[j]] < key[s[k]]
                                   \/ (key[s[j]] = key[s[k]] /\ j < k)}
    IN  [n \in 1 .. Cardinality(firsts) |-> s[CHOOSE k \in firsts : Cardinality(ahead(k)) = n - 1]]

(* Those that are in S, and the living ones, best first. *)
FirstsIn(s, S) == Listed(s, [i \in S |-> 0])
Ranked(s, R)   == Listed(s, [i \in Range(s) \cap Alive(R) |-> R[i].speed])

(***************************************************************************)
(* Children.                                                               *)
(***************************************************************************)
(* The hand-made designs and what is seeded to fill the population. *)
Founders == [k \in 1 .. N |-> k - 1]

(* A child of p: mutated until it is one this run has not asked for, or     *)
(* Tries times.                                                            *)
Child(p, seen) ==
    LET tried(t) == (p + t) % M
        new == {t \in 1 .. Tries : tried(t) \notin seen}
    IN  tried(IF new = {} THEN Tries ELSE Min(new))

(* N children; every one asked for is seen by the next. *)
Bred(live, seen) ==
    LET kids[k \in 0 .. N] ==
          IF k = 0 THEN <<>>
          ELSE Append(kids[k - 1],
                      Child(live[((k - 1) % Len(live)) + 1], seen \cup Range(kids[k - 1])))
    IN  kids[N]

(* Not the code: new to the database, where this run's later children may be. *)
KidsNewToDatabase(gen, pop, seen, R) ==
    IF gen = 0 THEN Founders ELSE Bred(Ranked(pop, R), seen \cup DOMAIN R)

Kids(gen, pop, seen, R) == IF gen = 0 THEN Founders ELSE Bred(Ranked(pop, R), seen)

(* No design to breed from: live[0] raises. *)
Barren(gen, pop, R) == gen > 0 /\ Ranked(pop, R) = <<>>

(* Not the code: only a living design counts as known. *)
PendingUnlessAlive(kids, R) == FirstsIn(kids, Range(kids) \ Alive(R))

(* What get() leaves to be evaluated of the designs asked for. *)
Pending(kids, R) == FirstsIn(kids, Range(kids) \ DOMAIN R)

(***************************************************************************)
(* The screen: a model fitted on the living designs of earlier generations *)
(* predicts a child's speed from its gene; beaten by what was measured, it *)
(* is recorded and not measured, unless its id is one to be audited.       *)
(***************************************************************************)
Earlier(R, gen) == {i \in Alive(R) : R[i].gen < gen}

Refitted(scr, items, R, gen) ==
    IF /\ items # <<>> /\ gen >= SCREEN_FROM
       /\ scr = NoModel \/ gen - scr.fit >= SCREEN_EVERY
       /\ Cardinality(Earlier(R, gen)) >= SCREEN_MIN
    THEN [fit |-> gen, model |-> [i \in Earlier(R, gen) |-> R[i].speed]]
    ELSE scr

(* The weight of i's gene: the best speed fitted with it, else the best of all. *)
Predicted(model, i) ==
    LET like == {j \in DOMAIN model : j % 2 = i % 2}
    IN  Min({model[j] : j \in IF like = {} THEN DOMAIN model ELSE like})

Beaten(scr, i, R, gen) ==
    /\ gen >= SCREEN_FROM
    /\ scr.fit >= 0 /\ DOMAIN scr.model # {}
    /\ \E j \in Earlier(R, gen) : R[j].speed < Predicted(scr.model, i)

Audited(i) == SCREEN_AUDIT # 0 /\ i % SCREEN_AUDIT = 0

SetAside(scr, items, R, gen) == {i \in Range(items) : Beaten(scr, i, R, gen) /\ ~Audited(i)}
Screened(scr, items, R, gen) == FirstsIn(items, SetAside(scr, items, R, gen))
Kept(scr, items, R, gen)     == FirstsIn(items, Range(items) \ SetAside(scr, items, R, gen))

ScreenedRecord(gen) == [status |-> "screened", speed |-> 0, gen |-> gen, gated |-> 0]

(***************************************************************************)
(* Measuring.  A child faster than 1.05 of the FASTGATE-th fastest is      *)
(* gated: measured again with the next generation's children.  Readings    *)
(* are further apart than 5%.                                              *)
(***************************************************************************)
Gated(speed, R) ==
    /\ FASTGATE > 0 /\ Cardinality(Alive(R)) >= FASTGATE
    /\ Cardinality({i \in Alive(R) : R[i].speed < speed}) < FASTGATE

Measured(reading, gen, R) ==
    IF reading = Dead THEN [status |-> "died", speed |-> 0, gen |-> gen, gated |-> 0]
    ELSE [status |-> "ok", speed |-> 2 * reading, gen |-> gen,
          gated |-> IF Gated(2 * reading, R) THEN 1 ELSE 0]

(* Not the code: a design measured twice counts as gated still. *)
AgainWhileGated(items, R) == {i \in Alive(R) : items # <<>> /\ R[i].gated # 0}

(* The gated designs measured again, when there is anything to measure. *)
Again(items, R) == {i \in Alive(R) : items # <<>> /\ R[i].gated = 1}

GateAgain(r, reading) ==
    IF reading = Dead THEN [r EXCEPT !.status = "died", !.gated = 2]
    ELSE [r EXCEPT !.speed = (@ \div 2) + reading, !.gated = 2]

(***************************************************************************)
(* The next population: the first N of parents and children ranked.        *)
(***************************************************************************)
Survivors(gen, pop, kids, R) ==
    IF gen = 0 THEN kids
    ELSE LET best == Ranked(pop \o kids, R) IN SubSeq(best, 1, IF Len(best) < N THEN Len(best) ELSE N)
=============================================================================

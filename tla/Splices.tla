------------------------------- MODULE Splices -------------------------------
(***************************************************************************)
(* What tools/sod16.py puts into a body before any rewrite, and every      *)
(* offset it moves by that: a callee's body in place of a hot call         *)
(* (hot_inline), a ?BRANCH over every ABORT" (guard_aborts).               *)
(***************************************************************************)
EXTENDS Rewrites

CONSTANT Overlay                    \* word -> the word whose body it gets in the swap

(* All bits set, as guard_aborts writes it: an unsigned cell, which no      *)
(* shorter literal holds.                                                  *)
AllOnes == 2147483647

(* Not the code: spliced in, with every offset as it was. *)
SplicedUnmoved(ops, put, keep) ==
    LET flat[j \in 0 .. Len(ops)] == IF j = 0 THEN <<>> ELSE flat[j - 1] \o put[j]
    IN  flat[Len(ops)]

(* The offsets of ops, put[j] standing where operation j was and keep[j]    *)
(* being where in it that operation is, 0 if it is gone: each leads where   *)
(* it led.  A branch to j now leads to the beginning of put[j].            *)
Spliced(ops, put, keep) ==
    LET cs    == CellsAt(ops)
        flat[j \in 0 .. Len(ops)] == IF j = 0 THEN <<>> ELSE flat[j - 1] \o put[j]
        first[j \in 1 .. Len(ops) + 1] == IF j = 1 THEN 1 ELSE first[j - 1] + Len(put[j - 1])
        new   == flat[Len(ops)]
        cs2   == CellsAt(new)
        old   == {cs[j] : j \in 1 .. Len(ops) + 1}
        pos(c) == cs2[first[CHOOSE j \in 1 .. Len(ops) + 1 : cs[j] = c]]
        moved(j, at) ==
            LET op == ops[j]
            IN  CASE op.k \in {"BR", "QBR"} -> pos(Target(op, cs[j])) - (at + 1)
                  [] op.k = "OPD"           -> pos(Target(op, cs[j])) - at
                  [] op.k = "XT"            -> op.v + cs[j] - at
                  [] OTHER                  -> op.v
        stays == [j \in {i \in DOMAIN ops : keep[i] > 0} |-> first[j] + keep[j] - 1]
    IN  IF ~(BranchTargets(ops) \subseteq old) THEN ops
        ELSE [i \in DOMAIN new |->
                 IF \E j \in DOMAIN stays : stays[j] = i
                 THEN LET j == CHOOSE k \in DOMAIN stays : stays[k] = i
                      IN  [new[i] EXCEPT !.v = moved(j, cs2[i])]
                 ELSE new[i]]
-----------------------------------------------------------------------------
(* RA_WORDS: words that read the return stack below their own entry. *)
RA_WORDS == {"EXECUTE", "I", "J", "UNLOOP", "(DO)", "(?DO)", "(LOOP)", "(+LOOP)", "(LEAVE)"}

(* rs_walk: the return stack along a body never below its entry, at it at   *)
(* each EXIT and, strict, at the end.                                      *)
RsWalk(names, strict) ==
    LET need(n) == CASE n \in {"R>", "R@", "RDROP"} -> 1 [] n \in {"2R>", "2R@"} -> 2 [] OTHER -> 0
        step(n) == CASE n = ">R" -> 1 [] n = "2>R" -> 2 [] n \in {"R>", "RDROP"} -> -1
                     [] n = "2R>" -> -2 [] OTHER -> 0
        depth[j \in 0 .. Len(names)] == IF j = 0 THEN 0 ELSE depth[j - 1] + step(names[j])
    IN  /\ \A j \in DOMAIN names :
              /\ names[j] \notin {"RP@", "RP!"}
              /\ depth[j - 1] >= need(names[j])
              /\ names[j] = "EXIT" => depth[j] = 0
        /\ strict => depth[Len(names)] = 0

Prims(ops) == LET ps == SelectSeq(ops, LAMBDA op : op.k \in {"P", "SP"})
                  all[j \in 0 .. Len(ps)] == IF j = 0 THEN <<>> ELSE all[j - 1] \o ps[j].n
              IN  all[Len(ps)]

(* final_word: the word whose body a call of w runs after the swap, and its *)
(* name then.                                                              *)
Runs(d, w) == IF d.swap /\ w \in DOMAIN Overlay THEN Overlay[w] ELSE w
FinalName(d, w) ==
    IF d.swap /\ \E x \in DOMAIN Overlay : Overlay[x] = w THEN CHOOSE x \in DOMAIN Overlay : Overlay[x] = w ELSE w

(* ra_safe: a word that may be called from anywhere. *)
RaSafe(d, w) ==
    /\ FinalName(d, w) \notin RA_WORDS
    /\ \/ w \in Vars
       \/ Runs(d, w) \in DOMAIN d.image /\ RsWalk(Prims(d.image[Runs(d, w)]), FALSE)

(* inline_body: straight-line code up to its one EXIT, that reads nobody's  *)
(* return address.                                                         *)
Inlinable(d, w) ==
    LET ops  == d.image[Runs(d, w)]
        body == SubSeq(ops, 1, Len(ops) - 1)
        at   == Exact(d, d.ops10)
    IN  /\ Runs(d, w) \in DOMAIN d.image /\ w \notin Vars
        /\ ops[Len(ops)] = EXIT
        /\ ~(Len(ops) = 2 /\ ops[1].k = "P")
        /\ \A j \in DOMAIN body :
              /\ body[j].k \in {"P", "C", "LIT"} /\ body[j] # EXIT
              /\ body[j].k = "C" => /\ body[j].n[1] \notin {w, Runs(d, w)}
                                    /\ RaSafe(d, body[j].n[1]) \/ body[j].n[1] \in at \ RA_WORDS
        /\ RsWalk(Prims(body), TRUE)

(* hot_sites: the k-th call of a word in a body. *)
NthCall(d, ops, j) ==
    Cardinality({i \in 1 .. j : ops[i].k = "C" /\ FinalName(d, ops[i].n[1]) = FinalName(d, ops[j].n[1])})
HotSites(d, w, ops) ==
    {j \in DOMAIN ops :
        /\ ops[j].k = "C" /\ ops[j].n[1] \in DOMAIN d.image
        /\ <<FinalName(d, w), FinalName(d, ops[j].n[1]), NthCall(d, ops, j)>> \in d.hot
        /\ Inlinable(d, ops[j].n[1])}

HotInline(d, w, ops) ==
    LET sites == IF d.swap /\ w \in DOMAIN Overlay THEN {} ELSE HotSites(d, w, ops)
        body(j) == LET b == d.image[Runs(d, ops[j].n[1])] IN SubSeq(b, 1, Len(b) - 1)
    IN  IF sites = {} THEN ops
        ELSE Spliced(ops, [j \in DOMAIN ops |-> IF j \in sites THEN body(j) ELSE <<ops[j]>>],
                          [j \in DOMAIN ops |-> IF j \in sites THEN 0 ELSE 1])

(* guard_aborts: over the call and its message if the flag is false, and a  *)
(* flag for it if true; a call guarded by hand stays.  The new ?BRANCH is   *)
(* named for what it passes over.                                          *)
AbortQ == "(ABORT\")"
AbortSites(ops) ==
    {j \in DOMAIN ops :
        /\ ops[j] = C(AbortQ) /\ j < Len(ops) /\ ops[j + 1].k = "STR"
        /\ ~(j > 1 /\ ops[j - 1] \in {LIT(-1), LIT(AllOnes)})}

GuardAborts(ops) ==
    LET sites == AbortSites(ops)
        past(j) == Cells(LIT(AllOnes)) + Cells(ops[j]) + Cells(ops[j + 1]) + 1
        guard(j) == Op("QBR", ops[j].n, past(j))
    IN  IF sites = {} THEN ops
        ELSE Spliced(ops, [j \in DOMAIN ops |-> IF j \in sites THEN <<guard(j), LIT(AllOnes), ops[j]>> ELSE <<ops[j]>>],
                          [j \in DOMAIN ops |-> IF j \in sites THEN 3 ELSE 1])
=============================================================================

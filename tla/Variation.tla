------------------------------ MODULE Variation ------------------------------
(***************************************************************************)
(* How src/lab/evolve/evolve.py makes genomes: drawn at random, mutated,   *)
(* crossed, borrowed into, and rtloopall's prerequisite repaired.  Random  *)
(* draws are sets of results; what would be too many to draw from is a     *)
(* constant operator.                                                      *)
(***************************************************************************)
EXTENDS Genes

CONSTANTS
    Ops10Pool, SuperPool, FoldPool,   \* the words and pairs to draw from
    Draws(_, _),    \* Draws(lo, hi): of the sizes between lo and hi, those tried
    Picks(_, _),    \* Picks(m, n): of the choices of n of m places, those tried
    Mixes           \* crossover: the genes and specialisations taken from a

ASSUME PoolAssumption == Loop10 \subseteq Ops10Pool

(* ---- random_genome: what a draw can give ---- *)

SubList(s, pool) == s \in Seq(pool) /\ IsInjective(s)
Drawable(g, k) ==
    CASE k = "spec"   -> g.spec \subseteq Specs
      [] k = "opcall" -> SubList(g.opcall, OpcallPool)
      [] k = "ops10"  -> SubList(g.ops10, Ops10Pool)
      [] k = "supers" -> SubList(g.supers, SuperPool)
      [] k = "folds"  -> SubList(g.folds, FoldPool) /\ Len(g.folds) <= FoldMax
      [] OTHER        -> g[k] \in Values(k)
Random(g, base) ==
    /\ DOMAIN g = AllGenes
    /\ g.enc \in Families
    /\ \A k \in AllGenes \ {"enc"} :
          IF k \in Expressed(g.enc) \cup CC0 THEN Drawable(g, k) ELSE g[k] = base[k]

(* What random_genome can draw, the genes an encoding does not express too. *)
Genome(g) == /\ DOMAIN g = AllGenes
             /\ g.enc \in Families
             /\ \A k \in AllGenes \ {"enc"} : Drawable(g, k)

(* ---- mutate: one gene changed ---- *)

Added(f, out)   == {InsertAt(f, i, p) : i \in 1..(Len(f) + 1), p \in out}
Removed(f)      == {RemoveAt(f, i) : i \in DOMAIN f}
Swapped(f, out) == {[f EXCEPT ![i] = q] : i \in DOMAIN f, q \in out}

(* One more if there is room, one fewer, or one swapped.                   *)
ListChanged(f, pool, room) ==
    LET out == pool \ ToSet(f)
    IN  (IF room THEN Added(f, out) ELSE {}) \cup Removed(f) \cup Swapped(f, out)

Toggled(s) == {IF x \in s THEN s \ {x} ELSE s \cup {x} : x \in Specs}

Pool(g) == ((Expressed(g.enc) \cup CC0) \ Frozen) \cup {"enc"}

Changed(g, k) ==
    CASE k = "enc"    -> {[g EXCEPT !.enc = f] : f \in Families \ {g.enc}}
      [] k = "spec"   -> {[g EXCEPT !.spec = s] : s \in Toggled(g.spec)}
      [] k = "ops10"  -> {[g EXCEPT !.ops10 = f] : f \in ListChanged(g.ops10, Ops10Pool, TRUE)}
      [] k = "opcall" -> {[g EXCEPT !.opcall = f] : f \in ListChanged(g.opcall, OpcallAvail(g), TRUE)}
      [] k = "supers" -> {[g EXCEPT !.supers = f] : f \in ListChanged(g.supers, SuperPool, TRUE)}
      [] k = "folds"  -> {[g EXCEPT !.folds = f] :
                            f \in ListChanged(g.folds, FoldPool, Len(g.folds) < FoldMax)}
      [] OTHER        -> {[g EXCEPT ![k] = v] : v \in Values(k) \ {g[k]}}

(* ---- rtloopall_repair ---- *)

(* The loop words missing from the list put first; none missing, all of    *)
(* them.                                                                   *)
LoopsFirst(g) ==
    LET missing == Kept(LoopSeq, Loop10 \ ToSet(g.ops10))
        first   == IF missing # <<>> THEN missing
                   ELSE IF ~RtloopallOn(g) THEN LoopSeq ELSE <<>>
    IN  [g EXCEPT !.ops10 = first \o Kept(g.ops10, ToSet(g.ops10) \ ToSet(first))]

(* Not the code: escape, and the slots it frees, are not turned on.        *)
RepairedNoEscape(g) ==
    LET listed == LoopsFirst(g)
    IN  [listed EXCEPT !.rtloop = IF @ = 0 THEN 1 ELSE @]

Repaired(g) ==
    LET listed  == LoopsFirst(g)
        looping == [listed EXCEPT !.rtloop = IF @ = 0 THEN 1 ELSE @]
    IN  IF RtloopallOn(looping) THEN looping
        ELSE [looping EXCEPT !.escape = IF @ = 0 THEN 1 ELSE @]

(* mutate(): a gene changed, and rtloopall repaired where it is asked for   *)
(* and blocked - always when just turned on, else one time in four.        *)
Blocked(g) == Cv8(g) /\ g.rtloopall # 0 /\ ~RtloopallOn(g)
Mutated(g, h) == IF ~Blocked(h) THEN {h}
                 ELSE IF g.rtloopall = 0 THEN {Repaired(h)}
                 ELSE {h, Repaired(h)}

(* ---- crossover and borrow ---- *)

Links == {{"jit", "jitx", "jitloop", "jitinl", "jitos", "jittail", "jitk"},
          {"tos", "tail", "msc"}, {"escape", "rtloopall"}, {"rtfuse", "rtimm"}}
Whole(from) == \A grp \in Links : grp \subseteq from \/ grp \cap from = {}

Lesser(m, n)  == IF m <= n THEN m ELSE n
Greater(m, n) == IF m <= n THEN n ELSE m

Increasing(m, n) == {f \in Picks(m, n) : /\ f \in [1..n -> 1..m]
                                         /\ \A i, j \in 1..n : i < j => f[i] < f[j]}

(* n of the words of both, in the order of both, n between their lengths.  *)
MergedList(s, t, cap) ==
    LET both == s \o Kept(t, ToSet(t) \ ToSet(s))
        lo    == Lesser(Len(s), Len(t))
        hi    == Greater(Len(s), Len(t))
        sizes == {Lesser(cap, n) : n \in Draws(lo, hi) \cap (lo..hi)}
    IN  UNION { {[i \in 1..n |-> both[f[i]]] : f \in Increasing(Len(both), n)} : n \in sizes }

NoCap == 1000
Mixed(a, b, from, l) ==
    [k \in DOMAIN a |->
        CASE k = "ops10"  -> l.ops10
          [] k = "supers" -> l.supers
          [] k = "folds"  -> l.folds
          [] k = "spec"   -> {s \in Specs : s \in (IF s \in from THEN a.spec ELSE b.spec)}
          [] OTHER        -> IF k \in from THEN a[k] ELSE b[k]]
Crossed(a, b) ==
    { Canon(Mixed(a, b, from, l))
      : from \in {m \in Mixes : Whole(m)},
        l \in [ops10  : MergedList(a.ops10, b.ops10, NoCap),
               supers : MergedList(a.supers, b.supers, NoCap),
               folds  : MergedList(a.folds, b.folds, FoldMax)] }

Blocks == {{"sharedcall", "d256"}, {"scale", "bytehdr", "doesfar"}, {"varcall", "varslot"},
           {"spec"}, {"folds"}, {"tos", "guard"}, CC0, {"skippad", "fold"}, {"supers"},
           {"folds", "supers"}, {"ops10"}, {"ops10", "supers"}, {"escape", "ops10", "supers"},
           {"tail"}, {"tail", "tos"}, {"msc"}, {"msc", "tail"}, {"hotcalls"}, {"rtimm"},
           {"rtfuse", "rtimm"}, {"lean"}, {"rtloop"}, {"rtloopall"},
           {"rtloop", "rtloopall", "rtiplus", "swapi"}, {"bss", "thinhdr"},
           {"kfast", "tfind", "kinput", "klookup"}, {"tag2", "t2hot", "t2wide"}, {"hotinl"},
           {"opbody"}, {"rtempty"}, {"jitx"}, {"alignfn"}, {"noinls"}, {"fbuf"}, {"kstack"},
           {"abortif"}, {"opcall"}}

Borrowed(g, donor) ==
    {[k \in DOMAIN g |-> IF k \in blk THEN Canon(donor)[k] ELSE Canon(g)[k]] : blk \in Blocks}
==============================================================================

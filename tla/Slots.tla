-------------------------------- MODULE Slots --------------------------------
(***************************************************************************)
(* How a CV8 design's one-byte opcodes are given out                       *)
(* (src/lab/evolve/evolve.py): superinstructions and format-10 words take  *)
(* the codes that folds, specialisations and primitives leave free, and    *)
(* several genes claim words for the first of those slots.                 *)
(*                                                                         *)
(* A genome is a record of its genes.  folds, supers, ops10 and opcall are *)
(* sequences without repetition, spec is the set of specialisations (the   *)
(* program keeps it in one fixed order), every other gene is a number or   *)
(* a name, 0 when off.  Every operator here is a function of the genome.   *)
(***************************************************************************)
EXTENDS Integers, Sequences, FiniteSets, SequencesExt

CONSTANT X86        \* the run is on x86-64

FoldMax == 23

Loop10  == {"(DO)", "(LOOP)", "(+LOOP)", "(?DO)", "(LEAVE)", "I", "J", "UNLOOP"}
LoopSeq == <<"(DO)", "(LOOP)", "(+LOOP)", "(?DO)", "(LEAVE)", "I", "J", "UNLOOP">>
KInput  == <<"SCAN", "SKIP", "FILL", "(PARSE)", "HASH", "PLACE">>
KLookup == <<"(FIND)", "(>NUMBER)">>
RtTests == {"?NBRANCH", "<?BRANCH", "=?BRANCH", "U<?BRANCH", "<>?BRANCH",
            ">?BRANCH", "0<?BRANCH"}
OpBody  == {"(FIND)", "(>NUMBER)", "THREAD-FIND", "+!", "?DUP", "2@", "2!", ">", "0="}
OpbBase == {"FILL", "CMOVE", "SCAN", "SKIP", "(PARSE)", "HASH", "PLACE"}

OpcallPool == {"DROP", "AND", "@", ">R", "C@", "SWAP", "DUP", "ROT", "OVER",
               "R>", "+", "OR", "0=", "1+", "(PARSE)", "PLACE"}

Cv8(g) == g.enc = "cv8"
If(c, s) == IF c THEN s ELSE <<>>
Run(a, b) == [i \in 1..(IF b >= a THEN b - a + 1 ELSE 0) |-> a + i - 1]

(* The elements of s that are in T, in its order.                          *)
Kept(s, T) ==
    LET at == {i \in DOMAIN s : s[i] \in T}
    IN  [k \in 1..Cardinality(at) |->
            s[CHOOSE i \in at : Cardinality({j \in at : j <= i}) = k]]

(* ---- the opcodes that are free, in the order they are given out ---- *)

FoldCodes(g)  == {72 + i : i \in 1..Len(g.folds)}
SpecCodes(g)  == IF g.spec = {} THEN {} ELSE 96..123
FirstFreed(g) == IF g.escape = 2 THEN 27 ELSE 36
PrimCodes(g)  == IF g.escape = 0 THEN 0..67 ELSE 0..(FirstFreed(g) - 1)

(* Not the code: the fold band is given out from one code too early, over  *)
(* the last fold.                                                          *)
SuperSlotsOverFold(g) == <<126, 127>> \o Run(72 + Len(g.folds), 95)
                   \o If(g.spec = {}, Run(96, 123))
                   \o If(g.escape # 0, Run(FirstFreed(g), 67))

SuperSlots(g) == <<126, 127>> \o Run(73 + Len(g.folds), 95)
                   \o If(g.spec = {}, Run(96, 123))
                   \o If(g.escape # 0, Run(FirstFreed(g), 67))

(* ---- the genes that claim words, each on the one before it ---- *)

KfastOn(g)   == Cv8(g) /\ g.bytehdr # 0 /\ g.kfast # 0
TfindOn(g)   == KfastOn(g) /\ g.tfind # 0
KinputOn(g)  == KfastOn(g) /\ g.kinput # 0
KlookupOn(g) == KinputOn(g) /\ g.klookup # 0
KnumberOn(g) == KlookupOn(g) /\ g.knumber # 0
SwapiOn(g)   == Cv8(g) /\ "imm" \in g.spec /\ g.swapi # 0

(* A word of the list that its gene does not allow claims nothing.         *)
Usable(g, iplus, w) ==
    /\ w = "THREAD-FIND" => KfastOn(g)
    /\ w = "(PARSE)" => KinputOn(g)
    /\ w \in ToSet(KLookup) => KlookupOn(g)
    /\ w # "(NUMBER?)"
    /\ w = "I+" => iplus

(* The words sure of a slot, and the whole list in the order it claims.    *)
Ahead(g, iplus) ==
    If(SwapiOn(g), <<"SWAP+I">>) \o If(iplus, <<"I+">>)
      \o If(KnumberOn(g), <<"(NUMBER?)">>) \o If(KlookupOn(g), KLookup)
      \o If(TfindOn(g), <<"THREAD-FIND">>) \o If(KinputOn(g), KInput)

Ops10Order(g, iplus) ==
    LET ahead == Ahead(g, iplus)
    IN  ahead \o Kept(g.ops10, {w \in ToSet(g.ops10) \ ToSet(ahead) : Usable(g, iplus, w)})

(* The first words of the list, as many as there are slots.                *)
Given(words, slots) ==
    SubSeq(words, 1, IF Len(words) <= Len(slots) THEN Len(words) ELSE Len(slots))

(* ---- the run-time loop compiler ---- *)

RtloopOn(g) == Cv8(g) /\ g.rtloop # 0 /\ \E w \in Loop10 : w \in ToSet(g.ops10)

(* Not the code: in the list is enough, as before a loop word could be     *)
(* pushed past the last slot.                                              *)
RtloopallListed(g) == RtloopOn(g) /\ g.rtloopall # 0 /\ Loop10 \subseteq ToSet(g.ops10)

(* All eight loop words must get a slot, I+ taken to claim one as soon as  *)
(* rtiplus is asked for.                                                   *)
RtloopallOn(g) ==
    /\ RtloopOn(g)
    /\ g.rtloopall # 0
    /\ Loop10 \subseteq ToSet(g.ops10)
    /\ Loop10 \subseteq ToSet(Given(Ops10Order(g, g.rtiplus # 0), SuperSlots(g)))

RtiplusOn(g) == RtloopallOn(g) /\ g.rtiplus # 0

(* ---- which word, pair and op;CALL has which opcode ---- *)

Ops10In(g)  == Given(Ops10Order(g, RtiplusOn(g)), SuperSlots(g))
Ops10Codes(g) == SubSeq(SuperSlots(g), 1, Len(Ops10In(g)))

PairSlots(g) == SubSeq(SuperSlots(g), Len(Ops10In(g)) + 1, Len(SuperSlots(g)))
SupersIn(g)  == Given(g.supers, PairSlots(g))
SuperCodes(g) == SubSeq(PairSlots(g), 1, Len(SupersIn(g)))

HasRtTests(g) == \E w \in RtTests : w \in ToSet(Ops10In(g))

Tag2(g) == Cv8(g) /\ g.tag2 # 0 /\ g.bytehdr # 0

OpcallOn(g) == Tag2(g) /\ g.tail = 0 /\ g.msc = 0
OpcallAvail(g) ==
    {n \in OpcallPool : /\ n \in {"0=", "1+"} => "tiny" \in g.spec
                        /\ n \in {"(PARSE)", "PLACE"} => n \in ToSet(Ops10In(g))}
OpcallIn(g) ==
    IF OpcallOn(g) THEN Kept(g.opcall, OpcallAvail(g)) ELSE <<>>

(* ---- the run-time fuser, and the engines the JIT and the tag take ---- *)

Rtimm2(g)   == Cv8(g) /\ g.rtimm = 2 /\ "imm" \in g.spec
ToFuse(g)   == SupersIn(g) # <<>> \/ HasRtTests(g)
Overlay(g)  == Cv8(g) /\ \/ g.rtfuse # 0 /\ ToFuse(g)
                         \/ Rtimm2(g)
                         \/ RtiplusOn(g)
RtimmLean(g) == Rtimm2(g) /\ ~ToFuse(g) /\ ~Tag2(g) /\ ~RtiplusOn(g)

JitOn(g) == /\ Tag2(g) /\ g.jit # 0
            /\ g.tos # 0 /\ g.msc = 0 /\ g.tail = 0
            /\ X86
T2wideOn(g) == Tag2(g) /\ g.t2wide # 0 /\ ~(g.msc # 0 /\ g.tos # 0)

FsysOn(g)    == Cv8(g) /\ g.fsys # 0
FsysLevel(g) == IF FsysOn(g) THEN g.fsys ELSE 0
==============================================================================

-------------------------------- MODULE Genes --------------------------------
(***************************************************************************)
(* The gene table of src/lab/evolve/evolve.py: which genes an encoding     *)
(* expresses, the values each takes, and express() - the genes that make   *)
(* the design, hashed into its id.  A design is measured once per id.      *)
(***************************************************************************)
EXTENDS Slots

CONSTANTS HaveClang,    \* clang is installed: the gene compiler is offered
          CellWidth     \* bytes to a cell of what this run builds, 8 or 4

Specs    == {"loc", "var", "tiny", "small", "imm"}
Families == {"cell", "sod16", "cpt16", "cv8"}
Frozen   == {"tail", "kstack", "tailpn"}

CC0      == {"opt", "nogcse", "nocrossjump", "nocet", "align1", "noreorder",
             "peel", "ipaclone", "tracer"}
GccOnly  == {"nogcse", "nocrossjump", "align1", "noreorder", "peel", "ipaclone",
             "tracer", "noinls", "gotodup", "jitos", "regpin", "lto", "alignhot"}
FlagGenes == (CC0 \ {"opt"}) \cup {"alignfn", "noinls"}     \* CFLAGS' keys

OnJit    == {"jit", "jitx", "jitloop", "jitmul", "jittail", "jitret", "jitvar",
             "jitimg", "jitk", "jitos", "jitrp"}
OnJitx   == {"jitinl", "jitdoes", "jitexec", "jitcfa", "jitfuse", "jitrp"}
OnTag    == {"tag2", "t2hot", "hotinl", "t2wide", "rtempty", "kstack", "factor"}
EarlyCv8 == {"tos", "scale", "bytehdr", "spec", "sharedcall", "doesfar", "varcall",
             "varslot", "d256", "guard", "folds", "supers", "rtfuse", "ops10",
             "escape", "tail", "msc"}
LateCv8  == OnJit \cup OnJitx \cup OnTag
            \cup {"hotcalls", "rtimm", "lean", "rtloop", "rtloopall", "bss", "kfast",
                  "tfind", "kinput", "klookup", "thinhdr", "rtiplus", "swapi",
                  "opbody", "alignfn", "noinls", "fbuf", "abortif", "opcall",
                  "opinline", "tailpn", "knumber", "alignhot", "bfind", "lto",
                  "gotodup", "threads", "fsys", "regpin", "dskew"}
            \cup (IF HaveClang THEN {"compiler"} ELSE {})
Late     == LateCv8 \cup {"peel", "ipaclone", "tracer"}

Expressed(enc) == CASE enc = "cell"  -> {}
                    [] enc = "sod16" -> {"skippad"}
                    [] enc = "cpt16" -> {"scale", "skippad", "fold", "folds"}
                    [] enc = "cv8"   -> EarlyCv8 \cup LateCv8

ListGenes == {"folds", "supers", "ops10", "opcall"}
AllGenes  == {"enc", "skippad", "fold", "compiler"} \cup CC0 \cup EarlyCv8 \cup LateCv8
Values(k) == CASE k \in {"rtimm", "rtloop", "gotodup", "fbuf", "escape"} -> 0..2
               [] k \in {"scale", "t2hot", "threads", "regpin", "alignhot", "factor"} -> 0..3
               [] k = "hotcalls" -> {0, 8, 16, 32}
               [] k = "hotinl"   -> {0, 10, 20, 40}
               [] k = "jitk"     -> {0, 2, 3}
               [] k = "fsys"     -> 0..5
               [] k = "opt"      -> {"O2", "O3", "Os"}
               [] OTHER -> {0, 1}

(* Byte headers never convert with scaled targets.                         *)
Canon(g)   == IF g.bytehdr # 0 THEN [g EXCEPT !.scale = 0] ELSE g
Require(g) == IF Cv8(g) THEN [g EXCEPT !.tail = 0, !.kstack = 0, !.tailpn = 0] ELSE g

Clang(g) == Cv8(g) /\ HaveClang /\ g.compiler # 0
MscOn(g) == g.msc # 0 /\ g.tos # 0

(* ---- the rules: which genes do nothing in this design ---- *)

Unless(met, genes) == IF met THEN {} ELSE genes

DispatchDropped(g) ==
    (IF g.varcall # 0 THEN {"sharedcall"} ELSE {"doesfar"})
      \cup Unless(g.tos # 0, {"msc", "tail"})
      \cup Unless(~MscOn(g), {"d256", "sharedcall", "tail"})
      \cup Unless(g.tail = 0 \/ g.tos = 0 \/ MscOn(g), {"d256", "sharedcall"})

Given10(g) == ToSet(Ops10In(g))

CompilerDropped(g) ==
    IF Clang(g) THEN GccOnly
    ELSE {"compiler"} \cup Unless(g.align1 = 0 /\ g.alignfn = 0, {"alignhot"})

RuleDropped(g) ==
    LET given == Given10(g)
        fuse  == ToFuse(g)
        loops == RtloopallOn(g)
    IN UNION { Unless(fuse, {"rtfuse"}),
            Unless("imm" \in g.spec /\ Overlay(g), {"rtimm"}),
            Unless(RtloopOn(g), {"rtloop"}),
            Unless(loops, {"rtloopall"}),
            Unless(loops /\ g.rtiplus # 0, {"rtiplus"}),
            Unless(KfastOn(g), {"kfast"}),
            Unless(TfindOn(g), {"tfind"}),
            Unless(KinputOn(g), {"kinput"}),
            Unless(KlookupOn(g), {"klookup"}),
            Unless(KnumberOn(g), {"knumber"}),
            Unless(SwapiOn(g), {"swapi"}),
            Unless(Tag2(g), OnTag),
            Unless(T2wideOn(g), {"t2wide"}),
            Unless(~KinputOn(g), {"kstack"}),
            Unless(g.varcall # 0 /\ ~Tag2(g), {"hotcalls"}),
            Unless(JitOn(g), OnJit),
            Unless(JitOn(g) /\ g.jitx # 0, OnJitx),
            Unless(~Clang(g) /\ CellWidth = 8 /\ g.lto = 0, {"jitrp"}),
            Unless(g.opt # "Os", {"jitos"}),
            Unless(given \cap OpBody # {}, {"opbody"}),
            Unless(\/ given \cap OpbBase # {}
                   \/ g.opbody # 0 /\ given \cap OpBody # {}, {"opinline"}),
            Unless(given \cap {"THREAD-FIND", "(FIND)"} # {}, {"bfind"}),
            Unless(Clang(g) /\ g.tail # 0 /\ g.tos # 0 /\ ~MscOn(g), {"tailpn"}) }

Dropped(g) ==
    IF Cv8(g) THEN DispatchDropped(g) \cup CompilerDropped(g) \cup RuleDropped(g)
    ELSE Unless(g.enc # "cpt16" \/ g.fold # 0, {"folds"})

(* A gene's value as the id has it: lists only as far as they got opcodes, *)
(* and two values that build the same as one.                              *)
Shown(g, k) ==
    CASE k = "supers" -> SupersIn(g)
      [] k = "ops10"  -> Ops10In(g)
      [] k = "opcall" -> OpcallIn(g)
      [] k = "rtimm"  -> IF g.rtimm = 2 /\ g.rtfuse # 0 /\ ToFuse(g) THEN 1 ELSE g.rtimm
      [] k = "rtloop" -> IF g.rtloop = 2 /\ RtloopallOn(g) THEN 1 ELSE g.rtloop
      [] OTHER -> g[k]

(* The genes of the id of a genome that is canon().                        *)
Live(g) ==
    LET there == ({"enc"} \cup CC0 \cup Expressed(g.enc)) \ Dropped(g)
    IN  {k \in there : k \in Late => IF k = "opcall" THEN OpcallIn(g) # <<>> ELSE g[k] # 0}

Express(g) == [k \in Live(Canon(g)) |-> Shown(Canon(g), k)]
==============================================================================

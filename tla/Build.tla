-------------------------------- MODULE Build --------------------------------
(***************************************************************************)
(* What build() of src/lab/evolve/evolve.py makes of a genome, as the      *)
(* settings it hands on: the macros the engine is compiled with, the       *)
(* compiler and its flags, the kernel dump and the converter's options.    *)
(* Two genomes with the same settings build the same files.  A setting     *)
(* that cannot change its file is left out: --op-bodies is what it names   *)
(* of the design's own words.                                              *)
(***************************************************************************)
EXTENDS Genes

JitFlags == {"jitvar", "jitloop", "jitinl", "jitmul", "jitdoes", "jitexec", "jitcfa",
             "jitfuse", "jitos", "jittail", "jitret"}

(* The registers regpin takes leave jitrp another one.                     *)
JitrpReg(g) == CASE g.regpin = 2 -> "rbx" [] g.regpin = 3 -> "r13" [] OTHER -> "r15"

JitSettings(g, live) ==
    IF JitOn(g)
    THEN [flags |-> (JitFlags \cap live) \cup Unless(g.jitx = 0, {"jitx"}),
          reg   |-> IF "jitrp" \in live THEN JitrpReg(g) ELSE "memory",
          cache |-> IF "jitk" \in live /\ CellWidth = 8 THEN g.jitk ELSE 0]
    ELSE "no JIT"

(* Not the code: DOES> calls are made far on the gene alone, though the    *)
(* engine reads them only among variable-length calls.                     *)
DoesfarAsked(g) == g.doesfar # 0

Doesfar(g)    == g.doesfar # 0 /\ g.varcall # 0
Sharedcall(g) == g.sharedcall # 0 \/ g.varcall # 0 \/ MscOn(g)

(* live: the genes express() keeps, where build() asks it and not the      *)
(* genome.                                                                 *)
EngineCv8(g, live) ==
    [tos        |-> g.tos,
     folds      |-> g.folds,
     scale      |-> g.scale,
     varcall    |-> g.varcall,
     varslot    |-> g.varslot,
     sharedcall |-> Sharedcall(g),
     doesfar    |-> Doesfar(g),
     d256       |-> g.d256 # 0 \/ MscOn(g),
     states     |-> MscOn(g),
     guard      |-> g.guard,
     dskew      |-> g.dskew,
     fsys       |-> FsysLevel(g),
     spec       |-> g.spec,
     hotcalls   |-> g.hotcalls # 0 /\ g.varcall # 0 /\ ~Tag2(g),
     tag        |-> <<Tag2(g), T2wideOn(g)>>,
     jit        |-> JitSettings(g, live),
     bfind      |-> "bfind" \in live,
     fbuf       |-> g.fbuf,
     escape     |-> g.escape,
     ops10      |-> <<Ops10In(g), Ops10Codes(g)>>,
     supers     |-> <<SupersIn(g), SuperCodes(g)>>,
     opcall     |-> OpcallIn(g)]

(* The VM registers pinned: handed on whatever the compiler, and only GCC's *)
(* id has it.                                                              *)
Pinned(g) == g.regpin

(* ccflags(): clang takes the flags it knows; GCC's alignhot is read from   *)
(* the genome, whatever express() says of it.                              *)
Ccflags(g, live) ==
    IF Clang(g)
    THEN [cc |-> "clang", opt |-> g.opt, flags |-> {k \in FlagGenes \ GccOnly : g[k] # 0}]
    ELSE [cc |-> "cc", opt |-> g.opt, flags |-> {k \in FlagGenes : g[k] # 0},
          gotodup |-> g.gotodup, alignhot |-> g.alignhot, lto |-> "lto" \in live]

(* The names the converter keeps without headers.                          *)
Headerless(g) ==
    Unless(~(RtloopOn(g) /\ ~RtloopallOn(g) /\ g.rtloop = 2), {"rtloop"})
      \cup Unless(~RtimmLean(g), {"rtimm"})
      \cup Unless(~FsysOn(g), {"fsys"})

(* The kernel dump: the kernel words overlaid, and the run-time compiler's  *)
(* overlays.                                                               *)
Dump(g) ==
    [header |-> IF Tag2(g) THEN "t" ELSE IF g.bytehdr # 0 THEN "b" ELSE "cell",
     kernel |-> {n \in {"kfast", "kinput", "klookup", "knumber"} :
                   CASE n = "kfast" -> KfastOn(g)     [] n = "kinput" -> KinputOn(g)
                     [] n = "klookup" -> KlookupOn(g) [] n = "knumber" -> KnumberOn(g)},
     fuse   |-> IF RtimmLean(g) THEN "lit"
                ELSE IF ~Overlay(g) THEN "none"
                ELSE IF g.rtimm # 0 /\ "imm" \in g.spec THEN "fuse-imm" ELSE "fuse",
     loops  |-> IF RtloopallOn(g) THEN "loopall" ELSE IF RtloopOn(g) THEN "loop" ELSE "none",
     iplus  |-> RtiplusOn(g),
     empty  |-> Tag2(g) /\ g.rtempty # 0,
     jit    |-> JitOn(g),
     fsys   |-> FsysLevel(g)]

ImageCv8(g, live) ==
    [dump     |-> Dump(g),
     bytehdr  |-> g.bytehdr,
     hotcalls |-> IF g.varcall # 0 /\ ~Tag2(g) THEN g.hotcalls ELSE 0,
     rtfuse   |-> (g.rtfuse # 0 /\ ToFuse(g)) \/ Rtimm2(g) \/ RtiplusOn(g),
     tag      |-> IF Tag2(g) THEN <<g.t2hot, T2wideOn(g), g.hotinl>> ELSE <<>>,
     opbodies |-> IF g.opbody # 0 THEN Given10(g) \cap OpBody ELSE {},
     opinline |-> "opinline" \in live,
     plain    |-> <<g.bss, g.thinhdr, g.abortif, g.lean, g.threads>>,
     factor   |-> IF "factor" \in live THEN g.factor ELSE 0,
     jit      |-> JitOn(g),
     jitimg   |-> JitOn(g) /\ "jitimg" \in live,
     headers  |-> Headerless(g)]

(* The cell engine, SOD16 and CPT16.                                       *)
Scale1(g) == IF g.scale = 0 THEN 1 ELSE g.scale
EngineOther(g) ==
    CASE g.enc = "cell"  -> [enc |-> "cell"]
      [] g.enc = "sod16" -> [enc |-> "sod16", skippad |-> g.skippad]
      [] g.enc = "cpt16" -> [enc |-> "cpt16", skippad |-> g.skippad, scale |-> Scale1(g),
                             folds |-> IF g.fold # 0 THEN g.folds ELSE <<>>]

(* The files build() makes, and the compiler's flags.                      *)
Files(g) == IF Cv8(g) THEN LET live == Live(g) IN <<EngineCv8(g, live), ImageCv8(g, live)>>
            ELSE <<EngineOther(g)>>
Built(g) == <<Files(g), Ccflags(g, Live(g)), IF Cv8(g) THEN Pinned(g) ELSE 0>>
==============================================================================

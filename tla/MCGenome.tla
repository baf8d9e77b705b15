------------------------------- MODULE MCGenome -------------------------------
(***************************************************************************)
(* Instances of Genome: the hand-made stages and founders of the evolver,   *)
(* and a few genomes random_genome can draw, each rich in genes that need   *)
(* one another.                                                             *)
(***************************************************************************)
EXTENDS Genome

HOT == <<"+", "=", "!", "@", "LSHIFT", "RSHIFT", "C@", "C!", "AND", "OR", "XOR", "LIT",
         "<", "U<", "OVER", "DROP", "DUP", "SWAP", "ROT", ">R", "R>", "R@", "NEGATE">>

(* The compiler's and the run-time's words, one for each rule that names    *)
(* one, and a plain one.                                                    *)
MCOps10Pool == Loop10 \cup ToSet(KInput) \cup ToSet(KLookup)
               \cup {"<?BRANCH", "THREAD-FIND", "SWAP+I", "I+", "2@", "CMOVE"}
MCSuperPool == {<<"DUP", ">R">>, <<"C!", "R>">>, <<">R", "C!">>}
MCFoldPool  == ToSet(HOT) \cup {"1-"}

(* Bound: of the choices of n of m places, the first n and the last n.      *)
MCPicks(m, n) == {[i \in 1..n |-> i], [i \in 1..n |-> m - n + i]}
(* Bound: of the sizes between two lengths, the larger.                     *)
MCDraws(lo, hi) == {hi}

Late0 == [k \in AllGenes |->
            CASE k \in ListGenes -> <<>> [] k = "spec" -> Specs [] k = "opt" -> "O2"
              [] OTHER -> 0]
Human(enc, h) ==
    [k \in AllGenes |->
       IF k \in DOMAIN h THEN h[k]
       ELSE CASE k = "enc" -> enc [] k = "tos" -> 1 [] k = "scale" -> 3
              [] k \in {"sharedcall", "varcall", "varslot", "fold"} -> 1
              [] k = "folds" -> HOT [] OTHER -> Late0[k]]

S1 == Human("sod16", [scale |-> 1, skippad |-> 1, fold |-> 0])
S3 == Human("cpt16", [scale |-> 3])
S4 == Human("cv8", [tos |-> 0, spec |-> {}, sharedcall |-> 0, varcall |-> 0, varslot |-> 0])
S6Genes == [scale |-> 0, bytehdr |-> 1, doesfar |-> 1, lean |-> 1]
S6 == Human("cv8", S6Genes)
Over(h) == [k \in AllGenes |-> IF k \in DOMAIN h THEN h[k] ELSE S6[k]]
S6Pairs == Over([supers |-> <<<<"DUP", ">R">>, <<"C!", "R>">>>>, rtfuse |-> 1])

(* Drawn: a JIT design in the tag; every overlay of the kernel and the      *)
(* loop compiler on, in the slots escape frees; a clang design with GCC's   *)
(* flags; a multi-state one; loop words listed past the last slot.          *)
Tagged == Over([tag2 |-> 1, jit |-> 1, jitx |-> 1, jitrp |-> 1, jitinl |-> 1, opcall |-> <<"DUP", "0=">>,
                factor |-> 1, hotcalls |-> 8])
Loops  == Over([rtloop |-> 2, rtloopall |-> 1, rtiplus |-> 1, escape |-> 1, ops10 |-> LoopSeq,
                kfast |-> 1, kinput |-> 1, klookup |-> 1, knumber |-> 1, tfind |-> 1,
                swapi |-> 1, rtimm |-> 2, opbody |-> 1, bfind |-> 1])
ClangG == Over([compiler |-> 1, regpin |-> 1, align1 |-> 1, alignhot |-> 1, lto |-> 1,
                rtimm |-> 2, ops10 |-> <<"<?BRANCH", "I">>, rtloop |-> 1])
States == Over([msc |-> 1, d256 |-> 1, tag2 |-> 1, t2wide |-> 1, tail |-> 1,
                ops10 |-> <<"2@", "THREAD-FIND", "J">>, opbody |-> 1])
Crowd  == Over([escape |-> 1, folds |-> SubSeq(HOT, 1, 20),
                ops10 |-> <<"2@", "(FIND)", "J", "I">>, rtloop |-> 1,
                supers |-> <<<<"DUP", ">R">>>>])

MCHandMade == {S1, S3, S4, S6, S6Pairs}
MCDrawn    == {Tagged, Loops, ClangG, States, Crowd}
MCMixes    == {{}, {"enc", "escape", "rtloopall", "ops10", "tag2", "jit", "jitx", "jitloop",
                    "jitinl", "jitos", "jittail", "jitk", "imm"}}

(* Bounds: every gene mutated, and four partners, at the first step; at the  *)
(* second the genes that many others wait on, and none.                     *)
MCVaried(n)   == IF n = 0 THEN AllGenes ELSE {"escape", "rtloopall", "compiler"}
MCPartners(n) == IF n = 0 THEN {S6Pairs, Tagged, Loops, ClangG} ELSE {}
==============================================================================

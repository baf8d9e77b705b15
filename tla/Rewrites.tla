------------------------------ MODULE Rewrites -------------------------------
(***************************************************************************)
(* read_ops of tools/sod16.py: the rewrites of a body, in their order.     *)
(* Each replaces neighbouring operations by one the design's engine has,   *)
(* unless something can enter between them.  A design d is what the        *)
(* options of a conversion hold:                                           *)
(*   spec    subset of loc var imm tiny small                              *)
(*   fold    what folds with EXIT (FOLDSET; primitives, and LIT)           *)
(*   pairs   SUPERS                                                        *)
(*   ops10   X_OPS10: words and fused branches with an opcode              *)
(*   opcall  OPCALL                                                        *)
(*   esc     ESC_PRIMS                                                     *)
(*   guard   --guard-abort                                                 *)
(*   hot     HOTINL: <<caller, callee, k>>                                 *)
(*   swap    --compiler-overlay                                            *)
(* and image, the dump: word -> its body.                                  *)
(***************************************************************************)
EXTENDS Ops, FiniteSets

CONSTANTS Vars,                     \* the words that are data behind DOVAR
          LOCALS_RT,                \* the locals' run-time words
          X_TINY,                   \* words that may be an opcode with spec tiny
          Expect,                   \* word -> the body its opcode stands for
          Reach                     \* a one-byte offset is -Reach .. Reach - 1

(* LOOPKIND, TESTBR: the words whose offset their opcode takes along, and   *)
(* the fused branch of each test.  The short form's name ends in 8.        *)
LoopKind == {"(LOOP)", "(+LOOP)", "(?DO)", "(LEAVE)"}
TestBr ==
    [t \in {"0=", "<", "=", "U<", "-", "<>", ">", "0<", "DUP", "OVER"} |->
        CASE t = "0="          -> "?NBRANCH"
          [] t = "<"           -> "<?BRANCH"
          [] t = "="           -> "=?BRANCH"
          [] t = "U<"          -> "U<?BRANCH"
          [] t \in {"-", "<>"} -> "<>?BRANCH"
          [] t = ">"           -> ">?BRANCH"
          [] t = "0<"          -> "0<?BRANCH"
          [] t = "DUP"         -> "DUP?BRANCH"
          [] t = "OVER"        -> "OVER?BRANCH"]

(* The opcode of a branch, in its long form; a loop word has no other. *)
LongName(op) ==
    CASE op.k = "BR"    -> "BRANCH"
      [] op.k = "QBR"   -> "?BRANCH"
      [] op.k = "TB"    -> TestBr[op.n[1]]
      [] op.k = "DNQBR" -> "DUP?NBRANCH"
      [] op.k = "EQIT"  -> "=I?BRANCH"
      [] op.k = "LP"    -> op.n[1]
ShortName(op) == LongName(op) \o "8"

(* tiny_at, ops10_at: the words whose body is, unrewritten, exactly what the *)
(* opcode of that name does.                                               *)
Exact(d, names) == {w \in names \cap DOMAIN d.image : w \in DOMAIN Expect /\ d.image[w] = Expect[w]}

(* One pass from the left: rule[j] is what the pattern that starts at j     *)
(* takes and puts in place, or NoMatch.                                    *)
NoMatch == [take |-> 0, put |-> <<>>]
Match(take, op) == [take |-> take, put |-> <<op>>]
Pass(ops, rule) ==
    LET from[j \in 1 .. Len(ops) + 1] ==
            IF j > Len(ops) THEN <<>>
            ELSE LET m == rule[j]
                 IN  IF m.take = 0 THEN <<ops[j]>> \o from[j + 1] ELSE m.put \o from[j + m.take]
    IN  from[1]

(* Nothing enters at operation j, and there is one. *)
Free(ops, cs, tg, j) == j <= Len(ops) /\ cs[j] \notin tg

Byte(x) == -128 <= x /\ x <= 127
-----------------------------------------------------------------------------
(* retag: a literal before one of the locals' words is an image offset. *)
Retag(ops) ==
    [j \in DOMAIN ops |->
        IF ops[j].k = "LIT" /\ j < Len(ops) /\ ops[j + 1].k = "C" /\ ops[j + 1].n[1] \in LOCALS_RT
        THEN [ops[j] EXCEPT !.k = "LITOFF"] ELSE ops[j]]

(* Not the code: specialise without its "nothing enters mid-pattern". *)
SpecialiseAnyway(d, ops) ==
    LET cs   == CellsAt(ops)
        tg   == {}
        tiny == Exact(d, X_TINY)
    IN  Pass(ops, [j \in DOMAIN ops |->
           LET a    == ops[j]
               free == Free(ops, cs, tg, j + 1)
               b    == IF free THEN ops[j + 1] ELSE a
           IN  CASE a.k = "LIT" /\ "imm" \in d.spec /\ Byte(a.v) /\ free /\ b \in {P("+"), P("=")} ->
                       Match(2, Op(IF b = P("+") THEN "ADDI" ELSE "EQI", <<>>, a.v))
                 [] OTHER -> NoMatch])

Specialise(d, ops) ==
    LET cs   == CellsAt(ops)
        tg   == BranchTargets(ops)
        tiny == Exact(d, X_TINY)
    IN  Pass(ops, [j \in DOMAIN ops |->
           LET a    == ops[j]
               free == Free(ops, cs, tg, j + 1)
               b    == IF free THEN ops[j + 1] ELSE a
           IN  CASE a.k = "LITOFF" /\ "loc" \in d.spec /\ free /\ b.k = "C" /\ b.n[1] \in LOCALS_RT ->
                       Match(2, Op("LOC", b.n, a.v))
                 [] a.k = "C" /\ a.n[1] \in Vars /\ "var" \in d.spec /\ free /\ b \in {P("@"), P("!")} ->
                       Match(2, Op(IF b = P("@") THEN "VF" ELSE "VS", a.n, 0))
                 [] a.k = "LIT" /\ "imm" \in d.spec /\ Byte(a.v) /\ free /\ b \in {P("+"), P("=")} ->
                       Match(2, Op(IF b = P("+") THEN "ADDI" ELSE "EQI", <<>>, a.v))
                 [] a.k = "C" /\ a.n[1] \in tiny /\ "tiny" \in d.spec ->
                       Match(1, P(a.n[1]))
                 [] OTHER -> NoMatch])

(* ops10_rewrite: a call to a word with an opcode; a loop word takes the    *)
(* offset after it along, and becomes a branch.                            *)
Ops10Rewrite(d, ops) ==
    LET at == Exact(d, d.ops10)
    IN  Pass(ops, [j \in DOMAIN ops |->
           LET a == ops[j]
           IN  CASE a.k = "C" /\ a.n[1] \in at \ LoopKind -> Match(1, P(a.n[1]))
                 [] a.k = "C" /\ a.n[1] \in at \cap LoopKind /\ j < Len(ops) /\ ops[j + 1].k = "OPD" ->
                       Match(2, Op("LP", a.n, ops[j + 1].v))
                 [] OTHER -> NoMatch])

NoFold == {"EXIT", "BRANCH", "?BRANCH", "NOOP"}

(* fold_exit *)
FoldExit(d, ops) ==
    LET cs == CellsAt(ops)
        tg == BranchTargets(ops)
    IN  IF d.fold = {} THEN ops ELSE Pass(ops, [j \in DOMAIN ops |->
           LET a == ops[j]
           IN  IF ~(Free(ops, cs, tg, j + 1) /\ ops[j + 1] = EXIT) THEN NoMatch
               ELSE CASE a.k = "P" /\ a.n[1] \in d.fold \ NoFold -> Match(2, [a EXCEPT !.k = "PX"])
                      [] a.k \in {"ADDI", "EQI"} -> Match(2, [a EXCEPT !.k = a.k \o "X"])
                      [] a.k = "LIT" /\ "LIT" \in d.fold /\ a.v \in 0 .. 65535 -> Match(2, [a EXCEPT !.k = "LITX"])
                      [] OTHER -> NoMatch])

(* fuse_pairs *)
FusePairs(d, ops) ==
    LET cs == CellsAt(ops)
        tg == BranchTargets(ops)
    IN  Pass(ops, [j \in DOMAIN ops |->
           IF /\ ops[j].k = "P" /\ Free(ops, cs, tg, j + 1) /\ ops[j + 1].k = "P"
              /\ ops[j].n \o ops[j + 1].n \in d.pairs
              /\ {ops[j].n[1], ops[j + 1].n[1]} \cap d.esc = {}
           THEN Match(2, Op("SP", ops[j].n \o ops[j + 1].n, 0)) ELSE NoMatch])

(* testbranch: the fused branch starts a cell earlier, so its offset is one *)
(* more.  What the ?BRANCH was about stays in its names.                   *)
TestBranch(d, ops) ==
    LET cs == CellsAt(ops)
        tg == BranchTargets(ops)
    IN  Pass(ops, [j \in DOMAIN ops |->
           LET a == ops[j]
           IN  IF /\ a.k \in {"P", "C"} /\ a.n[1] \in DOMAIN TestBr /\ TestBr[a.n[1]] \in d.ops10
                  /\ Free(ops, cs, tg, j + 1) /\ ops[j + 1].k = "QBR"
               THEN Match(2, Op("TB", a.n \o ops[j + 1].n, ops[j + 1].v + 1)) ELSE NoMatch])

(* eqibranch: EQI and its ?BRANCH keep their places. *)
EqiBranch(ops) ==
    LET cs == CellsAt(ops)
        tg == BranchTargets(ops)
        fused(j) == j \in 1 .. Len(ops) - 1 /\ ops[j].k = "EQI" /\ ops[j + 1].k = "QBR" /\ cs[j + 1] \notin tg
    IN  [j \in DOMAIN ops |->
            IF fused(j) THEN [ops[j] EXCEPT !.k = "EQIH"]
            ELSE IF fused(j - 1) THEN [ops[j] EXCEPT !.k = "EQIT"] ELSE ops[j]]

(* keepbranch *)
KeepBranch(d, ops) ==
    LET cs == CellsAt(ops)
        tg == BranchTargets(ops)
    IN  Pass(ops, [j \in DOMAIN ops |->
           LET a == ops[j]
               b == IF Free(ops, cs, tg, j + 1) THEN ops[j + 1] ELSE a
           IN  CASE a = P("DUP") /\ b.k = "TB" /\ b.n[1] = "0=" /\ "DUP?NBRANCH" \in d.ops10 ->
                       Match(2, [b EXCEPT !.k = "DNQBR", !.v = @ + 1])
                 [] a = P("SWAP") /\ b.k = "ADDI" /\ "SWAP+I" \in d.ops10 -> Match(2, [b EXCEPT !.k = "SADDI"])
                 [] a = P("DUP") /\ b.k = "ADDI" /\ "DUP+I" \in d.ops10 -> Match(2, [b EXCEPT !.k = "DADDI"])
                 [] a = P("DUP") /\ b.k = "LIT" /\ Byte(b.v) /\ "DUP<I" \in d.ops10
                       /\ Free(ops, cs, tg, j + 2) /\ ops[j + 2] = P("<") -> Match(3, Op("DLTI", <<>>, b.v))
                 [] OTHER -> NoMatch])

(* opcall_rewrite: not before a call whose operand follows, whose padding   *)
(* would come between.                                                     *)
OpcallRewrite(d, ops) ==
    [j \in DOMAIN ops |->
        IF /\ ops[j].k = "P" /\ ops[j].n[1] \in d.opcall \ d.esc
           /\ j < Len(ops) /\ ops[j + 1].k = "C" /\ ~BeforeOperand(ops, j + 1)
        THEN [ops[j] EXCEPT !.k = "OC"] ELSE ops[j]]
=============================================================================

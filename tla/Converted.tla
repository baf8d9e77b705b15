------------------------------ MODULE Converted ------------------------------
(***************************************************************************)
(* The word W of a converted image run, an operation of its byte stream at *)
(* a time (engine/vm-lab.c: the dispatch loop, the inline data of a call   *)
(* read at its return address).  What other words do is left out: what W   *)
(* does, and in which order, is what is compared with its cells.           *)
(***************************************************************************)
EXTENDS Converter

StrWords == {"(S\")", "(.\")", AbortQ}

(* What is written at a byte of a body: an operation; a NOOP before a call  *)
(* that has its operand aligned; what follows a call inline.               *)
Written(at, kinds) == {i \in Range(enc[at[1]].items) : i.at = at[2] /\ i.op.k \in kinds}
Codes == {"P", "C", "LIT", "LITOFF", "VF", "VS", "LOC", "ADDI", "ADDIX", "EQI", "EQIX", "EQIH", "SADDI",
          "DADDI", "DLTI", "PX", "LITX", "SP", "OC"} \cup (Branches \ {"EQIT"})
Padding(at) ==
    {i \in Range(enc[at[1]].items) :
        /\ i.op.k = "C" /\ at[2] < i.at
        /\ \A h \in Range(enc[at[1]].items) : h.at < i.at => h.next <= at[2]}

(* What it needs around it to be run. *)
Past(i) == <<pc[1], i.next>>
Aligned(byte) == (base + byte) % CELL = 0
Fits(i) ==
    CASE i.op.k = "EQIH" -> Written(Past(i), {"EQIT"}) # {}
      [] i.op.k = "OC"   -> Written(Past(i), {"C"}) # {}
      [] i.op = LIT(AllOnes) -> flag
      [] i.op.k = "C" /\ i.op.n[1] \in LoopKind -> Aligned(i.next) /\ Written(Past(i), {"OPD"}) # {}
      [] i.op.k = "C" /\ i.op.n[1] = "(POSTPONE)" -> Aligned(i.next) /\ Written(Past(i), {"XT"}) # {}
      [] i.op.k = "C" /\ i.op.n[1] \in StrWords -> Written(Past(i), {"STR"}) # {}
      [] OTHER -> TRUE

(* What it does, in order. *)
Doing(name) == <<name, 0>>
Pushing(x)  == <<"LIT", x>>
Meaning(op) ==
    CASE op.k \in {"P", "C", "OC", "LP", "TB"} -> <<Doing(op.n[1])>>
      [] op.k = "SP"    -> <<Doing(op.n[1]), Doing(op.n[2])>>
      [] op.k = "PX"    -> <<Doing(op.n[1]), Doing("EXIT")>>
      [] op.k = "VF"    -> <<Doing(op.n[1]), Doing("@")>>
      [] op.k = "VS"    -> <<Doing(op.n[1]), Doing("!")>>
      [] op.k = "LOC"   -> <<Pushing(op.v), Doing(op.n[1])>>
      [] op.k \in {"LIT", "LITOFF"} -> <<Pushing(op.v)>>
      [] op.k = "LITX"  -> <<Pushing(op.v), Doing("EXIT")>>
      [] op.k = "ADDI"  -> <<Pushing(op.v), Doing("+")>>
      [] op.k = "ADDIX" -> <<Pushing(op.v), Doing("+"), Doing("EXIT")>>
      [] op.k \in {"EQI", "EQIH"} -> <<Pushing(op.v), Doing("=")>>
      [] op.k = "EQIX"  -> <<Pushing(op.v), Doing("="), Doing("EXIT")>>
      [] op.k = "SADDI" -> <<Doing("SWAP"), Pushing(op.v), Doing("+")>>
      [] op.k = "DADDI" -> <<Doing("DUP"), Pushing(op.v), Doing("+")>>
      [] op.k = "DLTI"  -> <<Doing("DUP"), Pushing(op.v), Doing("<")>>
      [] op.k = "DNQBR" -> <<Doing("DUP"), Doing("0=")>>
      [] op.k = "BR"    -> <<Doing("BR")>>
      [] op.k \in {"QBR", "EQIT"} -> <<>>
-----------------------------------------------------------------------------
(* What running leaves alone. *)
built == <<info, src, order, fails, longs, tries, enc, base, ghost>>

(* last is what was done, if anything was. *)
Did(what) == last' = IF what = <<>> THEN last ELSE what
Go(to) == pc' = to /\ UNCHANGED st
Here(kinds) == IF st = "run" /\ pc[1] \in DOMAIN enc THEN {i \in Written(pc, kinds) : Fits(i)} ELSE {}

Noop ==
    /\ st = "run" /\ pc[1] \in DOMAIN enc /\ Padding(pc) # {}
    /\ Go(<<pc[1], pc[2] + (IF d.tok THEN 2 ELSE 1)>>)
    /\ UNCHANGED <<ret, flag, last, built>>

Straight ==
    /\ \E i \in Here(Codes \ (Branches \cup {"C", "EQIH", "PX", "LITX", "ADDIX", "EQIX"})) :
          /\ i.op \notin {EXIT, LIT(AllOnes)}
          /\ Did(Meaning(i.op)) /\ Go(Past(i))
    /\ flag' = FALSE
    /\ UNCHANGED <<ret, built>>

(* A guard's flag, for the call it guards. *)
GuardFlag ==
    /\ \E i \in Here({"LIT"}) : i.op = LIT(AllOnes) /\ Go(Past(i))
    /\ UNCHANGED <<ret, flag, last, built>>

(* EXIT, alone or folded: from a factored run to what follows its call. *)
Exit ==
    /\ \E i \in Here({"P", "PX", "LITX", "ADDIX", "EQIX"}) :
          /\ i.op.k = "P" => i.op = EXIT
          /\ IF ret = <<>> THEN st' = "ended" /\ Did(Meaning(i.op)) /\ UNCHANGED pc
             ELSE Go(ret) /\ Did(SubSeq(Meaning(i.op), 1, Len(Meaning(i.op)) - 1))
    /\ ret' = <<>>
    /\ flag' = FALSE
    /\ UNCHANGED built

Branch ==
    /\ \E i \in Here({"BR"}) : Did(Meaning(i.op)) /\ Go(<<pc[1], i.to>>)
    /\ flag' = FALSE
    /\ UNCHANGED <<ret, built>>

(* A ?BRANCH, alone or fused with a test; a loop word with its offset.  The *)
(* ?BRANCH of a guard is none of the word's own: taken, it is the ABORT"    *)
(* that did not abort.                                                     *)
Guards(op) == AbortQ \in Range(op.n)
Own(op) == IF op.k = "LP" THEN <<>> ELSE <<Doing("QBR")>>
Test ==
    \E i \in Here(Branches \ {"BR", "EQIT"}) \cup Here({"EQIH"}) :
    \E b \in IF i.op.k = "EQIH" THEN Written(Past(i), {"EQIT"}) ELSE {i} :
       /\ \/ /\ Go(<<pc[1], b.to>>)
             /\ Did(Meaning(i.op) \o (IF Guards(b.op) THEN <<Doing(AbortQ)>> ELSE Own(b.op)))
             /\ flag' = FALSE
          \/ /\ Go(Past(b))
             /\ Did(Meaning(i.op) \o (IF Guards(b.op) THEN <<>> ELSE Own(b.op)))
             /\ flag' = Guards(b.op)
       /\ UNCHANGED <<ret, built>>

Call ==
    /\ \E i \in Here({"C"}) :
          /\ i.op.n[1] \notin LoopKind \cup StrWords \cup {"(POSTPONE)"}
          /\ IF i.op.n[1] = F THEN Go(<<F, 0>>) /\ ret' = Past(i) /\ UNCHANGED last
             ELSE Go(Past(i)) /\ Did(Meaning(i.op)) /\ UNCHANGED ret
    /\ flag' = FALSE
    /\ UNCHANGED built

(* A string is passed over to the next cell boundary; ABORT" may end it all. *)
CallString ==
    /\ \E i \in Here({"C"}) :
       \E o \in Written(Past(i), {"STR"}) :
          /\ i.op.n[1] \in StrWords
          /\ \/ /\ ~(i.op.n[1] = AbortQ /\ flag)
                /\ Go(<<pc[1], UpToCell(base + o.at + o.op.v) - base>>)
             \/ i.op.n[1] = AbortQ /\ st' = "ended" /\ UNCHANGED pc
          /\ Did(<<<<i.op.n[1], IF i.op.n[1] = AbortQ THEN 0 ELSE o.op.v>>>>)
    /\ flag' = FALSE
    /\ UNCHANGED <<ret, built>>

CallLoop ==
    /\ \E i \in Here({"C"}) :
       \E o \in Written(Past(i), {"OPD"}) :
          /\ i.op.n[1] \in LoopKind
          /\ Go(<<pc[1], o.to>>) \/ Go(<<pc[1], o.next>>)
          /\ Did(Meaning(i.op))
    /\ flag' = FALSE
    /\ UNCHANGED <<ret, built>>

(* The token compiled is the word the cell led to, from where the cell was  *)
(* in the word the body was read from.                                     *)
CallPostpone ==
    /\ \E i \in Here({"C"}) :
       \E o \in Written(Past(i), {"XT"}) :
          /\ i.op.n[1] = "(POSTPONE)"
          /\ Go(<<pc[1], o.next>>)
          /\ Did(<<<<i.op.n[1], Address[src[pc[1]]] + o.cell + o.op.v>>>>)
    /\ flag' = FALSE
    /\ UNCHANGED <<ret, built>>

Over == st \in {"ended", "died"} /\ UNCHANGED vars

Next ==
    \/ Convert
    \/ Noop \/ Straight \/ GuardFlag \/ Exit \/ Branch \/ Test
    \/ Call \/ CallString \/ CallLoop \/ CallPostpone
    \/ Over
Spec == Init /\ [][Next]_vars
-----------------------------------------------------------------------------
(* No rewrite leaves a branch without an operation to lead to: classify     *)
(* would take the body for data, silently, and copy its cells (layout.py    *)
(* 241).                                                                   *)
NoCodeLeftAsData ==
    st = "swap" => \A w \in DOMAIN info : w \in Vars \/ info[w].code

(* What the engine comes to was written for it: an operation, its operand   *)
(* on a cell boundary, its call right after an X;CALL (sod16.py 1146, 870). *)
NeverAstray == st = "run" => pc[1] \in DOMAIN enc /\ (Here(Codes) # {} \/ Padding(pc) # {})

(* The bytes do what the cells do: every branch where it led, every         *)
(* operation once and in order, whatever was inlined, fused, shortened,     *)
(* padded or factored.                                                     *)
Cell(at) ==
    LET there == Written(at, Codes) \cup Padding(at)
    IN  IF there = {} THEN -1 ELSE (CHOOSE i \in there : TRUE).cell
Site == (CHOOSE i \in Range(enc["W"].items) : i.op = C(F) /\ i.next = ret[2]).cell
Pc ==
    CASE st = "ended" -> 0
      [] st = "run" -> LET c == Cell(pc)
                           at == IF pc[1] = "W" THEN c ELSE Site + c
                       IN  IF c \in Nat /\ at \in DOMAIN atom THEN atom[at] ELSE -1
      [] OTHER -> 1
AsCells == INSTANCE CellRun WITH pc <- Pc
DoesWhatItsCellsDo == AsCells!Spec
=============================================================================

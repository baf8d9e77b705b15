------------------------------ MODULE MCConvert ------------------------------
(* Converter on bodies put together from the patterns its rewrites look     *)
(* for, with a branch from the front to any operation of them; or Image on  *)
(* the dictionaries of MCImage.                                            *)
EXTENDS Converted, MCImage

MCVars == {"V"}
MCLocals == {"L!"}
MCTiny == {"0="}
MCOverlay == [w \in {"W"} |-> "W8"]
MCAddress == [w \in {"W", "W8"} |-> IF w = "W" THEN 1000 ELSE 2000]

Zero == <<LIT(0), P("="), EXIT>>
Loop == <<P("R>"), C("1+"), P(">R"), EXIT>>
MCExpect == [w \in {"0=", "(LOOP)"} |-> IF w = "0=" THEN Zero ELSE Loop]

(* The patterns.  A branch or a loop leads on to the next pattern, or to    *)
(* the front of this one.                                                  *)
Str(n) == Op("STR", <<>>, n)
QBR(v) == Op("QBR", <<>>, v)
Patterns ==
    { <<LIT(1), P("+")>>,
      <<P("DUP"), LIT(1), P("+")>>,
      <<P("SWAP"), LIT(2), P("+")>>,
      <<P("DUP"), LIT(3), P("<"), QBR(1)>>,
      <<P("DUP"), C("0="), QBR(1)>>,
      <<LIT(3), P("="), QBR(1)>>,
      <<LIT(3), P("=")>>,
      <<Op("BR", <<>>, 2), P("NEGATE")>>,
      <<P("DUP"), P("@")>>,
      <<C("V"), P("@")>>,
      <<LIT(40), C("L!")>>,
      <<P("OVER"), C("X")>>,
      <<P("DUP"), C("(S\")"), Str(6)>>,
      <<C("(ABORT\")"), Str(3)>>,
      <<P("OVER"), P("OVER"), C("(LOOP)"), Op("OPD", <<>>, -3)>>,
      <<P("SWAP"), C("(POSTPONE)"), Op("XT", <<>>, 7)>>,
      <<C("I1")>>,
      <<LIT(300), P("BYE")>> }

(* From the front to operation t of the rest; not into what is inline. *)
Body(a, b, t) ==
    LET rest == a \o b \o <<EXIT>>
        cs   == CellsAt(rest)
    IN  <<QBR(1 + cs[t])>> \o rest
Leading == {x \in Patterns \X Patterns \X (1 .. 8) :
             /\ x[3] <= Len(x[1]) + Len(x[2]) + 1
             /\ (x[1] \o x[2] \o <<EXIT>>)[x[3]].k \notin Operands}
BodiesOf(leads) == {Body(x[1], x[2], x[3]) : x \in leads}
(* A dump: W, or W8 which W's body is swapped for, and what they call. *)
Dump(swap, body) ==
    [w \in {"W", "X", "I1", "V", "0=", "(LOOP)"} \cup (IF swap THEN {"W8"} ELSE {}) |->
        CASE w = "W"  -> IF swap THEN <<P("DROP"), LIT(1), EXIT>> ELSE body
          [] w = "W8" -> body
          [] w = "X"  -> <<P("NEGATE"), P("+"), EXIT>>
          [] w = "I1" -> <<LIT(1), P("+"), P("DUP"), EXIT>>
          [] w = "V"  -> <<>>
          [] w = "0=" -> Zero
          [] w = "(LOOP)" -> Loop]

Fused == {"BRANCH8", "?BRANCH8", "?NBRANCH", "?NBRANCH8", "<?BRANCH", "DUP?NBRANCH", "DUP?NBRANCH8",
          "=I?BRANCH", "=I?BRANCH8", "SWAP+I", "DUP+I", "DUP<I", "(LOOP)"}
AllSpec == {"loc", "var", "imm", "tiny", "small"}

(* The byte encoding with everything it has; the same with no spec; the     *)
(* two-bit tag, its rarest codes of two bytes; tokens.                     *)
Plain8(swap, body) ==
    [image |-> Dump(swap, body), spec |-> AllSpec, fold |-> {"+", "DUP", "@", "LIT"},
     pairs |-> {<<"DUP", "@">>, <<"OVER", "OVER">>, <<"+", "DUP">>}, ops10 |-> Fused, opcall |-> {},
     esc |-> {"BYE"}, guard |-> TRUE, hot |-> {<<"W", "I1", 1>>, <<"W", "X", 1>>}, swap |-> swap, lean |-> swap,
     tag |-> FALSE, two |-> {}, one |-> {"X", "(POSTPONE)", "(S\")"}, tok |-> FALSE, factor |-> FALSE]
Bare8(body) ==
    [image |-> Dump(FALSE, body), spec |-> {}, fold |-> {}, pairs |-> {}, ops10 |-> {"?BRANCH8"}, opcall |-> {},
     esc |-> {"BYE"}, guard |-> FALSE, hot |-> {}, swap |-> FALSE, lean |-> FALSE,
     tag |-> FALSE, two |-> {}, one |-> {}, tok |-> FALSE, factor |-> FALSE]
Tag2(swap, lean, body) ==
    [Plain8(swap, body) EXCEPT !.spec = {"imm", "tiny", "var"}, !.opcall = {"OVER", "DUP", "SWAP", "+"}, !.tag = TRUE,
        !.two = {"?BRANCH8", "?NBRANCH8", "LIT8", "BYE", "DUP @"}, !.one = {},
        !.factor = TRUE, !.guard = FALSE, !.lean = lean]
Tokens(swap, body) ==
    [Bare8(body) EXCEPT !.image = Dump(swap, body), !.swap = swap, !.fold = {"+", "DUP", "@", "LIT"},
        !.ops10 = {}, !.esc = {}, !.tok = TRUE]

MCJobs ==
    {CASE g = 1 -> Plain8(TRUE, b)
       [] g = 2 -> Bare8(b)
       [] g = 3 -> Tag2(FALSE, FALSE, b)
       [] g = 4 -> [Tag2(TRUE, FALSE, b) EXCEPT !.guard = TRUE]
       [] g = 5 -> Tokens(TRUE, b) : g \in 1 .. 5, b \in BodiesOf(Leading)}
-----------------------------------------------------------------------------
(* A body converted, or a dictionary laid out: layout.py does the one after *)
(* the other, and what is asked of each is asked of it alone.              *)
NoLayout == [dump |-> <<>>, g |-> <<>>]
OneJob == Bare8(Body(<<LIT(3), P("=")>>, <<LIT(1), P("+")>>, 1))
MCInit ==
    /\ Init
    /\ \/ /\ lay = NoLayout /\ step = "none" /\ text = <<>> /\ origin = <<>> /\ swapped = <<>> /\ dropped = <<>> /\ moved = {}
          /\ words = <<>> /\ bss = <<>> /\ place = <<>> /\ off = 0 /\ image = <<>>
       \/ d = OneJob /\ DictInit
Ended == step \in {"done", "refused", "died"}
MCNext ==
    \/ lay = NoLayout /\ Next /\ UNCHANGED dictVars
    \/ lay # NoLayout /\ DictNext /\ UNCHANGED vars
    \/ Ended /\ lay # NoLayout /\ UNCHANGED <<vars, dictVars>>
MCSpec == MCInit /\ [][MCNext]_<<vars, dictVars>>
=============================================================================

------------------------------- MODULE MCImage -------------------------------
(* Image on a dictionary with one of everything that holds an address: a    *)
(* DOES> word and a BUFFER: list, a builtin table, compiler words and their *)
(* X8s, one deferring to the one it replaces, words defined twice, the dump *)
(* tool at the end.                                                        *)
EXTENDS Image

Word(n) == [name |-> n, kind |-> "code", size |-> 3, refs |-> <<>>, align |-> FALSE, cells |-> <<>>,
             behind |-> 0, hole |-> 0, tail |-> <<>>, op |-> FALSE]
Colon(n, refs) == [Word(n) EXCEPT !.refs = refs, !.size = 1 + 2 * Len(refs)]
Postpones(n, w) == [Word(n) EXCEPT !.refs = <<Led("XT", w)>>, !.align = TRUE]
Prim(n) == [Word(n) EXCEPT !.refs = Opcode.refs, !.size = Opcode.size]
Num == Led("num", 0)
Var(n, cells) == [Word(n) EXCEPT !.kind = "data", !.cells = cells]
Behind(n, w, cells) == [Var(n, cells) EXCEPT !.behind = w]
To(w) == Led("C", w)

(* defer: how the second IF8 reaches the first.  older: how the second FOO  *)
(* does.  held: what else holds the first, or the tool.  again: 2@ is       *)
(* defined again.  shell: with a builtin table.                            *)
MCDump(defer, older, held, again, shell) ==
    << Prim("DUP"),                                                      \* 1
       Word("(PRIMITIVES-END)"),
       Var("FORTH-WORDLIST", <<Num, Num, Num>>),
       Var("START", <<Num>>),
       Var("DP", <<Num>>),                                               \* 5
       Var("BOOT", <<Led("body", 0)>>),
       Var("TIB", <<Num, Num, Num>>),
       Var("POCKET", <<Num>>),
       [Word("2@") EXCEPT !.op = ~again],
       [Word("(PARSE)") EXCEPT !.op = TRUE],                            \* 10
       [Colon("DEFER", <<To(1)>>) EXCEPT !.hole = 2],
       [Colon("BUFFER:", <<To(1)>>) EXCEPT !.hole = 1],
       Var("BUF-LIST", <<Led("field", 15)>>),
       Behind("B1", 12, <<Num, Num, Led("field", 0)>>),
       Behind("B2", 12, <<Num, Num, Led("field", 14)>>),                 \* 15
       Colon("IF", <<To(1)>>),
       Colon("HELP", <<Led("VAR", 7)>>),
       Colon("IF8", <<To(17), To(16)>>),
       CASE defer = "C"  -> Colon("IF8", <<To(18), To(17)>>)
         [] defer = "XT" -> Postpones("IF8", 18)
         [] OTHER        -> Colon("IF8", <<To(17)>>),
       Postpones("WHILE", 16),                                           \* 20
       Colon("WHILE8", <<To(18), To(19)>>),
       Colon("FOO", <<Led("VAR", 5), Led("LIT", 14)>>),
       IF older = "C" THEN Colon("FOO", <<To(22), To(1)>>)
       ELSE IF older = "XT" THEN Postpones("FOO", 22) ELSE Colon("FOO", <<To(20)>>),
       [Colon("FIND", <<To(23), Led("LIT", 17)>>) EXCEPT
           !.tail = IF shell THEN <<[link |-> NoEntry, xt |-> 16], [link |-> <<24, 1>>, xt |-> IF held = "xt" THEN 22 ELSE 23]>>
                    ELSE <<>>],
       Var("BUILTIN-LIST", <<Led("entry", IF shell THEN <<24, 2>> ELSE NoEntry)>>),    \* 25
       Behind("GO", 11, <<Led("body", IF held = "defer" THEN 22 ELSE 23)>>),
       [Word("2@") EXCEPT !.op = again, !.name = IF again THEN @ ELSE "2!"],
       Colon("MAIN", <<To(24), To(9), To(21)>>),
       Colon("DUMP", <<To(28)>>),
       Var("NFA", <<Num>>),                                             \* 30
       Colon("DUMP", IF held = "tool" THEN <<To(30), To(29)>> ELSE <<Led("VAR", 30)>>) >>
    \o (IF held = "user" THEN <<Colon("USER", <<To(31)>>)>> ELSE <<>>)

(* At scale 8 a cell of 4 puts DP's field out of a slot's reach, POCKET's   *)
(* within it.                                                              *)
MCScaled ==
    << Var("FORTH-WORDLIST", <<Num, Num, Num>>),
       Var("DP", <<Num>>),
       Var("B1", <<Num>>),
       Var("TIB", <<Num, Num, Num>>),
       Var("POCKET", <<Num>>),
       Colon("HELP", <<Led("VAR", 2)>>),
       Colon("FOO", <<Led("VAR", 5), Led("LIT", 2)>>) >>

MCNames == {"DUP", "(PRIMITIVES-END)", "FORTH-WORDLIST", "START", "DP", "BOOT", "TIB", "POCKET", "2@", "2!", "(PARSE)", "DEFER",
            "BUFFER:", "BUF-LIST", "B1", "B2", "IF", "HELP", "IF8", "WHILE", "WHILE8", "FOO", "FIND", "BUILTIN-LIST",
            "GO", "MAIN", "DUMP", "NFA", "USER"}
MCNameLen == [n \in MCNames |-> Len(n)]
MCSuffixed == [n \in {"IF8", "WHILE8"} |-> IF n = "IF8" THEN "IF" ELSE "WHILE"]
MCNear == [tag \in BOOLEAN |-> IF tag THEN <<12, 40, 120>> ELSE <<16, 60, 200>>]
MCSlotReach == [varslot \in BOOLEAN |-> IF varslot THEN 400 ELSE 200]
MCOuter == {"(PARSE)", "FIND"}

(* The options of designs: the classic headers with calls of scales a      *)
(* 4-byte cell allows, byte headers, byte headers under the tag.  Where the *)
(* JIT's headers go on, (PARSE) is not among the opcodes put inline: both  *)
(* at once is a divergence the README tells of.                            *)
Options == [bytehdr |-> FALSE, tag |-> FALSE, scale |-> 1, lean |-> FALSE, swap |-> TRUE, bss |-> FALSE, opinline |-> FALSE,
            ops |-> {"2@", "2!", "(PARSE)"}, threads |-> 0, jitimg |-> FALSE, varslot |-> TRUE, headerless |-> {}]
MCDesigns ==
    { [Options EXCEPT !.swap = FALSE, !.varslot = FALSE],
      [Options EXCEPT !.scale = 4, !.opinline = TRUE],
      [Options EXCEPT !.scale = 4, !.lean = TRUE, !.threads = 4, !.headerless = {"HELP", "FOO"}],
      [Options EXCEPT !.bytehdr = TRUE, !.opinline = TRUE, !.bss = TRUE, !.threads = 1, !.varslot = FALSE],
      [Options EXCEPT !.bytehdr = TRUE, !.lean = TRUE, !.opinline = TRUE, !.bss = TRUE, !.threads = 4, !.headerless = {"HELP", "FOO"}],
      [Options EXCEPT !.bytehdr = TRUE, !.tag = TRUE, !.lean = TRUE, !.jitimg = TRUE, !.threads = 1, !.bss = TRUE],
      [Options EXCEPT !.bytehdr = TRUE, !.tag = TRUE, !.jitimg = TRUE, !.opinline = TRUE, !.ops = {"2@", "2!"}, !.headerless = {"HELP"}] }
Shapes == {<<defer, older, "none", FALSE>> : defer \in {"C", "XT", "none"}, older \in {"C", "XT", "none"}}
    \cup {<<"XT", older, held, again>> : older \in {"C", "none"}, held \in {"defer", "tool", "user"}, again \in BOOLEAN}
MCLayouts ==
    {[dump |-> MCDump(x[1], x[2], x[3], x[4], FALSE), g |-> g] : x \in Shapes, g \in MCDesigns}
    \cup
    {[dump |-> MCScaled, g |-> [Options EXCEPT !.scale = s]] : s \in {4, 8}}
    \cup
    {[dump |-> MCDump("C", older, held, FALSE, TRUE), g |-> g] :
        older \in {"C", "none"}, held \in {"defer", "xt", "none"}, g \in {d \in MCDesigns : ~d.bytehdr}}
=============================================================================

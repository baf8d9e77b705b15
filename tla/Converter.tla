------------------------------ MODULE Converter ------------------------------
(***************************************************************************)
(* tools/layout.py over tools/sod16.py: a dump's bodies read, the          *)
(* compiler's swapped in, the copies dropped, repeated runs factored out,  *)
(* everything encoded; and converted again, as lab/evolve/evolve.py does,  *)
(* with the short branches that did not reach kept long.                   *)
(***************************************************************************)
EXTENDS ByteCode

CONSTANTS Jobs,                     \* the designs, each with the dump it converts
          Address,                  \* word -> where its body is in the dump, in cells
          Tries,                    \* conversions evolve.py attempts
          F                         \* the name of a factored run's body

ASSUME ConverterAssumption == Tries \in Nat \ {0} /\ Reach \in Nat \ {0}

VARIABLES d,                        \* the job
          st,                       \* what comes next
          info,                     \* word -> its operations and whether they are code (kind)
          src,                      \* word -> the word its body was read from (SRC_OF)
          order,                    \* the words that go into the image
          fails,                    \* SHORT_FAILS of this conversion
          longs,                    \* long-branches.json
          tries,                    \* conversions begun
          enc,                      \* word -> its encoding (tok)
          base,                     \* where W's body begins, within a cell
          pc, ret,                  \* the engine's <<body, byte>>, and where a factored run returns
          flag,                     \* the flag above is true: the guard has just found it so
          last,                     \* what the last operation did
          prog, atom                \* W as the cell engine runs it, and which of its
                                    \* operations a cell of the rewritten W belongs to

conv == <<st, info, src, order, fails, longs, tries, enc, base>>
engine == <<pc, ret, flag, last>>
ghost == <<d, prog, atom>>
vars == <<conv, engine, ghost>>

-----------------------------------------------------------------------------
(* W as its cells say.  A call that is inlined is its callee's operations.  *)
Main(job) == Runs(job, "W")
Inlined(job) ==
    LET raw   == job.image[Main(job)]
        sites == HotSites(job, Main(job), raw)
    IN  [j \in DOMAIN raw |->
            IF j \in sites
            THEN LET b == job.image[Runs(job, raw[j].n[1])] IN SubSeq(b, 1, Len(b) - 1)
            ELSE <<raw[j]>>]

Does(op, value) ==
    <<IF op.k \in {"P", "C", "OC", "LP"} THEN op.n[1] ELSE IF op.k \in {"BR", "QBR"} THEN op.k ELSE "LIT", value>>

CellProgram(job) ==
    LET raw   == Retag(job.image[Main(job)])
        parts == Inlined(job)
        cs    == CellsAt(raw)
        first[j \in 1 .. Len(raw) + 1] == IF j = 1 THEN 1 ELSE first[j - 1] + Len(parts[j - 1])
        at(c) == first[CHOOSE j \in DOMAIN cs : cs[j] = c]
        upto[j \in 0 .. Len(raw)] == IF j = 0 THEN <<>> ELSE upto[j - 1] \o [i \in DOMAIN parts[j] |-> <<j, i>>]
        all   == upto[Len(raw)]
        one(ji) ==
            LET j   == ji[1]
                op  == parts[j][ji[2]]
                i   == first[j] + ji[2] - 1
                arg == IF j < Len(raw) /\ op.k = "C" /\ Len(parts[j]) = 1 THEN raw[j + 1] ELSE op
            IN  CASE op = EXIT -> [does |-> Does(op, 0), next |-> 0, to |-> 0, ends |-> TRUE]
                  [] op.k = "BR" -> [does |-> Does(op, 0), next |-> 0, to |-> at(Target(op, cs[j])), ends |-> FALSE]
                  [] op.k = "QBR" -> [does |-> Does(op, 0), next |-> i + 1, to |-> at(Target(op, cs[j])), ends |-> FALSE]
                  [] op.k = "C" /\ arg.k = "STR" ->
                        [does |-> Does(op, IF op.n[1] = AbortQ THEN 0 ELSE arg.v), next |-> i + 2, to |-> 0,
                         ends |-> op.n[1] = AbortQ]
                  [] op.k = "C" /\ arg.k = "OPD" ->
                        [does |-> Does(op, 0), next |-> i + 2, to |-> at(Target(arg, cs[j + 1])), ends |-> FALSE]
                  [] op.k = "C" /\ arg.k = "XT" ->
                        [does |-> Does(op, Address[Main(job)] + cs[j + 1] + arg.v), next |-> i + 2, to |-> 0, ends |-> FALSE]
                  [] OTHER -> [does |-> Does(op, op.v), next |-> i + 1, to |-> 0, ends |-> FALSE]
    IN  [i \in DOMAIN all |-> one(all[i])]

(* The operation of CellProgram that a cell of the body put together (Put)  *)
(* belongs to: a guard belongs to its call.                                *)
AtomAt(job) ==
    LET new == Put(job, Main(job))
        cs  == CellsAt(new)
        added(i) == \/ new[i].k = "QBR" /\ new[i].n # <<>>
                    \/ new[i] = LIT(AllOnes)
        before(i) == Cardinality({k \in 1 .. i - 1 : ~added(k)})
    IN  [c \in {cs[i] : i \in DOMAIN new} |-> before(CHOOSE i \in DOMAIN new : cs[i] = c) + 1]
-----------------------------------------------------------------------------
Loaded == {[job |-> j, prog |-> CellProgram(j), atom |-> AtomAt(j)] : j \in Jobs}

Init ==
    /\ \E l \in Loaded : d = l.job /\ prog = l.prog /\ atom = l.atom
    /\ st = "read" /\ info = <<>> /\ src = <<>> /\ order = {} /\ enc = <<>>
    /\ fails = {} /\ longs = {} /\ tries = 1 /\ base = 0
    /\ pc = <<"W", 0>> /\ ret = <<>> /\ flag = FALSE /\ last = <<>>

(* As the bodies are read: which codes are rare and which calls common is  *)
(* not known yet.                                                          *)
Unranked(job) == [job EXCEPT !.tag = FALSE, !.one = {}]

(* classify, for every word: what does not encode is taken for data.  The   *)
(* branches that do not reach without the tag are recorded here already.   *)
Classified(w, ops) ==
    LET e == Encode(Unranked(d), ops)
    IN  [code |-> w \notin Vars /\ e.code, ops |-> ops, fails |-> {<<w, c>> : c \in e.fails}]

Recorded(words) ==
    /\ info' = [w \in DOMAIN words |-> [code |-> words[w].code, ops |-> words[w].ops]]
    /\ fails' = UNION {words[w].fails : w \in DOMAIN words}

Read ==
    /\ st = "read"
    /\ Recorded([w \in DOMAIN d.image |->
                    Classified(w, IF w \in Vars THEN <<>> ELSE ReadOps(Unranked(d), w, longs))])
    /\ order' = DOMAIN d.image
    /\ src' = [w \in DOMAIN d.image |-> w]
    /\ enc' = <<>>
    /\ st' = "swap"
    /\ UNCHANGED <<longs, tries, base, engine, ghost>>

(* The body of each overlay word becomes that of the word it is for; with   *)
(* --drop-x8 the calls go there too, and the copy leaves the image.        *)
Swap ==
    /\ st = "swap"
    /\ LET from == IF d.swap THEN {x \in DOMAIN Overlay : Overlay[x] \in order /\ x \in order /\ info[Overlay[x]].code} ELSE {}
           body == [w \in order |-> IF w \in from THEN info[Overlay[w]] ELSE info[w]]
           home(w) == IF \E x \in from : Overlay[x] = w THEN CHOOSE x \in from : Overlay[x] = w ELSE w
           called(ops) == [j \in DOMAIN ops |->
                              IF ops[j].k = "C" THEN [ops[j] EXCEPT !.n = <<home(ops[j].n[1])>>] ELSE ops[j]]
       IN  /\ src' = [w \in order |-> IF w \in from THEN Overlay[w] ELSE w]
           /\ IF d.lean
              THEN /\ info' = [w \in order |-> [body[w] EXCEPT !.ops = called(@)]]
                   /\ order' = order \ {Overlay[x] : x \in from}
              ELSE info' = body /\ order' = order
    /\ st' = IF d.factor /\ d.tag THEN "factor" ELSE "encode"
    /\ UNCHANGED <<fails, longs, tries, enc, base, engine, ghost>>
-----------------------------------------------------------------------------
(* _safe: an operation that does not depend on where it is. *)
Safe(ops, j) ==
    /\ ops[j].k \in {"P", "C", "LIT", "VF", "VS", "LOC", "SP", "ADDI", "EQI", "SADDI", "DADDI", "DLTI"}
    /\ ops[j].k \in {"P", "SP"} => Range(ops[j].n) \cap ({"EXIT"} \cup RA_WORDS) = {}
    /\ ops[j].k = "C" => /\ ops[j].n[1] \notin LOCALS_RT /\ ~BeforeOperand(ops, j)
                         /\ RaSafe(d, ops[j].n[1])
    /\ ops[j].k = "LIT" /\ j < Len(ops) /\ ops[j + 1].k = "C" => ops[j + 1].n[1] \notin LOCALS_RT
    /\ j > 1 => ops[j - 1].k # "OC"

(* A run from i, of n operations: nothing enters after its first, its       *)
(* return stack is its own, and it is longer than the call for it.         *)
RunAt(ops, i, n) ==
    LET cs  == CellsAt(ops)
        run == SubSeq(ops, i, i + n - 1)
        bytes[j \in 0 .. n] == IF j = 0 THEN 0 ELSE bytes[j - 1] + OpBytes(d, run, j, 0)
    IN  /\ \A j \in i .. i + n - 1 : Safe(ops, j)
        /\ \A j \in i + 1 .. i + n - 1 : cs[j] \notin BranchTargets(ops)
        /\ RsWalk(Prims(run), TRUE)
        /\ bytes[n] > 2

(* Its uses in W, leftmost first. *)
RECURSIVE Uses(_, _, _)
Uses(ops, run, i) ==
    IF i + Len(run) - 1 > Len(ops) THEN {}
    ELSE IF SubSeq(ops, i, i + Len(run) - 1) = run /\ RunAt(ops, i, Len(run))
    THEN {i} \cup Uses(ops, run, i + Len(run)) ELSE Uses(ops, run, i + 1)

(* Each use a call of the body, and a gap for the rest of its cells. *)
Factored(ops, run, uses) ==
    LET cells == CellsAt(run)[Len(run) + 1]
    IN  Pass(ops, [j \in DOMAIN ops |->
            IF j \in uses THEN [take |-> Len(run), put |-> <<C(F), Op("GAP", <<>>, cells - 1)>>] ELSE NoMatch])

(* The gene factor: which runs pay is a price; any may be the one. *)
Factor ==
    /\ st = "factor"
    /\ LET ops == info["W"].ops
       IN  \/ /\ \E i \in DOMAIN ops, n \in 2 .. 4 :
                    /\ i + n - 1 <= Len(ops) /\ RunAt(ops, i, n)
                    /\ LET run  == SubSeq(ops, i, i + n - 1)
                           body == Append(run, EXIT)
                       IN  info' = [w \in order \cup {F} |->
                              CASE w = "W" -> [info["W"] EXCEPT !.ops = Factored(ops, run, Uses(ops, run, 1))]
                                [] w = F   -> [code |-> TRUE, ops |-> FoldExit(d, body)]
                                [] OTHER   -> info[w]]
              /\ order' = order \cup {F}
           \/ UNCHANGED <<info, order>>
    /\ st' = "encode"
    /\ UNCHANGED <<src, fails, longs, tries, enc, base, engine, ghost>>
-----------------------------------------------------------------------------
(* Every body encoded; a branch that does not reach is one more failure. *)
EncodeAll ==
    /\ st = "encode"
    /\ LET e == [w \in {x \in order : info[x].code} |-> Encode(d, info[w].ops)]
       IN  /\ enc' = e
           /\ fails' = fails \cup UNION {{<<w, c>> : c \in e[w].fails} : w \in DOMAIN e}
    /\ st' = IF fails' = {} THEN "built" ELSE "exit 4"
    /\ UNCHANGED <<info, src, order, longs, tries, base, engine, ghost>>

(* Exit 4: the failures join those kept long, and it is converted again. *)
Again ==
    /\ st = "exit 4"
    /\ longs' = longs \cup fails
    /\ fails' = {}
    /\ IF tries < Tries THEN tries' = tries + 1 /\ st' = "read" ELSE st' = "died" /\ UNCHANGED tries
    /\ UNCHANGED <<info, src, order, enc, base, engine, ghost>>

(* body_needs_align: in bytes, only a body with cells in it begins on a cell. *)
NeedsAlign(ops) == \E j \in DOMAIN ops : ops[j].k \in Operands

Place ==
    /\ st = "built"
    /\ base' \in IF d.tok \/ ~info["W"].code \/ NeedsAlign(info["W"].ops) THEN {0} ELSE 0 .. CELL - 1
    /\ st' = "run"
    /\ UNCHANGED <<info, src, order, fails, longs, tries, enc, engine, ghost>>
-----------------------------------------------------------------------------
Convert == Read \/ Swap \/ Factor \/ EncodeAll \/ Again \/ Place
=============================================================================

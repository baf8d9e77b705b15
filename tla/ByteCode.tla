------------------------------ MODULE ByteCode -------------------------------
(***************************************************************************)
(* The encodings of tools/sod16.py: sizes, which branches get one byte,    *)
(* where each operation lands, and what is written there.  Without the tag *)
(* every code is a byte and a call two or three, or one (d.one, the words  *)
(* called most); with the two-bit tag (d.tag) some codes are two (d.two,   *)
(* the design's rarest) and a call before its operand four; as tokens      *)
(* (d.tok) everything is two.  A call's value is not known before          *)
(* placement: near targets only.  Bodies with cells start on a cell.       *)
(***************************************************************************)
EXTENDS Splices, Functions

(* The escape, and op_bytes of a literal by its size. *)
Small(d, op) == op.k = "LIT" /\ op.v \in {0, 1, -1} /\ "small" \in d.spec
LitBytes(x) ==
    CASE x \in 0 .. 255 -> 2
      [] x \in 256 .. 65535 -> 3
      [] x = AllOnes -> 1 + CELL
      [] OTHER -> 5

(* A call; far: before its operand. *)
CallBytes(d, op, far) ==
    CASE d.tok -> 2
      [] d.tag -> IF far THEN 4 ELSE 2
      [] op.n[1] \in d.one -> 1
      [] OTHER -> IF far THEN 3 ELSE 2

(* The tokens: an operation, and after it what it takes, two bytes each. *)
TokenBytes(op, t) ==
    CASE op.k \in {"P", "PX", "C"} -> 2
      [] op.k = "LITX" -> 4
      [] op.k = "LIT" -> IF op.v \in 0 .. 65535 THEN 4 ELSE IF op.v = AllOnes THEN 2 + CELL ELSE 6
      [] op.k = "LITOFF" -> 6
      [] op.k \in {"BR", "QBR"} -> 4
      [] op.k \in {"OPD", "XT"} -> CELL
      [] op.k = "STR" -> UpToCell(t + op.v) - t

(* op_bytes without the tag. *)
PlainBytes(d, op, t, far) ==
    CASE d.tok -> TokenBytes(op, t)
      [] op.k = "C" -> CallBytes(d, op, far)
      [] op.k \in {"VF", "VS", "LOC"} -> 3
      [] op.k \in {"ADDI", "ADDIX", "EQI", "EQIX", "EQIH", "SADDI", "DADDI", "DLTI"} -> 2
      [] op.k \in {"LIT", "LITX"} -> IF Small(d, op) THEN 1 ELSE LitBytes(op.v)
      [] op.k = "P" -> IF op.n[1] \in d.esc THEN 2 ELSE 1
      [] op.k \in {"PX", "SP", "OC"} -> 1
      [] op.k = "LITOFF" -> 5
      [] op.k = "EQIT" -> IF op.s THEN 1 ELSE 2
      [] op.k \in Branches \ {"EQIT"} -> IF op.s THEN 2 ELSE 3
      [] op.k \in {"OPD", "XT"} -> CELL
      [] op.k = "STR" -> UpToCell(t + op.v) - t
      [] op.k = "GAP" -> 0

(* opcode_L, t2_names: the code an operation begins with, by its name; none *)
(* for a call, an operand, an offset, a gap.                               *)
NoCode == "none"
CodeOf(d, ops, j) ==
    LET op == ops[j]
    IN  CASE op.k = "P" -> op.n[1]
          [] op.k = "PX" -> op.n[1] \o ";EXIT"
          [] op.k = "OC" -> op.n[1] \o ";CALL"
          [] op.k = "SP" -> op.n[1] \o " " \o op.n[2]
          [] op.k = "LOC" -> op.n[1]
          [] op.k \in {"LIT", "LITX"} ->
                IF Small(d, op) THEN "lit0 lit1 litm1"
                ELSE CASE op.v \in 0 .. 255 -> "LIT8" [] op.v \in 256 .. 65535 -> "LIT"
                       [] op.v = AllOnes -> "LIT64" [] OTHER -> "LIT32"
          [] op.k = "LITOFF" -> "LIT32"
          [] op.k = "EQIH" -> IF ops[j + 1].s THEN "=I?BRANCH8" ELSE "=I?BRANCH"
          [] op.k \in Branches \ {"EQIT"} -> IF op.s THEN ShortName(op) ELSE LongName(op)
          [] op.k \in {"ADDI", "ADDIX", "EQI", "EQIX", "SADDI", "DADDI", "DLTI", "VF", "VS"} -> op.k
          [] OTHER -> NoCode
CodeBytes(d, ops, j) == IF CodeOf(d, ops, j) \in d.two THEN 2 ELSE 1

(* op_bytes in context. *)
OpBytes(d, ops, j, t) ==
    LET op    == ops[j]
        plain == PlainBytes(d, op, t, BeforeOperand(ops, j))
    IN  IF ~d.tag \/ op.k = "C" \/ CodeOf(d, ops, j) = NoCode THEN plain
        ELSE plain - (IF op.k = "P" /\ op.n[1] \in d.esc THEN 2 ELSE 1) + CodeBytes(d, ops, j)

(* Not the code: the call before its operand taken for three bytes, as     *)
(* without the tag.                                                        *)
PadBeforePlain(d, ops, j, t) ==
    IF BeforeOperand(ops, j) THEN (-(t + 3)) % CELL ELSE 0

(* pad_before: what brings the operand after a call to a cell boundary. *)
PadBefore(d, ops, j, t) ==
    IF BeforeOperand(ops, j) THEN (-(t + CallBytes(d, ops[j], TRUE))) % CELL ELSE 0
-----------------------------------------------------------------------------
(* shorten: with no operand aligned, every branch that reaches gets one     *)
(* byte, but those in long; where one does not reach it goes long and the  *)
(* layout is redone.                                                       *)
RECURSIVE Settle(_, _, _)
Settle(d, ops, long) ==
    LET trial == [j \in DOMAIN ops |->
                     IF ops[j].k \in Branches /\ ShortName(ops[j]) \in d.ops10 /\ j \notin long
                     THEN [ops[j] EXCEPT !.s = TRUE] ELSE ops[j]]
        cs    == CellsAt(trial)
        ts[j \in 1 .. Len(ops) + 1] ==
            IF j = 1 THEN <<0>>
            ELSE LET b == ts[j - 1] IN Append(b, b[j - 1] + PlainBytes(d, trial[j - 1], b[j - 1], FALSE))
        at    == ts[Len(ops) + 1]
        operand(j) == IF ops[j].k = "EQIT" THEN at[j] ELSE at[j] + 1
        reaches(j) == \E i \in 1 .. Len(ops) + 1 :
                         cs[i] = Target(ops[j], cs[j]) /\ at[i] - operand(j) \in -Reach .. Reach - 1
        far   == {j \in DOMAIN ops : trial[j].s /\ ~reaches(j)}
    IN  IF far = {} THEN trial ELSE Settle(d, ops, long \cup far)

(* FORCE_LONG holds <<word, cell>>. *)
Shorten(d, w, ops, longs) ==
    LET cs == CellsAt(ops)
    IN  Settle(d, ops, {j \in DOMAIN ops : <<w, cs[j]>> \in longs})
-----------------------------------------------------------------------------
(* read_ops: a primitive's stub as it is, and every other body rewritten. *)
Stub(ops) == Len(ops) = 2 /\ ops[1].k = "P" /\ ops[2] = EXIT

Put(d, w) ==
    LET inlined == HotInline(d, w, d.image[w])
    IN  IF d.guard THEN GuardAborts(inlined) ELSE inlined

ReadOps(d, w, longs) ==
    LET o1 == Retag(Put(d, w))
        o2 == Specialise(d, o1)
        o3 == Ops10Rewrite(d, o2)
        o4 == FoldExit(d, o3)
        o5 == FusePairs(d, o4)
        o6 == TestBranch(d, o5)
        o7 == IF "=I?BRANCH" \in d.ops10 THEN EqiBranch(o6) ELSE o6
        o8 == KeepBranch(d, o7)
        o9 == Shorten(d, w, o8, longs)
    IN  IF Stub(d.image[w]) THEN d.image[w] ELSE OpcallRewrite(d, o9)

(* layout: where each operation starts in bytes; and, last, the body's end. *)
Layout(d, ops) ==
    LET ts[j \in 0 .. Len(ops)] ==
            IF j = 0 THEN [at |-> <<>>, end |-> 0]
            ELSE LET b == ts[j - 1]
                     t == b.end + PadBefore(d, ops, j, b.end)
                 IN  [at |-> Append(b.at, t), end |-> t + OpBytes(d, ops, j, t)]
        all == ts[Len(ops)]
    IN  Append(all.at, all.end)

(* to_tokens, and the same for bytes: what is written, an item an           *)
(* operation, with the byte a branch or a loop leads to.                   *)
Jumps(ops) == {j \in DOMAIN ops : ops[j].k \in Branches \cup {"OPD"}}
LandsAt(ops, cs, ts, j) == ts[CHOOSE i \in DOMAIN cs : cs[i] = Target(ops[j], cs[j])]
Emitted(d, ops, cs, ts) ==
    [j \in DOMAIN ops |->
        [op |-> ops[j], cell |-> cs[j], at |-> ts[j], next |-> ts[j] + OpBytes(d, ops, j, ts[j]),
         to |-> IF j \in Jumps(ops) THEN LandsAt(ops, cs, ts, j) ELSE 0]]

(* to_bytes_v8, to_bytes_t2: whether every target is an operation's, what   *)
(* is written, and which short offsets do not reach (SHORT_FAILS, by cell). *)
Encode(d, ops) ==
    LET cs == CellsAt(ops)
        ts == Layout(d, ops)
        operand(j) == IF ops[j].k = "EQIT" THEN ts[j]
                      ELSE ts[j] + (IF d.tag THEN CodeBytes(d, ops, j) ELSE 1)
    IN  IF \E j \in Jumps(ops) : Target(ops[j], cs[j]) \notin Range(cs)
        THEN [code |-> FALSE, fails |-> {}, items |-> <<>>, end |-> 0]
        ELSE [code  |-> TRUE,
              fails |-> {cs[j] : j \in {i \in Jumps(ops) :
                            ops[i].s /\ LandsAt(ops, cs, ts, i) - operand(i) \notin -Reach .. Reach - 1}},
              items |-> Emitted(d, ops, cs, ts),
              end   |-> ts[Len(ts)]]
=============================================================================

--------------------------------- MODULE Ops ---------------------------------
(***************************************************************************)
(* The operations tools/sod16.py reads a word's body into, and what each   *)
(* takes up in the cell image.  An operation has a kind (k), the names it  *)
(* is about (n), a number (v: a literal, a branch's or an operand's offset *)
(* in cells, the length of a string in bytes, a gap's cells), and whether  *)
(* a branch has its one-byte form (s: the kinds ending in S).              *)
(*                                                                         *)
(* Kinds: P a primitive, C a call, LIT a literal, LITOFF an image offset,  *)
(* BR QBR branches, OPD XT STR what follows a call inline (a loop's offset,*)
(* (POSTPONE)'s token, a string); and those the rewrites make: VF VS LOC   *)
(* ADDI ADDIX EQI EQIX EQIH EQIT SADDI DADDI DLTI PX LITX SP OC, LP a loop *)
(* word with its offset, TB a test fused with its branch, DNQBR, GAP.      *)
(***************************************************************************)
EXTENDS Integers, Sequences

CONSTANT CELL                       \* bytes in a cell

ASSUME CellAssumption == CELL \in {4, 8}

Op(k, n, v) == [k |-> k, n |-> n, v |-> v, s |-> FALSE]
P(name) == Op("P", <<name>>, 0)
C(word) == Op("C", <<word>>, 0)
LIT(x)  == Op("LIT", <<>>, x)
EXIT    == P("EXIT")

(* BRK: the kinds with a branch's offset, from the cell after their last. *)
Branches == {"BR", "QBR", "LP", "TB", "DNQBR", "EQIT"}

(* What can follow a call inline. *)
Operands == {"OPD", "XT", "STR"}

UpToCell(bytes) == ((bytes + CELL - 1) \div CELL) * CELL

(* op_cells, in cells. *)
Cells(op) ==
    CASE op.k \in {"P", "C", "OC", "OPD", "XT"} -> 1
      [] op.k \in {"LIT", "LITOFF", "BR", "QBR", "LP", "EQIT", "VF", "VS", "PX", "SP"} -> 2
      [] op.k \in {"ADDI", "EQI", "EQIH", "LOC", "LITX", "TB"} -> 3
      [] op.k \in {"ADDIX", "EQIX", "DNQBR", "SADDI", "DADDI", "DLTI"} -> 4
      [] op.k = "STR" -> UpToCell(op.v) \div CELL
      [] op.k = "GAP" -> op.v

(* Where each operation starts, in cells; and, last, where the body ends. *)
CellsAt(ops) ==
    LET at[j \in 1 .. Len(ops) + 1] ==
            IF j = 1 THEN <<0>>
            ELSE LET before == at[j - 1] IN Append(before, before[j - 1] + Cells(ops[j - 1]))
    IN  at[Len(ops) + 1]

(* The cell that op, at cell c, can jump to. *)
Target(op, c) == IF op.k = "OPD" THEN c + op.v ELSE c + 1 + op.v

(* branch_targets: every cell something in the body jumps to. *)
BranchTargets(ops) ==
    LET cs == CellsAt(ops)
    IN  {Target(ops[j], cs[j]) : j \in {i \in DOMAIN ops : ops[i].k \in Branches \cup {"OPD"}}}

(* before_operand: a call whose inline cell follows it. *)
BeforeOperand(ops, j) ==
    ops[j].k = "C" /\ j < Len(ops) /\ ops[j + 1].k \in {"OPD", "XT"}
=============================================================================

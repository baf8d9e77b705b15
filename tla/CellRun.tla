------------------------------- MODULE CellRun -------------------------------
(***************************************************************************)
(* What a converted word promises: it does what its cells do, in their     *)
(* order.  prog is the word as the cell engine runs it: what each          *)
(* operation does, where it goes on (0: nowhere), where it can jump to     *)
(* (0: it is no branch), and whether the word can end there.  One step     *)
(* does one operation or several in a row, of which only the last          *)
(* branches.                                                               *)
(***************************************************************************)
EXTENDS Integers, Sequences

VARIABLES prog, pc, last            \* pc 0: over; last: what the last step did

vars == <<prog, pc, last>>

Init == pc = 1 /\ last = <<>>

Plain(i) == prog[i].to = 0 /\ prog[i].next # 0 /\ ~prog[i].ends

(* The operations from i on, m of them. *)
RECURSIVE Row(_, _)
Row(i, m) == IF m = 1 THEN <<i>> ELSE <<i>> \o Row(prog[i].next, m - 1)
RECURSIVE InARow(_, _)
InARow(i, m) == m = 1 \/ (Plain(i) /\ InARow(prog[i].next, m - 1))

Run(m) ==
    /\ pc \in DOMAIN prog /\ InARow(pc, m)
    /\ LET row == Row(pc, m)
           end == prog[row[m]]
       IN  /\ last' = [k \in 1 .. m |-> prog[row[k]].does]
           /\ \/ end.next # 0 /\ pc' = end.next
              \/ end.to # 0 /\ pc' = end.to
              \/ end.ends /\ pc' = 0
    /\ UNCHANGED prog

Next == \E m \in 1 .. 4 : Run(m)
Spec == Init /\ [][Next]_vars
=============================================================================

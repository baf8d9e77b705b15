------------------------------ MODULE Nesting ------------------------------
(***************************************************************************)
(* What the kernel's input promises, without its variables or its return   *)
(* stack: sources nest, each goes on where it was, a CATCH marks a depth   *)
(* and a THROW takes everything back to the innermost mark.                *)
(***************************************************************************)
EXTENDS Integers, Sequences

CONSTANTS LINE,                     \* the longest line
          Fids                      \* files

VARIABLE nest                       \* sources and marks, the terminal first

Kind(k) == nest[k].kind
Top     == Len(nest)

(* The source words come from: the last that is not a mark. *)
Innermost(s, k) == s[k].kind = "source" /\ \A j \in k + 1 .. Len(s) : s[j].kind = "mark"
Current == CHOOSE k \in 1 .. Top : Innermost(nest, k)
Mark(k) == Kind(k) = "mark" /\ \A j \in k + 1 .. Top : Kind(j) = "source"

Source(id, n)  == [kind |-> "source", id |-> id, len |-> n, in |-> 0]
Up             == SubSeq(nest, 1, Top - 1)
AtLineEnd      == Kind(Top) = "source" /\ nest[Top].in = nest[Top].len

Init == \E n \in 0 .. LINE : nest = <<Source(0, n)>>

Parse ==
    /\ nest[Current].in < nest[Current].len
    /\ nest' = [nest EXCEPT ![Current].in = @ + 1]

Open == \E id \in Fids \cup {-1}, n \in 0 .. LINE : nest' = Append(nest, Source(id, n))

Refill ==
    /\ AtLineEnd /\ nest[Top].id # -1
    /\ \E n \in 0 .. LINE : nest' = Append(Up, Source(nest[Top].id, n))

Close == Top > 1 /\ AtLineEnd /\ nest' = Up

Catch == nest' = Append(nest, [nest[Current] EXCEPT !.kind = "mark"])

EndCatch == Kind(Top) = "mark" /\ nest' = Up

(* Back to a mark, and to the place its source had. *)
Throw ==
    \E m \in 1 .. Top :
       /\ Mark(m)
       /\ LET below == SubSeq(nest, 1, m - 1)
              src   == CHOOSE k \in 1 .. m - 1 : Innermost(below, k)
          IN  nest' = [below EXCEPT ![src] = [nest[m] EXCEPT !.kind = "source"]]

Quit == \E n \in 0 .. LINE : nest' = <<Source(0, n)>>

Next == Parse \/ Open \/ Refill \/ Close \/ Catch \/ EndCatch \/ Throw \/ Quit

Spec == Init /\ [][Next]_nest
=============================================================================

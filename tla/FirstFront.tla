----------------------------- MODULE FirstFront ----------------------------
(***************************************************************************)
(* first_front(ids, R) of lab/evolve/evolve.py: the designs nothing        *)
(* dominates, without comparing every pair.  The designs are scanned by    *)
(* total, then speed, into an archive of those nothing seen dominates;     *)
(* then each member is checked against every design of no more total.     *)
(***************************************************************************)
EXTENDS Dominance

CONSTANTS Ids,                      \* the designs, numbered as they come
          Measured                  \* the records they can have

VARIABLES R,                        \* the records
          todo,                     \* designs not scanned yet
          arch,                     \* the archive
          out,                      \* members found undominated
          unchecked,                \* members to be checked
          pc                        \* scan, check, done

vars == <<R, todo, arch, out, unchecked, pc>>

Dom(a, b) == Dominates(R[a], R[b])

Init ==
    /\ R \in [Ids -> Measured]
    /\ todo = Ids /\ arch = {} /\ out = {} /\ unchecked = {}
    /\ pc = "scan"

(* sorted() by total and speed; it is stable. *)
Before(i, j) ==
    \/ R[i].total < R[j].total
    \/ R[i].total = R[j].total /\ R[i].speed < R[j].speed
    \/ R[i].total = R[j].total /\ R[i].speed = R[j].speed /\ i < j

Scanned(i) == i \in todo /\ \A j \in todo : j # i => Before(i, j)

(* A design the archive dominates is passed over. *)
Skip(i) ==
    /\ pc = "scan" /\ Scanned(i)
    /\ \E a \in arch : Dom(a, i)
    /\ todo' = todo \ {i}
    /\ UNCHANGED <<R, arch, out, unchecked, pc>>

(* Not the code: the members a new one dominates stay. *)
ArchiveAll(i) ==
    /\ pc = "scan" /\ Scanned(i)
    /\ ~\E a \in arch : Dom(a, i)
    /\ arch' = arch \cup {i}
    /\ todo' = todo \ {i}
    /\ UNCHANGED <<R, out, unchecked, pc>>

(* Another joins it, in place of the members it dominates. *)
Archive(i) ==
    /\ pc = "scan" /\ Scanned(i)
    /\ ~\E a \in arch : Dom(a, i)
    /\ arch' = {a \in arch : ~Dom(i, a)} \cup {i}
    /\ todo' = todo \ {i}
    /\ UNCHANGED <<R, out, unchecked, pc>>

EndScan ==
    /\ pc = "scan" /\ todo = {}
    /\ unchecked' = arch
    /\ pc' = "check"
    /\ UNCHANGED <<R, todo, arch, out>>

(* Not the code: a member is checked against the archive alone. *)
AgainstArchive(b) ==
    /\ pc = "check" /\ b \in unchecked
    /\ out' = IF \E a \in arch : a # b /\ Dom(a, b) THEN out ELSE out \cup {b}
    /\ unchecked' = unchecked \ {b}
    /\ UNCHANGED <<R, todo, arch, pc>>

(* With tolerances what the archive passed over or dropped can dominate a   *)
(* member still.                                                           *)
Check(b) ==
    /\ pc = "check" /\ b \in unchecked
    /\ out' = IF \E a \in Ids : a # b /\ R[a].total <= R[b].total /\ Dom(a, b)
              THEN out ELSE out \cup {b}
    /\ unchecked' = unchecked \ {b}
    /\ UNCHANGED <<R, todo, arch, pc>>

EndCheck ==
    /\ pc = "check" /\ unchecked = {}
    /\ pc' = "done"
    /\ UNCHANGED <<R, todo, arch, out, unchecked>>

Next ==
    \/ \E i \in Ids : Skip(i) \/ Archive(i) \/ Check(i)
    \/ EndScan \/ EndCheck

Spec == Init /\ [][Next]_vars
-----------------------------------------------------------------------------
(* The designs no other dominates. *)
Undominated == {b \in Ids : ~\E a \in Ids : a # b /\ Dom(a, b)}

(* What the archive passed over and dropped is made good by the check: the   *)
(* result is exactly what no design dominates, with dominance intransitive.  *)
OnlyUndominated == pc = "done" => out = Undominated

(* No member of the archive dominates another (evolve.py:1670). *)
ArchiveApart == \A a, b \in arch : a # b => ~Dom(a, b)

TypeOK ==
    /\ R \in [Ids -> Measured]
    /\ todo \subseteq Ids /\ arch \subseteq Ids \ todo
    /\ unchecked \subseteq arch /\ out \subseteq arch \ unchecked
    /\ pc \in {"scan", "check", "done"}
=============================================================================

------------------------------- MODULE TermIO ------------------------------
(***************************************************************************)
(* The engine's terminal output (engine/vm-lab.c, "Buffered terminal       *)
(* I/O"): WRITE holds what it is given and every other way to the outside  *)
(* flushes first.  Processes fork, run other programs, wait for each       *)
(* other, redirect descriptor 1, read their input and end, on purpose or   *)
(* by a fault.  A step is a primitive; a SYSCALL that blocks is two.       *)
(*                                                                         *)
(* A byte is who wrote it, to which file descriptor 1 (or 2) then led, and *)
(* a vector clock: how many bytes of each process came before it.          *)
(***************************************************************************)
EXTENDS Integers, Sequences, FiniteSets, Functions

CONSTANTS Procs, Root,              \* processes there may be, and the first one
          Files, Terminals,         \* what descriptors 1 and 2 can lead to
          Start1, Start2,           \* where they lead at the start
          TIOBUF,                   \* the output buffer's size (4096)
          Texts,                    \* the lengths WRITE is given
          MaxBytes,                 \* bound: bytes written by all of them
          Levels                    \* the gene fsys: 0, WRITE native; 4, WRITE in Forth

ASSUME TermAssumption ==
    /\ Root \in Procs
    /\ Terminals \subseteq Files /\ {Start1, Start2} \subseteq Files
    /\ TIOBUF \in Nat \ {0} /\ Texts \subseteq Nat /\ MaxBytes \in Nat
    /\ Levels \subseteq {0, 4}

VARIABLES level,                    \* the design's fsys
          st,                       \* what each process does
          parent,                   \* who forked it
          fd,                       \* where its descriptors 1 and 2 lead
          obuf,                     \* t_obuf, or the Forth buffer at level 4
          otty,                     \* t_otty, or FS-OMODE: is descriptor 1 a terminal?
          out,                      \* what each file was given
          clk,                      \* history: the bytes of each process that a process's next byte follows
          issued                    \* history: every byte written and to come out

vars == <<level, st, parent, fd, obuf, otty, out, clk, issued>>

Running(p) == st[p] = "run"

Init ==
    /\ level \in Levels
    /\ st = [p \in Procs |-> IF p = Root THEN "run" ELSE "unborn"]
    /\ parent = [p \in Procs |-> p]
    /\ fd = [p \in Procs |-> <<Start1, Start2>>]
    /\ obuf = [p \in Procs |-> <<>>]
    /\ otty = [p \in Procs |-> "unasked"]
    /\ out = [f \in Files |-> <<>>]
    /\ clk = [p \in Procs |-> [q \in Procs |-> 0]]
    /\ issued = {}

(* n bytes of p's, for where its descriptor d leads. *)
NewBytes(p, n, d) ==
    [k \in 1 .. n |-> [by |-> p, clock |-> [clk[p] EXCEPT ![p] = @ + k], to |-> fd[p][d]]]

MayWrite(n) == Cardinality(issued) + n <= MaxBytes

Issue(p, bytes) ==
    /\ issued' = issued \cup Range(bytes)
    /\ clk' = [clk EXCEPT ![p][p] = @ + Len(bytes)]

Quiet == UNCHANGED <<clk, issued>>

(* t_flush(): what is held goes to descriptor 1. *)
Flushed(p) == [out EXCEPT ![fd[p][1]] = @ \o obuf[p]]
t_flush(p) == out' = Flushed(p) /\ obuf' = [obuf EXCEPT ![p] = <<>>]

(* What a file holds once bytes are written to it. *)
Given(o, f, bytes) == [o EXCEPT ![f] = @ \o bytes]
-----------------------------------------------------------------------------
(***************************************************************************)
(* WRITE.                                                                  *)
(***************************************************************************)
Asked(p) == IF otty[p] = "unasked" THEN IF fd[p][1] \in Terminals THEN "yes" ELSE "no" ELSE otty[p]

(* Of so many bytes, those the loop flushes: it flushes a full buffer when   *)
(* there is more to put in it.                                             *)
Overflow(total) == IF total = 0 THEN 0 ELSE TIOBUF * ((total - 1) \div TIOBUF)

t_write(p, n) ==
    LET all  == obuf[p] \o NewBytes(p, n, 1)
        gone == IF Asked(p) = "yes" THEN Len(all) ELSE IF n = 0 THEN 0 ELSE Overflow(Len(all))
    IN  /\ out' = Given(out, fd[p][1], SubSeq(all, 1, gone))
        /\ obuf' = [obuf EXCEPT ![p] = SubSeq(all, gone + 1, Len(all))]

(* Not the code: a text longer than the buffer overtakes what it holds. *)
WriteOvertakes(p, n) ==
    LET bytes == NewBytes(p, n, 1)
    IN  \/ /\ Asked(p) = "yes" \/ n > TIOBUF
           /\ out' = Given(out, fd[p][1], bytes)
           /\ UNCHANGED obuf
        \/ /\ Asked(p) = "no" /\ n <= TIOBUF /\ Len(obuf[p]) + n > TIOBUF
           /\ out' = Flushed(p)
           /\ obuf' = [obuf EXCEPT ![p] = bytes]
        \/ /\ Asked(p) = "no" /\ Len(obuf[p]) + n <= TIOBUF
           /\ obuf' = [obuf EXCEPT ![p] = @ \o bytes]
           /\ UNCHANGED out

(* Not the code: a full buffer begun again without the flush, SYSCALL -6. *)
WriteBeginsAgain(p, n) ==
    LET bytes == NewBytes(p, n, 1)
    IN  \/ /\ Asked(p) = "yes"
           /\ out' = Given(out, fd[p][1], bytes)
           /\ UNCHANGED obuf
        \/ /\ Asked(p) = "no" /\ n > TIOBUF
           /\ out' = Given(Flushed(p), fd[p][1], bytes)
           /\ obuf' = [obuf EXCEPT ![p] = <<>>]
        \/ /\ Asked(p) = "no" /\ n <= TIOBUF /\ Len(obuf[p]) + n > TIOBUF
           /\ obuf' = [obuf EXCEPT ![p] = bytes]
           /\ UNCHANGED out
        \/ /\ Asked(p) = "no" /\ Len(obuf[p]) + n <= TIOBUF
           /\ obuf' = [obuf EXCEPT ![p] = @ \o bytes]
           /\ UNCHANGED out

(* The Forth WRITE: to a terminal at once, a text longer than the buffer    *)
(* after it, else added, after a flush if it would not fit.                *)
WriteForth(p, n) ==
    LET bytes == NewBytes(p, n, 1)
    IN  \/ /\ Asked(p) = "yes"
           /\ out' = Given(out, fd[p][1], bytes)
           /\ UNCHANGED obuf
        \/ /\ Asked(p) = "no" /\ n > TIOBUF
           /\ out' = Given(Flushed(p), fd[p][1], bytes)
           /\ obuf' = [obuf EXCEPT ![p] = <<>>]
        \/ /\ Asked(p) = "no" /\ n <= TIOBUF /\ Len(obuf[p]) + n > TIOBUF
           /\ out' = Flushed(p)
           /\ obuf' = [obuf EXCEPT ![p] = bytes]
        \/ /\ Asked(p) = "no" /\ Len(obuf[p]) + n <= TIOBUF
           /\ obuf' = [obuf EXCEPT ![p] = @ \o bytes]
           /\ UNCHANGED out

Write(p, n) ==
    /\ Running(p) /\ MayWrite(n)
    /\ IF level = 0 THEN t_write(p, n) ELSE WriteForth(p, n)
    /\ otty' = [otty EXCEPT ![p] = Asked(p)]
    /\ Issue(p, NewBytes(p, n, 1))
    /\ UNCHANGED <<st, parent, fd>>
-----------------------------------------------------------------------------
(***************************************************************************)
(* The other ways out.                                                     *)
(***************************************************************************)
(* Not the code: the text on its way while earlier output is held. *)
WriteFileUnflushed(p, d) ==
    /\ Running(p) /\ MayWrite(1)
    /\ out' = Given(out, fd[p][d], NewBytes(p, 1, d))
    /\ Issue(p, NewBytes(p, 1, d))
    /\ UNCHANGED <<st, parent, fd, otty, obuf>>

(* WRITE-FILE (and WRITE-LINE) on descriptor 1 or 2. *)
WriteFile(p, d) ==
    /\ Running(p) /\ MayWrite(1)
    /\ out' = Given(Flushed(p), fd[p][d], NewBytes(p, 1, d))
    /\ obuf' = [obuf EXCEPT ![p] = <<>>]
    /\ Issue(p, NewBytes(p, 1, d))
    /\ UNCHANGED <<st, parent, fd, otty>>

(* Not the code: input read with the prompt held. *)
ReadUnflushed(p) ==
    /\ Running(p)
    /\ st' = [st EXCEPT ![p] = "reading"]
    /\ UNCHANGED <<parent, fd, otty, out, obuf>> /\ Quiet

(* READ, and READ-LINE on descriptor 0: t_read and t_getc flush and block. *)
Read(p) ==
    /\ Running(p)
    /\ t_flush(p)
    /\ st' = [st EXCEPT ![p] = "reading"]
    /\ UNCHANGED <<parent, fd, otty>> /\ Quiet

(* READ-FILE on descriptor 0: native, it does not flush; in Forth, it is a   *)
(* SYSCALL.                                                                *)
ReadFile0(p) ==
    /\ Running(p)
    /\ IF level = 0 THEN UNCHANGED <<out, obuf>> ELSE t_flush(p)
    /\ st' = [st EXCEPT ![p] = IF level = 0 THEN "reading 0" ELSE "reading"]
    /\ UNCHANGED <<parent, fd, otty>> /\ Quiet

InputComes(p) ==
    /\ st[p] \in {"reading", "reading 0"}
    /\ st' = [st EXCEPT ![p] = "run"]
    /\ UNCHANGED <<parent, fd, otty, out, obuf>> /\ Quiet

(* Not the code: what the parent holds is the child's too. *)
ForkUnflushed(p, c) ==
    /\ Running(p) /\ st[c] = "unborn"
    /\ st' = [st EXCEPT ![c] = "run"]
    /\ parent' = [parent EXCEPT ![c] = p]
    /\ fd' = [fd EXCEPT ![c] = fd[p]]
    /\ otty' = [otty EXCEPT ![c] = otty[p]]
    /\ obuf' = [obuf EXCEPT ![c] = obuf[p]]
    /\ clk' = [clk EXCEPT ![c] = clk[p]]
    /\ UNCHANGED <<out, issued>>

(* SYSCALL fork: the child has the parent's memory and descriptors. *)
Fork(p, c) ==
    /\ Running(p) /\ st[c] = "unborn"
    /\ out' = Flushed(p)
    /\ obuf' = [obuf EXCEPT ![p] = <<>>, ![c] = <<>>]
    /\ st' = [st EXCEPT ![c] = "run"]
    /\ parent' = [parent EXCEPT ![c] = p]
    /\ fd' = [fd EXCEPT ![c] = fd[p]]
    /\ otty' = [otty EXCEPT ![c] = otty[p]]
    /\ clk' = [clk EXCEPT ![c] = clk[p]]
    /\ UNCHANGED issued

(* SYSCALL wait4: flushed, then blocked until a child has ended. *)
Wait(p) ==
    /\ Running(p) /\ \E c \in Procs : c # p /\ parent[c] = p /\ st[c] # "reaped"
    /\ t_flush(p)
    /\ st' = [st EXCEPT ![p] = "waiting"]
    /\ UNCHANGED <<parent, fd, otty>> /\ Quiet

Later(a, b) == [q \in Procs |-> IF a[q] > b[q] THEN a[q] ELSE b[q]]

Reap(p, c) ==
    /\ st[p] = "waiting" /\ c # p /\ parent[c] = p /\ st[c] = "ended"
    /\ st' = [st EXCEPT ![p] = "run", ![c] = "reaped"]
    /\ clk' = [clk EXCEPT ![p] = Later(clk[p], clk[c])]
    /\ UNCHANGED <<parent, fd, otty, out, obuf, issued>>

(* SYSCALL dup2 onto descriptor 1. *)
Dup2(p, f) ==
    /\ Running(p)
    /\ t_flush(p)
    /\ fd' = [fd EXCEPT ![p][1] = f]
    /\ UNCHANGED <<st, parent, otty>> /\ Quiet

(* SYSCALL execve: another program in the process, its output its own. *)
Exec(p) ==
    /\ Running(p)
    /\ t_flush(p)
    /\ st' = [st EXCEPT ![p] = "other"]
    /\ UNCHANGED <<parent, fd, otty>> /\ Quiet

OtherWrites(p) ==
    /\ st[p] = "other" /\ MayWrite(1)
    /\ out' = Given(out, fd[p][1], NewBytes(p, 1, 1))
    /\ Issue(p, NewBytes(p, 1, 1))
    /\ UNCHANGED <<st, parent, fd, otty, obuf>>

OtherEnds(p) ==
    /\ st[p] = "other"
    /\ st' = [st EXCEPT ![p] = "ended"]
    /\ UNCHANGED <<parent, fd, otty, out, obuf>> /\ Quiet

(* BYE, SYSCALL exit_group, and a primitive this engine has not. *)
Exit(p) ==
    /\ Running(p)
    /\ t_flush(p)
    /\ st' = [st EXCEPT ![p] = "ended"]
    /\ UNCHANGED <<parent, fd, otty>> /\ Quiet

(* guard_trap and fault_trap: flushed, reported on descriptor 2, ended. *)
Fault(p) ==
    /\ Running(p) /\ MayWrite(1)
    /\ out' = Given(Flushed(p), fd[p][2], NewBytes(p, 1, 2))
    /\ obuf' = [obuf EXCEPT ![p] = <<>>]
    /\ st' = [st EXCEPT ![p] = "ended"]
    /\ Issue(p, NewBytes(p, 1, 2))
    /\ UNCHANGED <<parent, fd, otty>>

(* stack_fault: a push that finds its stack full, where no guard page traps. *)
(* It does not flush: what was held is gone, and is issued no longer.      *)
StackFault(p) ==
    /\ Running(p) /\ MayWrite(1)
    /\ out' = Given(out, fd[p][2], NewBytes(p, 1, 2))
    /\ obuf' = [obuf EXCEPT ![p] = <<>>]
    /\ st' = [st EXCEPT ![p] = "ended"]
    /\ issued' = (issued \ Range(obuf[p])) \cup Range(NewBytes(p, 1, 2))
    /\ clk' = [clk EXCEPT ![p][p] = @ + 1]
    /\ UNCHANGED <<parent, fd, otty>>

Step ==
    \E p \in Procs :
       \/ \E n \in Texts : Write(p, n)
       \/ \E d \in {1, 2} : WriteFile(p, d)
       \/ Read(p) \/ ReadFile0(p) \/ InputComes(p)
       \/ Wait(p) \/ Exec(p) \/ OtherWrites(p) \/ OtherEnds(p)
       \/ \E c \in Procs : Fork(p, c) \/ Reap(p, c)
       \/ \E f \in Files : Dup2(p, f)
       \/ Exit(p) \/ Fault(p) \/ StackFault(p)

Next == Step /\ UNCHANGED level

Spec == Init /\ [][Next]_vars
-----------------------------------------------------------------------------
In(b, s) == \E k \in DOMAIN s : s[k] = b

(* Every byte is in the file its descriptor led to when it was written, or   *)
(* held by a process that lives to flush it: no exit, exec or redirection   *)
(* loses or misplaces any (vm-lab.c:1256); stack_fault does.               *)
NothingLost ==
    \A b \in issued :
       \/ In(b, out[b.to])
       \/ In(b, obuf[b.by]) /\ st[b.by] \in {"run", "reading", "reading 0", "waiting"}

(* No byte is twice in what the files were given and the processes hold:    *)
(* none is duplicated into a child (vm-lab.c:1257).                        *)
NothingTwice ==
    /\ \A f \in Files : \A j, k \in DOMAIN out[f] : j # k => out[f][j] # out[f][k]
    /\ \A p \in Procs : \A k \in DOMAIN obuf[p] :
          /\ obuf[p][k].by = p
          /\ \A f \in Files : ~In(obuf[p][k], out[f])

(* What is written comes out once, to where it was written.                *)
OutOnce == NothingLost /\ NothingTwice

Precedes(b, c) == b # c /\ b.clock[b.by] <= c.clock[b.by]

(* A file is given its bytes in an order they were written in: never a byte  *)
(* before one its process had written, or been told of by a fork or a wait, *)
(* when it wrote it (vm-lab.c:1253).                                       *)
CausalOrder ==
    \A f \in Files : \A k \in DOMAIN out[f] : \A j \in 1 .. k - 1 :
       ~Precedes(out[f][k], out[f][j])

(* A process that waits for its input, or for a child, holds no output: the  *)
(* prompt is there to be read (vm-lab.c:1252); READ-FILE, native, may.      *)
PromptFirst == \A p \in Procs : st[p] \in {"reading", "waiting"} => obuf[p] = <<>>
=============================================================================

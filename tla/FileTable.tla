----------------------------- MODULE FileTable -----------------------------
(***************************************************************************)
(* The kernel's side of the file words: names, descriptors, offsets and    *)
(* contents, and the two words that go straight to it, OPEN-FILE and       *)
(* DELETE-FILE; and what the kernel and the access methods do for the file *)
(* primitives of engine/vm-lab.c, as operators on byte sequences.          *)
(* LogicalFile and FileIO are written on it.  A byte is one of the classes *)
(* the engine tells apart: LF, CR, backspace or DEL, NUL, any other.       *)
(***************************************************************************)
EXTENDS Integers, Sequences

LF  == "lf"
CR  == "cr"
BS  == "bs"
NUL == "nul"                       \* what write(2) fills a gap with
CH  == "ch"
Byte == {LF, CR, BS, NUL, CH}

(* T_EDIT: the characters READ never goes past. *)
T_EDIT == {LF, CR, BS}

(* The access methods; the "b" ones of the table are the same. *)
Fams == {"w", "r", "r+", "a", "w+"}
open_flags ==
    [f \in Fams |-> [rd    |-> f \in {"r", "r+", "w+"},
                     wr    |-> f # "r",
                     creat |-> f \in {"w", "a", "w+"},
                     trunc |-> f \in {"w", "w+"},
                     app   |-> f = "a"]]

Least(a, b) == IF a <= b THEN a ELSE b

(* The first n bytes of s, and s without them. *)
Upto(s, n) == SubSeq(s, 1, Least(n, Len(s)))
Past(s, n) == SubSeq(s, n + 1, Len(s))

(* How much of s there is up to and including its first byte of class C. *)
Where(s, C) == {i \in 1..Len(s) : s[i] \in C}
UptoFirst(s, C) ==
    IF Where(s, C) = {} THEN Len(s)
    ELSE CHOOSE i \in Where(s, C) : \A j \in Where(s, C) : i <= j

(* write(2) of t at offset o of a file holding c; a gap reads as NULs. *)
Put(c, o, t) ==
    IF t = <<>> THEN c
    ELSE [i \in 1..(IF Len(c) >= o + Len(t) THEN Len(c) ELSE o + Len(t)) |->
            IF i \in (o + 1)..(o + Len(t)) THEN t[i - o]
            ELSE IF i <= Len(c) THEN c[i] ELSE NUL]

(* READ-LINE's last step: a CR the line ends in is part of its terminator. *)
ChopCR(line) ==
    IF line # <<>> /\ line[Len(line)] = CR THEN SubSeq(line, 1, Len(line) - 1) ELSE line
-----------------------------------------------------------------------------
CONSTANTS Fds,          \* descriptors, 0 (stdin) among them
          Files, Pipes, \* what can be opened; those that cannot seek
          NoFile,       \* the file of a closed descriptor
          FamsUsed,     \* the access methods a program opens with
          Texts,        \* what a program writes
          Counts,       \* the u1 of READ, READ-LINE and READ-FILE
          Offsets,      \* the ud of REPOSITION-FILE
          MaxLen,       \* bound: no write makes a file longer
          InitContent   \* the contents the files may start with

ASSUME FdsAssumption   == Fds \subseteq Nat /\ 0 \in Fds
ASSUME FilesAssumption == Pipes \subseteq Files /\ NoFile \notin Files
ASSUME InputAssumption ==
    /\ FamsUsed \subseteq Fams /\ Texts \subseteq Seq(Byte) /\ Counts \subseteq Nat /\ Offsets \subseteq Nat
    /\ InitContent \subseteq [Files -> Seq(Byte)] /\ MaxLen \in Nat

VARIABLES content,  \* the bytes of each file; of a pipe, those not yet read
          dir,      \* the files that have a name
          desc,     \* the descriptor table
          off,      \* the offset of each descriptor
          res       \* what the last word returned

table == <<content, dir, desc, off, res>>

Closed == [file |-> NoFile, rd |-> FALSE, wr |-> FALSE, app |-> FALSE]
Descs  == [file : Files, rd : BOOLEAN, wr : BOOLEAN, app : BOOLEAN] \cup {Closed}

Answer(op, bytes, n, ior) == [op |-> op, bytes |-> bytes, n |-> n, ior |-> ior]

Stdins == {[Closed EXCEPT !.file = f, !.rd = TRUE] : f \in Files}
TableInit ==
    /\ content \in InitContent
    /\ dir = Files
    /\ \E d \in Stdins : desc = [fd \in Fds |-> IF fd = 0 THEN d ELSE Closed]
    /\ off = [fd \in Fds |-> 0]
    /\ res = Answer("boot", <<>>, 0, 0)

Seekable(fd) == desc[fd].file \in Files \ Pipes

(* A file that can be written through one descriptor has no other: nobody  *)
(* reads a file behind its writer's back.                                  *)
SoleWriter(f, fam) ==
    \A fd \in Fds : desc[fd].file = f => ~desc[fd].wr /\ ~open_flags[fam].wr

OpenFile(f, fam) ==
    LET free == {fd \in Fds : desc[fd] = Closed}
        low  == CHOOSE fd \in free : \A g \in free : fd <= g
        fl   == open_flags[fam]
    IN  /\ f \in Pipes => fam = "r"
        /\ \/ /\ free = {} \/ (f \notin dir /\ ~fl.creat)
              /\ res' = Answer("OPEN-FILE", <<>>, -1, 200)
              /\ UNCHANGED <<content, dir, desc, off>>
           \/ /\ free # {} /\ (f \in dir \/ fl.creat)
              /\ SoleWriter(f, fam)
              /\ f \notin dir => \A fd \in Fds : desc[fd].file # f
              /\ content' = IF fl.trunc \/ f \notin dir THEN [content EXCEPT ![f] = <<>>]
                            ELSE content
              /\ dir' = dir \cup {f}
              /\ desc' = [desc EXCEPT ![low] = [file |-> f, rd |-> fl.rd, wr |-> fl.wr, app |-> fl.app]]
              /\ off' = [off EXCEPT ![low] = 0]
              /\ res' = Answer("OPEN-FILE", <<>>, low, 0)

DeleteFile(f) ==
    /\ f \notin Pipes
    /\ dir' = dir \ {f}
    /\ res' = Answer("DELETE-FILE", <<>>, 0, IF f \in dir THEN 0 ELSE -1)
    /\ UNCHANGED <<content, desc, off>>

=============================================================================

------------------------------- MODULE FileIO -------------------------------
(***************************************************************************)
(* The native file words of engine/vm-lab.c.  READ-LINE reads a file that  *)
(* can seek a buffer at a time into one of FBUFN slots, so the kernel's    *)
(* offset runs ahead of what the program was given; every other word first *)
(* drops the slot, seeking back over what was not taken.  READ reads stdin *)
(* a block at a time, if it can seek, and seeks back to the line's end.    *)
(* A primitive is one step, but READ-LINE's loop, which is one a byte.     *)
(***************************************************************************)
EXTENDS FileTable

CONSTANTS FBUFN, FBUFSZ,   \* how many read-ahead buffers there are, how long
          RedirectAnyKind  \* may a pipe replace a stdin READ found seekable?

ASSUME BufferAssumption == FBUFN \in Nat /\ FBUFSZ \in Nat \ {0}

VARIABLES t_fb,     \* the slots: fd 0 marks one unused
          t_seek0,  \* can descriptor 0 seek?  -1: not asked yet
          rl        \* the READ-LINE in progress

vars == <<content, dir, desc, off, res, t_fb, t_seek0, rl>>

Slots == 0..(FBUFN - 1)
Unused == [fd |-> 0, len |-> 0, pos |-> 0, raw |-> FALSE, b |-> <<>>]
NoLine == [fd |-> -1, max |-> 0, line |-> <<>>]

Init ==
    /\ TableInit
    /\ t_fb = [i \in Slots |-> Unused]
    /\ t_seek0 = -1
    /\ rl = NoLine

(* The VM runs one primitive at a time. *)
Idle == rl = NoLine

-----------------------------------------------------------------------------
(* read(2) of at most n bytes: what it gives, and what it moves. *)
ReadBytes(fd, o, n) ==
    IF ~desc[fd].rd THEN <<>>
    ELSE IF Seekable(fd) THEN Upto(Past(content[desc[fd].file], o), n)
    ELSE Upto(content[desc[fd].file], n)

(* ... after which descriptor fd stands at o, and a pipe is k bytes shorter. *)
SysRead(fd, o, k) ==
    /\ off' = [off EXCEPT ![fd] = IF Seekable(fd) THEN o + k ELSE o]
    /\ content' = IF Seekable(fd) \/ k = 0 THEN content
                  ELSE [content EXCEPT ![desc[fd].file] = Past(@, k)]

(* lseek(fd, d, SEEK_CUR) from o: it fails, moving nothing, on what cannot  *)
(* seek and where it would go below zero.                                   *)
Lseek(fd, o, d) == IF Seekable(fd) /\ o + d >= 0 THEN o + d ELSE o

-----------------------------------------------------------------------------
(* Mutant: a slot used up is taken for an unused one. *)
HasUnreadSlot(fd) == \E i \in Slots : t_fb[i].fd = fd /\ (fd # 0 => t_fb[i].pos < t_fb[i].len)

(* t_fslot: the slot fd has, or an unused one, or none. *)
HasSlot(fd) == \E i \in Slots : t_fb[i].fd = fd
SlotOf(fd) == CHOOSE i \in Slots : t_fb[i].fd = IF HasSlot(fd) THEN fd ELSE 0
(* Mutant: what cannot seek gets a buffer too. *)
BufferAnything(fd) ==
    IF HasSlot(fd) THEN t_fb[SlotOf(fd)] ELSE [Unused EXCEPT !.fd = fd]
t_fslot(fd) ==
    IF HasSlot(fd) THEN t_fb[SlotOf(fd)]
    ELSE [Unused EXCEPT !.fd = fd, !.raw = ~Seekable(fd)]
NoSlotLeft(fd) == ~HasSlot(fd) /\ ~HasSlot(0)

(* What t_fdrop(fd) gives back: what was read ahead and not taken. *)
Unread(fd) == IF HasSlot(fd) THEN t_fb[SlotOf(fd)].len - t_fb[SlotOf(fd)].pos ELSE 0
Honest(fd) == IF Unread(fd) > 0 THEN Lseek(fd, off[fd], 0 - Unread(fd)) ELSE off[fd]
t_fdrop(fd) == t_fb' = [i \in Slots |-> IF t_fb[i].fd = fd THEN Unused ELSE t_fb[i]]

-----------------------------------------------------------------------------
Open == \E f \in Files, fam \in FamsUsed : OpenFile(f, fam) /\ Idle /\ UNCHANGED <<t_fb, t_seek0, rl>>
Delete == \E f \in Files : DeleteFile(f) /\ Idle /\ UNCHANGED <<t_fb, t_seek0, rl>>

(* Mutant: the slot outlives its file, and is found by the next one. *)
CloseKeepsSlot(fd) ==
    /\ Idle /\ fd # 0
    /\ res' = Answer("CLOSE-FILE", <<>>, 0, IF desc[fd] = Closed THEN -1 ELSE 0)
    /\ desc' = [desc EXCEPT ![fd] = Closed]
    /\ off' = [off EXCEPT ![fd] = 0]
    /\ UNCHANGED <<content, dir, t_fb, t_seek0, rl>>

CloseFile(fd) ==
    /\ Idle /\ fd # 0
    /\ t_fdrop(fd)
    /\ res' = Answer("CLOSE-FILE", <<>>, 0, IF desc[fd] = Closed THEN -1 ELSE 0)
    /\ desc' = [desc EXCEPT ![fd] = Closed]
    /\ off' = [off EXCEPT ![fd] = 0]
    /\ UNCHANGED <<content, dir, t_seek0, rl>>

(* The shell's redirection: DUP2, which knows nothing of the slots, and     *)
(* CLOSE-FILE of old, whose t_fdrop moves the offset the two share.         *)
Redirect(old, new) ==
    /\ Idle /\ old # 0 /\ old # new /\ desc[old] # Closed
    /\ new # 0 => ~HasSlot(new)
    /\ new = 0 /\ t_seek0 # -1 => RedirectAnyKind \/ (t_seek0 = 1 => Seekable(old))
    /\ t_fdrop(old)
    /\ desc' = [desc EXCEPT ![new] = desc[old], ![old] = Closed]
    /\ off' = [off EXCEPT ![new] = Honest(old), ![old] = 0]
    /\ res' = Answer("DUP2", <<>>, 0, 0)
    /\ UNCHANGED <<content, dir, t_seek0, rl>>

-----------------------------------------------------------------------------
(* READ-LINE ends: with a line, at the end of the file, or with an error. *)
LineEnds(line, flag, ior) ==
    /\ res' = Answer("READ-LINE", ChopCR(line), flag, ior)
    /\ rl' = NoLine

ReadLine(fd, max) ==
    /\ Idle
    /\ IF max = 0 THEN LineEnds(<<>>, -1, 0)
       ELSE rl' = [fd |-> fd, max |-> max, line |-> <<>>] /\ UNCHANGED res
    /\ UNCHANGED <<content, dir, desc, off, t_fb, t_seek0>>

(* Its loop's body, once t_getc or t_fgetc has given a byte, or none. *)
GotByte(c) ==
    IF c = LF THEN LineEnds(rl.line, -1, 0)
    ELSE IF Len(rl.line) + 1 = rl.max THEN LineEnds(Append(rl.line, c), -1, 0)
    ELSE rl' = [rl EXCEPT !.line = Append(@, c)] /\ UNCHANGED res
GotNone(fail) == LineEnds(rl.line, IF rl.line = <<>> THEN 0 ELSE -1, IF fail THEN -200 ELSE 0)

(* A byte by its own read(2): from stdin (t_getc, where a failure is the    *)
(* end of the file), with no slot to be had, or from what cannot seek.      *)
LineByteRaw ==
    LET fd == rl.fd
        c  == ReadBytes(fd, off[fd], 1)
    IN  /\ ~Idle
        /\ fd = 0 \/ NoSlotLeft(fd) \/ t_fslot(fd).raw
        /\ t_fb' = IF fd = 0 \/ NoSlotLeft(fd) THEN t_fb ELSE [t_fb EXCEPT ![SlotOf(fd)] = t_fslot(fd)]
        /\ SysRead(fd, off[fd], Len(c))
        /\ IF c # <<>> THEN GotByte(c[1]) ELSE GotNone(fd # 0 /\ ~desc[fd].rd)
        /\ UNCHANGED <<dir, desc, t_seek0>>

(* A byte of a slot used up: the buffer is filled first. *)
LineByteFill ==
    LET fd == rl.fd
        b  == ReadBytes(fd, off[fd], FBUFSZ)
        s  == t_fslot(fd)
    IN  /\ ~Idle /\ fd # 0 /\ ~NoSlotLeft(fd) /\ ~s.raw /\ s.pos >= s.len
        /\ t_fb' = [t_fb EXCEPT ![SlotOf(fd)] =
                        IF b = <<>> THEN s ELSE [s EXCEPT !.len = Len(b), !.pos = 1, !.b = b]]
        /\ SysRead(fd, off[fd], Len(b))
        /\ IF b # <<>> THEN GotByte(b[1]) ELSE GotNone(~desc[fd].rd)
        /\ UNCHANGED <<dir, desc, t_seek0>>

(* A byte read ahead. *)
LineByteAhead ==
    LET fd == rl.fd
        s  == t_fslot(fd)
    IN  /\ ~Idle /\ fd # 0 /\ HasSlot(fd) /\ ~s.raw /\ s.pos < s.len
        /\ t_fb' = [t_fb EXCEPT ![SlotOf(fd)].pos = @ + 1]
        /\ GotByte(s.b[s.pos + 1])
        /\ UNCHANGED <<content, dir, desc, off, t_seek0>>

-----------------------------------------------------------------------------
(* t_read.  On a stdin taken to seek, a block, and what follows its first   *)
(* editing character given back; on any other, a byte a read(2) up to it.   *)
Read(u) ==
    LET can == IF t_seek0 = -1 THEN Seekable(0) ELSE t_seek0 = 1
        blk == ReadBytes(0, off[0], u)
        k   == UptoFirst(blk, T_EDIT)
    IN  /\ Idle
        /\ t_seek0' = IF u = 0 THEN t_seek0 ELSE IF can THEN 1 ELSE 0
        /\ IF can THEN /\ content' = IF Seekable(0) \/ blk = <<>> THEN content
                                     ELSE [content EXCEPT ![desc[0].file] = Past(@, Len(blk))]
                       /\ off' = [off EXCEPT ![0] = IF Seekable(0) THEN Lseek(0, @ + Len(blk), k - Len(blk)) ELSE @]
           ELSE SysRead(0, off[0], k)
        /\ res' = Answer("READ", Upto(blk, k), k, 0)
        /\ UNCHANGED <<dir, desc, t_fb, rl>>

(* READ-FILE: full_read after the slot is dropped. *)
ReadFile(fd, u) ==
    LET b == ReadBytes(fd, Honest(fd), u)
    IN  /\ Idle
        /\ t_fdrop(fd)
        /\ SysRead(fd, Honest(fd), Len(b))
        /\ res' = Answer("READ-FILE", b, Len(b), IF u > 0 /\ ~desc[fd].rd THEN -200 ELSE 0)
        /\ UNCHANGED <<dir, desc, t_seek0, rl>>

(* full_write: all of text, or k bytes of it and a failure. *)
WriteText(op, fd, text) ==
    \E k \in IF desc[fd].wr THEN 0..Len(text) ELSE {0} :
        LET f == desc[fd].file
            o == IF desc[fd].app /\ k > 0 THEN Len(content[f]) ELSE Honest(fd)
        IN  /\ Idle
            /\ k > 0 => o + k <= MaxLen
            /\ t_fdrop(fd)
            /\ content' = IF k = 0 THEN content ELSE [content EXCEPT ![f] = Put(@, o, Upto(text, k))]
            /\ off' = [off EXCEPT ![fd] = o + k]
            /\ res' = Answer(op, <<>>, 0, IF k = Len(text) THEN 0 ELSE -200)
            /\ UNCHANGED <<dir, desc, t_seek0, rl>>

(* Mutant: engine/relf.c's WRITE-LINE, which drops nothing first. *)
WriteLineNoDrop(fd, text) ==
    LET f == desc[fd].file
        o == IF desc[fd].app THEN Len(content[f]) ELSE off[fd]
    IN  /\ Idle /\ desc[fd].wr /\ o + Len(text) + 1 <= MaxLen
        /\ content' = [content EXCEPT ![f] = Put(@, o, Append(text, LF))]
        /\ off' = [off EXCEPT ![fd] = o + Len(text) + 1]
        /\ res' = Answer("WRITE-LINE", <<>>, 0, 0)
        /\ UNCHANGED <<dir, desc, t_fb, t_seek0, rl>>
WriteLine(fd, text) == WriteText("WRITE-LINE", fd, Append(text, LF))
WriteFile(fd, text) == WriteText("WRITE-FILE", fd, text)

-----------------------------------------------------------------------------
(* The positioning words, on the offset t_fdrop leaves. *)
RepositionFile(fd, p) ==
    /\ Idle
    /\ t_fdrop(fd)
    /\ off' = [off EXCEPT ![fd] = IF Seekable(fd) THEN p ELSE @]
    /\ res' = Answer("REPOSITION-FILE", <<>>, 0, IF Seekable(fd) THEN 0 ELSE 200)
    /\ UNCHANGED <<content, dir, desc, t_seek0, rl>>

(* Mutant: the kernel's offset, what was read ahead and all. *)
RawPosition(fd) ==
    /\ Idle
    /\ res' = IF Seekable(fd) THEN Answer("FILE-POSITION", <<>>, off[fd], 0)
              ELSE Answer("FILE-POSITION", <<>>, 0, 200)
    /\ UNCHANGED <<content, dir, desc, off, t_fb, t_seek0, rl>>
FilePosition(fd) ==
    /\ Idle
    /\ t_fdrop(fd)
    /\ off' = [off EXCEPT ![fd] = Honest(fd)]
    /\ res' = IF Seekable(fd) THEN Answer("FILE-POSITION", <<>>, Honest(fd), 0)
              ELSE Answer("FILE-POSITION", <<>>, 0, 200)
    /\ UNCHANGED <<content, dir, desc, t_seek0, rl>>

FileSize(fd) ==
    /\ Idle
    /\ t_fdrop(fd)
    /\ off' = [off EXCEPT ![fd] = Honest(fd)]
    /\ res' = IF Seekable(fd) THEN Answer("FILE-SIZE", <<>>, Len(content[desc[fd].file]), 0)
              ELSE Answer("FILE-SIZE", <<>>, 0, 200)
    /\ UNCHANGED <<content, dir, desc, t_seek0, rl>>

-----------------------------------------------------------------------------
Next ==
    \/ Open \/ Delete
    \/ LineByteRaw \/ LineByteFill \/ LineByteAhead
    \/ \E old, new \in Fds : Redirect(old, new)
    \/ \E u \in Counts : Read(u)
    \/ \E fd \in Fds :
        \/ CloseFile(fd) \/ FilePosition(fd) \/ FileSize(fd)
        \/ \E u \in Counts : ReadLine(fd, u) \/ ReadFile(fd, u)
        \/ \E t \in Texts : WriteLine(fd, t) \/ WriteFile(fd, t)
        \/ \E p \in Offsets : RepositionFile(fd, p)

Spec == Init /\ [][Next]_vars

-----------------------------------------------------------------------------
TypeOK ==
    /\ content \in [Files -> Seq(Byte)]
    /\ dir \subseteq Files
    /\ desc \in [Fds -> Descs]
    /\ off \in [Fds -> Nat]
    /\ t_fb \in [Slots -> [fd : Fds, len : 0..FBUFSZ, pos : 0..FBUFSZ, raw : BOOLEAN, b : Seq(Byte)]]
    /\ t_seek0 \in {-1, 0, 1}
    /\ rl \in [fd : Fds, max : Nat, line : Seq(Byte)] \cup {NoLine}

(* A descriptor has at most one slot, so t_fdrop gives back all there is.   *)
OneSlotEach == \A i, j \in Slots : t_fb[i].fd = t_fb[j].fd /\ t_fb[i].fd # 0 => i = j

(* An unused slot holds nothing: t_fdrop(0), which READ-FILE and the        *)
(* positioning words do for stdin, finds every unused slot and must not     *)
(* seek stdin by what some other file left there.                           *)
UnusedHoldsNothing == \A i \in Slots : t_fb[i].fd = 0 => t_fb[i].len = t_fb[i].pos

(* A slot that may read ahead belongs to a descriptor that can seek: a      *)
(* closed number is reused only after its slot was dropped, or is raw.  A   *)
(* raw one never holds anything.                                            *)
RawUnlessSeekable ==
    \A i \in Slots : /\ t_fb[i].fd # 0 => t_fb[i].raw \/ Seekable(t_fb[i].fd)
                     /\ t_fb[i].raw => t_fb[i].len = t_fb[i].pos

(* Bytes are read ahead only where they can be given back: on an open       *)
(* descriptor that can seek and stands at least that far into its file.     *)
Ahead(i) == t_fb[i].len - t_fb[i].pos
AheadCanGoBack ==
    \A i \in Slots :
        /\ Ahead(i) >= 0
        /\ Ahead(i) > 0 => /\ Seekable(t_fb[i].fd) /\ desc[t_fb[i].fd].rd
                           /\ Ahead(i) <= off[t_fb[i].fd]

(* What was read ahead is still what the file holds just before its offset: *)
(* no word writes a file, or moves the descriptor, behind a buffer's back.  *)
AheadIsFresh ==
    \A i \in Slots :
        LET s == t_fb[i]  c == content[desc[s.fd].file]
        IN  Ahead(i) > 0 =>
                /\ Len(s.b) = s.len /\ off[s.fd] <= Len(c)
                /\ \A k \in (s.pos + 1)..s.len : s.b[k] = c[off[s.fd] - s.len + k]

(* Who may write a file is the only one to have it open. *)
SoleWriters ==
    \A fd, g \in Fds :
        desc[fd].wr /\ desc[g].file = desc[fd].file /\ desc[fd] # Closed => fd = g

(* The inductive invariant: FileIO_proofs. *)
IInv == /\ TypeOK /\ OneSlotEach /\ UnusedHoldsNothing /\ RawUnlessSeekable
        /\ AheadCanGoBack /\ AheadIsFresh /\ SoleWriters

(* The abstract file: an offset without what was read ahead, or taken by    *)
(* the READ-LINE in progress; a pipe with what it took.                     *)
LineOf(fd) == IF rl.fd = fd THEN rl.line ELSE <<>>
Position(fd) == Honest(fd) - (IF Seekable(fd) THEN Len(LineOf(fd)) ELSE 0)
Logical == INSTANCE LogicalFile WITH
    off <- [fd \in Fds |-> Position(fd)],
    content <- [f \in Files |-> IF f \in Pipes /\ ~Idle /\ desc[rl.fd].file = f
                                THEN rl.line \o content[f] ELSE content[f]]

(* Whatever is read ahead, and whenever it is dropped, the words behave as  *)
(* LogicalFile's: one position a file, every byte delivered once.           *)
OnePosition == Logical!Spec
=============================================================================

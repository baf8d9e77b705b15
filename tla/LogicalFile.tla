---------------------------- MODULE LogicalFile ----------------------------
(***************************************************************************)
(* What the file words of the kernel promise, whatever the engine reads    *)
(* ahead: every open file has ONE position, every word works at it, a byte *)
(* is delivered once and in order, and a pipe loses no byte to a word that *)
(* did not deliver it.  READ-LINE is one step here.  FileIO implements it. *)
(***************************************************************************)
EXTENDS FileTable

(* The bytes fd has still to deliver. *)
Ahead(fd) == IF ~desc[fd].rd THEN <<>>
             ELSE IF Seekable(fd) THEN Past(content[desc[fd].file], off[fd])
             ELSE content[desc[fd].file]

Deliver(fd, k) ==
    IF k > 0 /\ Seekable(fd)
    THEN off' = [off EXCEPT ![fd] = @ + k] /\ UNCHANGED content
    ELSE IF k > 0
    THEN content' = [content EXCEPT ![desc[fd].file] = Past(@, k)] /\ UNCHANGED off
    ELSE UNCHANGED <<content, off>>

-----------------------------------------------------------------------------
CloseFile(fd) ==
    /\ fd # 0
    /\ res' = Answer("CLOSE-FILE", <<>>, 0, IF desc[fd] = Closed THEN -1 ELSE 0)
    /\ desc' = [desc EXCEPT ![fd] = Closed]
    /\ off' = [off EXCEPT ![fd] = 0]
    /\ UNCHANGED <<content, dir>>

(* DUP2 then CLOSE-FILE, as the shell redirects: new becomes old. *)
Redirect(old, new) ==
    /\ old # 0 /\ old # new /\ desc[old] # Closed
    /\ desc' = [desc EXCEPT ![new] = desc[old], ![old] = Closed]
    /\ off' = [off EXCEPT ![new] = off[old], ![old] = 0]
    /\ res' = Answer("DUP2", <<>>, 0, 0)
    /\ UNCHANGED <<content, dir>>

ReadLine(fd, max) ==
    LET w    == Upto(Ahead(fd), max)
        k    == UptoFirst(w, {LF})
        line == IF k > 0 /\ w[k] = LF THEN Upto(w, k - 1) ELSE w
    IN  /\ Deliver(fd, k)
        /\ res' = Answer("READ-LINE", ChopCR(line),
                         IF max = 0 \/ w # <<>> THEN -1 ELSE 0,
                         IF max > 0 /\ fd # 0 /\ ~desc[fd].rd THEN -200 ELSE 0)
        /\ UNCHANGED <<dir, desc>>

(* READ: at most a line, up to the first editing character, of stdin. *)
Read(u) ==
    LET w == Upto(Ahead(0), u)
        k == UptoFirst(w, T_EDIT)
    IN  /\ Deliver(0, k)
        /\ res' = Answer("READ", Upto(w, k), k, 0)
        /\ UNCHANGED <<dir, desc>>

ReadFile(fd, u) ==
    LET w == Upto(Ahead(fd), u)
    IN  /\ Deliver(fd, Len(w))
        /\ res' = Answer("READ-FILE", w, Len(w), IF u > 0 /\ ~desc[fd].rd THEN -200 ELSE 0)
        /\ UNCHANGED <<dir, desc>>

(* A word that writes text: all of it, or k bytes of it and a failure. *)
WriteText(op, fd, text) ==
    \E k \in IF desc[fd].wr THEN 0..Len(text) ELSE {0} :
        LET f == desc[fd].file
            o == IF desc[fd].app THEN Len(content[f]) ELSE off[fd]
        IN  /\ k > 0 => o + k <= MaxLen
            /\ IF k = 0 THEN UNCHANGED <<content, off>>
               ELSE /\ content' = [content EXCEPT ![f] = Put(@, o, Upto(text, k))]
                    /\ off' = [off EXCEPT ![fd] = o + k]
            /\ res' = Answer(op, <<>>, 0, IF k = Len(text) THEN 0 ELSE -200)
            /\ UNCHANGED <<dir, desc>>

WriteLine(fd, text) == WriteText("WRITE-LINE", fd, Append(text, LF))
WriteFile(fd, text) == WriteText("WRITE-FILE", fd, text)

RepositionFile(fd, p) ==
    /\ off' = IF Seekable(fd) THEN [off EXCEPT ![fd] = p] ELSE off
    /\ res' = Answer("REPOSITION-FILE", <<>>, 0, IF Seekable(fd) THEN 0 ELSE 200)
    /\ UNCHANGED <<content, dir, desc>>

FilePosition(fd) ==
    /\ res' = IF Seekable(fd) THEN Answer("FILE-POSITION", <<>>, off[fd], 0)
              ELSE Answer("FILE-POSITION", <<>>, 0, 200)
    /\ UNCHANGED <<content, dir, desc, off>>

FileSize(fd) ==
    /\ res' = IF Seekable(fd) THEN Answer("FILE-SIZE", <<>>, Len(content[desc[fd].file]), 0)
              ELSE Answer("FILE-SIZE", <<>>, 0, 200)
    /\ UNCHANGED <<content, dir, desc, off>>

Next ==
    \/ \E f \in Files : DeleteFile(f) \/ \E fam \in FamsUsed : OpenFile(f, fam)
    \/ \E old, new \in Fds : Redirect(old, new)
    \/ \E u \in Counts : Read(u)
    \/ \E fd \in Fds :
        \/ CloseFile(fd) \/ FilePosition(fd) \/ FileSize(fd)
        \/ \E u \in Counts : ReadLine(fd, u) \/ ReadFile(fd, u)
        \/ \E t \in Texts : WriteLine(fd, t) \/ WriteFile(fd, t)
        \/ \E p \in Offsets : RepositionFile(fd, p)

Spec == TableInit /\ [][Next]_table
=============================================================================

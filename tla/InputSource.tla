---------------------------- MODULE InputSource ----------------------------
(***************************************************************************)
(* forth/kernel.4's input source: SRC, #SRC, >IN and SID, which EVALUATE,  *)
(* INCLUDED and CATCH keep on the return stack and put back; HANDLER, the  *)
(* newest CATCH frame there; and INCLUDE-POINTER, where in INCLUDE-BUFFER  *)
(* the current file's line is.  A step is a word; its length stands for a  *)
(* line's text.                                                            *)
(***************************************************************************)
EXTENDS Integers, Sequences, FiniteSets

CONSTANTS LINE,                     \* READ-LINE's limit (256)
          ROOM,                     \* bound: how far INCLUDE-POINTER may come; the buffer has 512
          Fids,                     \* descriptors an included file can have
          MaxDepth                  \* bound: frames on the return stack

ASSUME InputAssumption ==
    LINE \in Nat /\ ROOM \in Nat /\ MaxDepth \in Nat /\ Fids \subseteq Nat \ {0}

VARIABLES source,                   \* SID, SRC, #SRC and >IN
          ip,                       \* INCLUDE-POINTER, from INCLUDE-BUFFER
          handler,                  \* HANDLER: a frame's place, 0 for none
          rs,                       \* the return stack's frames
          open,                     \* files open
          text                      \* whose text is where in INCLUDE-BUFFER

vars == <<source, ip, handler, rs, open, text>>

TIB == -1                           \* addresses that are not in INCLUDE-BUFFER
STR == -2

Sources == [sid : Fids \cup {0, -1}, src : {TIB, STR} \cup Nat, len : 0 .. LINE, in : 0 .. LINE]
Frames  == [kind : {"evaluate", "include", "catch"}, saved : Sources,
            ip : Nat, handler : Nat]

Depth == Len(rs)
Frame == rs[Depth]
Up    == SubSeq(rs, 1, Depth - 1)

TopIs(kind) == Depth > 0 /\ Frame.kind = kind

Push(kind) ==
    /\ Depth < MaxDepth
    /\ rs' = Append(rs, [kind |-> kind, saved |-> source, ip |-> ip, handler |-> handler])

(* READ-LINE's n bytes at an address of the buffer. *)
LineRead(fid, at, n) == text' = [a \in DOMAIN text |-> IF a \in at .. at + n - 1 THEN fid ELSE text[a]]

Terminal(n) == [sid |-> 0, src |-> TIB, len |-> n, in |-> 0]

Init ==
    /\ \E n \in 0 .. LINE : source = Terminal(n)
    /\ ip = 0 /\ handler = 0 /\ rs = <<>> /\ open = {}
    /\ text = [a \in 0 .. ROOM + LINE |-> 0]

(* WORD: the source's next word. *)
Parse ==
    /\ source.in < source.len
    /\ source' = [source EXCEPT !.in = @ + 1]
    /\ UNCHANGED <<ip, handler, rs, open, text>>

AtLineEnd == source.in = source.len

(* REFILL, by QUIT's loop and INCLUDE-FILE's. *)
Refill(n) ==
    /\ AtLineEnd
    /\ \/ Depth = 0 /\ UNCHANGED text
       \/ TopIs("include") /\ LineRead(source.sid, source.src, n)
    /\ source' = [source EXCEPT !.len = n, !.in = 0]
    /\ UNCHANGED <<ip, handler, rs, open>>

Evaluate(n) ==
    /\ Push("evaluate")
    /\ source' = [sid |-> -1, src |-> STR, len |-> n, in |-> 0]
    /\ UNCHANGED <<ip, handler, open, text>>

EndEvaluate ==
    /\ TopIs("evaluate") /\ AtLineEnd
    /\ source' = Frame.saved
    /\ rs' = Up
    /\ UNCHANGED <<ip, handler, open, text>>

(* The descriptor open(2) gives. *)
Free(fid) == fid \in Fids \ open /\ \A g \in Fids \ open : fid <= g

(* Not the code: the line read where the pointer is, #SRC not added. *)
IncludedAtPointer(fid, n) ==
    /\ Free(fid) /\ ip + source.len <= ROOM
    /\ Push("include")
    /\ open' = open \cup {fid}
    /\ source' = [sid |-> fid, src |-> ip, len |-> n, in |-> 0]
    /\ LineRead(fid, ip, n)
    /\ UNCHANGED <<ip, handler>>

(* INCLUDED: OPEN-FILE, then INCLUDE-FILE up to its first line, which goes    *)
(* after the current source's, wherever that is.                           *)
Included(fid, n) ==
    /\ Free(fid) /\ ip + source.len <= ROOM
    /\ Push("include")
    /\ open' = open \cup {fid}
    /\ ip' = ip + source.len
    /\ source' = [sid |-> fid, src |-> ip', len |-> n, in |-> 0]
    /\ LineRead(fid, ip', n)
    /\ UNCHANGED handler

(* Not the code: the file closed is the one gone back to. *)
EndClosesOuter ==
    /\ TopIs("include") /\ AtLineEnd
    /\ source' = Frame.saved
    /\ ip' = Frame.ip
    /\ rs' = Up
    /\ open' = open \ {Frame.saved.sid}
    /\ UNCHANGED <<handler, text>>

(* The file's end: INCLUDE-FILE's variables back, INCLUDED's CLOSE-FILE.      *)
EndFile ==
    /\ TopIs("include") /\ AtLineEnd
    /\ source' = Frame.saved
    /\ ip' = Frame.ip
    /\ rs' = Up
    /\ open' = open \ {source.sid}
    /\ UNCHANGED <<handler, text>>

Catch ==
    /\ Push("catch")
    /\ handler' = Depth + 1
    /\ UNCHANGED <<source, ip, open, text>>

EndCatch ==
    /\ TopIs("catch")
    /\ handler' = Frame.handler
    /\ rs' = Up
    /\ UNCHANGED <<source, ip, open, text>>

(* Not the code: THROW as it was, the source left to its EVALUATE. *)
ThrowKeepsSource ==
    /\ handler # 0
    /\ rs' = SubSeq(rs, 1, handler - 1)
    /\ handler' = rs[handler].handler
    /\ UNCHANGED <<source, ip, open, text>>

(* THROW under a CATCH.  INCLUDE-POINTER is not in its frame, and no file     *)
(* is closed.                                                              *)
Throw ==
    /\ handler # 0
    /\ rs' = SubSeq(rs, 1, handler - 1)
    /\ source' = rs[handler].saved
    /\ handler' = rs[handler].handler
    /\ UNCHANGED <<ip, open, text>>

(* Not the code: QUIT without 0 HANDLER !. *)
QuitKeepsHandler(n) ==
    /\ rs' = <<>>
    /\ source' = Terminal(n)
    /\ ip' = 0
    /\ UNCHANGED <<handler, open, text>>

(* QUIT, or a THROW no CATCH is there for: WARM, and QUIT. *)
Quit(n) ==
    /\ rs' = <<>> /\ handler' = 0
    /\ source' = Terminal(n)
    /\ ip' = 0
    /\ UNCHANGED <<open, text>>

Next ==
    \/ Parse \/ EndEvaluate \/ EndFile \/ Catch \/ EndCatch \/ Throw
    \/ \E n \in 0 .. LINE :
          \/ Refill(n) \/ Evaluate(n) \/ Quit(n)
          \/ \E fid \in Fids : Included(fid, n)

Spec == Init /\ [][Next]_vars
-----------------------------------------------------------------------------
TypeOK ==
    /\ source \in Sources /\ source.in <= source.len
    /\ ip \in Nat /\ handler \in 0 .. MaxDepth
    /\ rs \in Seq(Frames) /\ Depth <= MaxDepth
    /\ open \subseteq Fids
    /\ DOMAIN text = 0 .. ROOM + LINE /\ \A a \in DOMAIN text : text[a] \in Fids \cup {0}

IsCatch(k) == rs[k].kind = "catch"

(* HANDLER is the innermost CATCH that has not returned, and its frame says  *)
(* which is the next: no THROW cuts the stack back to a frame that is gone, *)
(* or past one that is there (kernel.4:1075).                              *)
NewestBelow(h, k) ==
    /\ h \in 0 .. k - 1
    /\ h # 0 => IsCatch(h)
    /\ \A j \in h + 1 .. k - 1 : ~IsCatch(j)

HandlerIsInnermost ==
    /\ NewestBelow(handler, Depth + 1)
    /\ \A k \in 1 .. Depth : IsCatch(k) => NewestBelow(rs[k].handler, k)

(* The files lines are still to come from: the current source and those     *)
(* kept on the stack.                                                      *)
Active == {source} \cup {rs[k].saved : k \in {j \in 1 .. Depth : ~IsCatch(j)}}

(* A file words still come from is open, and there once: nothing closed it   *)
(* under its INCLUDED (kernel.4:1471).                                     *)
FilesInUseOpen ==
    /\ \A s \in Active : s.sid > 0 => s.sid \in open
    /\ \A s, t \in Active : s.sid > 0 /\ s.sid = t.sid => s = t

(* The nest: what each frame began, at the place it was last left.           *)
LineOf(k) ==
    LET above == {j \in k + 1 .. Depth : ~IsCatch(j)}
    IN  IF above = {} THEN source ELSE rs[CHOOSE j \in above : \A i \in above : j <= i].saved
Part(kind, s) == [kind |-> kind, id |-> s.sid, len |-> s.len, in |-> s.in]
Nest ==
    [k \in 1 .. Depth + 1 |-> IF k > 1 /\ IsCatch(k - 1) THEN Part("mark", rs[k - 1].saved)
                              ELSE Part("source", LineOf(k - 1))]

(* The variables and frames nest as Nesting's sources do: words come from    *)
(* the innermost EVALUATE or file not ended, each goes on where it was, and *)
(* a THROW gives back the source CATCH began with (kernel.4:1081).          *)
Nests == INSTANCE Nesting WITH nest <- Nest
NestsAsPromised == Nests!Spec

(* A file included where no string is being evaluated is read over no line   *)
(* that words are still to come from: what was as read stays so             *)
(* (kernel.4:1461).                                                        *)
Intact(s, buffer) == s.sid > 0 => \A a \in s.src + s.in .. s.src + s.len - 1 : buffer[a] = s.sid
LinesKept ==
    [][(\A s \in Active : s.sid # -1) =>
          \A s \in Active \cap Active' : Intact(s, text) => Intact(s, text')]_vars
=============================================================================

------------------------- MODULE InputSource_proofs ------------------------
(***************************************************************************)
(* What kernel.4's input keeps, for any nesting: types, HANDLER the         *)
(* innermost CATCH, the files words still come from open, their lines kept, *)
(* and the refinement of Nesting.  All are facts of the return stack: of a  *)
(* stack r, what its frames say of the CATCHes and of the sources below.   *)
(***************************************************************************)
EXTENDS InputSource, SequenceTheorems, WellFoundedInduction, TLAPS

CatchAt(r, k) == r[k].kind = "catch"

(* h is the innermost CATCH of the frames below k. *)
Below(r, h, k) ==
    /\ h \in 0 .. k - 1
    /\ h # 0 => CatchAt(r, h)
    /\ \A j \in h + 1 .. k - 1 : ~CatchAt(r, j)

Chain(r, h) ==
    /\ Below(r, h, Len(r) + 1)
    /\ \A k \in 1 .. Len(r) : CatchAt(r, k) => Below(r, r[k].handler, k)

(* s is a source as the innermost of the first k frames began it: the       *)
(* terminal, a string or a file.                                           *)
Began(f, s) == IF f.kind = "include" THEN s.sid \in Fids ELSE s.sid = -1
SourceIn(r, s, k) ==
    /\ (\A j \in 1 .. k : CatchAt(r, j)) => s.sid = 0
    /\ \A j \in 1 .. k : ~CatchAt(r, j) /\ (\A i \in j + 1 .. k : CatchAt(r, i)) => Began(r[j], s)

(* The sources saved fit the frames they were saved over. *)
Fits(r, s, k) == s.in <= s.len /\ SourceIn(r, s, k)
Sourced(r, s) ==
    /\ Fits(r, s, Len(r))
    /\ \A k \in 1 .. Len(r) : Fits(r, r[k].saved, k - 1)

(* The inductive invariant: HandlerIsInnermost is Chain(rs, handler). *)
IInv == TypeOK /\ Chain(rs, handler) /\ Sourced(rs, source)
-----------------------------------------------------------------------------
(***************************************************************************)
(* Stacks that have n frames in common.                                    *)
(***************************************************************************)
Common(q, r, n) == n \in Nat /\ n <= Len(r) /\ n <= Len(q) /\ \A j \in 1 .. n : q[j] = r[j]

LEMMA BelowKept ==
    ASSUME NEW q, NEW r, NEW n, Common(q, r, n), NEW h, NEW k \in 1 .. n + 1, Below(r, h, k)
    PROVE  Below(q, h, k)
BY DEF Common, Below, CatchAt

LEMMA FitsKept ==
    ASSUME NEW q, NEW r, NEW n, Common(q, r, n), NEW s, NEW k \in 0 .. n, Fits(r, s, k)
    PROVE  Fits(q, s, k)
BY DEF Common, Fits, SourceIn, CatchAt

(* A frame pushed. *)
LEMMA Pushed ==
    ASSUME NEW r \in Seq(Frames), NEW f \in Frames
    PROVE  LET q == Append(r, f)
           IN  /\ q \in Seq(Frames) /\ Len(q) = Len(r) + 1 /\ q[Len(r) + 1] = f
               /\ Common(q, r, Len(r))
BY AppendProperties, LenProperties DEF Common

(* The stack cut back to below its frame h. *)
LEMMA Cut ==
    ASSUME NEW r \in Seq(Frames), NEW h \in 1 .. Len(r)
    PROVE  LET q == SubSeq(r, 1, h - 1)
           IN  q \in Seq(Frames) /\ Len(q) = h - 1 /\ Common(q, r, h - 1)
BY LenProperties DEF Common

LEMMA PushChain ==
    ASSUME NEW r \in Seq(Frames), NEW f \in Frames, NEW h, Chain(r, h)
    PROVE  /\ f.kind = "catch" /\ f.handler = h => Chain(Append(r, f), Len(r) + 1)
           /\ f.kind # "catch" => Chain(Append(r, f), h)
<1> DEFINE q == Append(r, f)
           n == Len(r)
<1>1. n \in Nat /\ Len(q) = n + 1 /\ q[n + 1] = f /\ Common(q, r, n)
  BY Pushed, LenProperties
<1> HIDE DEF q, n
<1>2. Below(r, h, n + 1) /\ \A k \in 1 .. n : CatchAt(r, k) => Below(r, r[k].handler, k)
  BY DEF Chain, n
<1>3. Below(q, h, n + 1)
  BY <1>1, <1>2, BelowKept
<1>4. \A k \in 1 .. n : CatchAt(q, k) => Below(q, q[k].handler, k)
  <2> TAKE k \in 1 .. n
  <2>1. q[k] = r[k] /\ k \in 1 .. n + 1
    BY <1>1 DEF Common
  <2>2. CatchAt(q, k) => Below(r, r[k].handler, k)
    BY <1>2, <2>1 DEF CatchAt
  <2> QED BY <1>1, <2>1, <2>2, BelowKept
<1>5. ASSUME f.kind = "catch", f.handler = h
      PROVE  Chain(q, n + 1)
  <2>1. Below(q, n + 1, n + 2)
    BY <1>1, <1>5 DEF Below, CatchAt
  <2>2. \A k \in 1 .. n + 1 : CatchAt(q, k) => Below(q, q[k].handler, k)
    BY <1>1, <1>3, <1>4, <1>5
  <2> QED BY <1>1, <2>1, <2>2 DEF Chain
<1>6. ASSUME f.kind # "catch"
      PROVE  Chain(q, h)
  <2>1. ~CatchAt(q, n + 1)
    BY <1>1, <1>6 DEF CatchAt
  <2>2. Below(q, h, n + 2)
    BY <1>1, <1>3, <2>1 DEF Below
  <2>3. \A k \in 1 .. n + 1 : CatchAt(q, k) => Below(q, q[k].handler, k)
    BY <1>1, <1>4, <2>1
  <2> QED BY <1>1, <2>2, <2>3 DEF Chain
<1> QED BY <1>5, <1>6 DEF q, n

(* A THROW goes back to the CATCH before the one it leaves; a frame that is   *)
(* no CATCH changes none.                                                  *)
LEMMA CutChain ==
    ASSUME NEW r \in Seq(Frames), NEW h, Chain(r, h), NEW c \in 1 .. Len(r),
           NEW g, \/ CatchAt(r, c) /\ g = r[c].handler
                  \/ ~CatchAt(r, c) /\ c = Len(r) /\ g = h
    PROVE  Chain(SubSeq(r, 1, c - 1), g)
<1> DEFINE q == SubSeq(r, 1, c - 1)
<1>1. Len(q) = c - 1 /\ Common(q, r, c - 1) /\ c \in Nat /\ Len(r) \in Nat
  BY Cut, LenProperties
<1>2. Below(r, g, c)
  <2>1. CASE CatchAt(r, c) /\ g = r[c].handler
    BY <2>1 DEF Chain
  <2>2. CASE ~CatchAt(r, c) /\ c = Len(r) /\ g = h
    BY <1>1, <2>2 DEF Chain, Below
  <2> QED BY <2>1, <2>2
<1>3. ASSUME NEW k \in 1 .. c - 1, CatchAt(q, k)
      PROVE  Below(q, q[k].handler, k)
  <2>1. q[k] = r[k] /\ k \in 1 .. (c - 1) + 1 /\ k \in 1 .. Len(r)
    BY <1>1 DEF Common
  <2>2. Below(r, r[k].handler, k)
    BY <1>3, <2>1 DEF Chain, CatchAt
  <2> HIDE DEF q
  <2> QED BY <1>1, <2>1, <2>2, BelowKept
<1> HIDE DEF q
<1>4. Below(q, g, c)
  BY <1>1, <1>2, BelowKept
<1>5. Chain(q, g)
  BY <1>1, <1>3, <1>4 DEF Chain
<1> QED BY <1>5 DEF q

(* A frame pushed over the source it saves: a string and a file begin       *)
(* another, a CATCH goes on with it.                                       *)
LEMMA PushSourced ==
    ASSUME NEW r \in Seq(Frames), NEW f \in Frames, NEW s, NEW t, Sourced(r, s), f.saved = s,
           t.in <= t.len,
           \/ f.kind = "catch" /\ t = s
           \/ f.kind # "catch" /\ Began(f, t)
    PROVE  Sourced(Append(r, f), t)
<1> DEFINE q == Append(r, f)
           n == Len(r)
<1>1. n \in Nat /\ Len(q) = n + 1 /\ q[n + 1] = f /\ Common(q, r, n)
  BY Pushed, LenProperties
<1> HIDE DEF q, n
<1>2. Fits(r, s, n) /\ \A k \in 1 .. n : Fits(r, r[k].saved, k - 1)
  BY DEF Sourced, n
<1>3. Fits(q, s, n)
  BY <1>1, <1>2, FitsKept
<1>4. ASSUME NEW k \in 1 .. n + 1
      PROVE  Fits(q, q[k].saved, k - 1)
  <2>1. CASE k = n + 1
    BY <1>1, <1>3, <2>1
  <2>2. CASE k \in 1 .. n
    <3>1. q[k] = r[k] /\ k - 1 \in 0 .. n
      BY <1>1, <2>2 DEF Common
    <3>2. Fits(r, r[k].saved, k - 1)
      BY <1>2, <2>2
    <3> QED BY <1>1, <3>1, <3>2, FitsKept
  <2> QED BY <1>1, <1>4, <2>1, <2>2
<1>5. Fits(q, t, n + 1)
  <2>1. CASE f.kind = "catch" /\ t = s
    <3>1. CatchAt(q, n + 1)
      BY <1>1, <2>1 DEF CatchAt
    <3>2. SourceIn(q, s, n)
      BY <1>3 DEF Fits
    <3>3. SourceIn(q, s, n + 1)
      BY <1>1, <3>1, <3>2 DEF SourceIn
    <3> QED BY <2>1, <3>3 DEF Fits
  <2>2. CASE f.kind # "catch" /\ Began(f, t)
    <3>1. ~CatchAt(q, n + 1) /\ Began(q[n + 1], t)
      BY <1>1, <2>2 DEF CatchAt
    <3>2. SourceIn(q, t, n + 1)
      BY <1>1, <3>1 DEF SourceIn
    <3> QED BY <3>2 DEF Fits
  <2> QED BY <2>1, <2>2
<1>6. Sourced(q, t)
  BY <1>1, <1>4, <1>5 DEF Sourced
<1> QED BY <1>6 DEF q

(* A stack cut back goes on with the source its frame saved. *)
LEMMA CutSourced ==
    ASSUME NEW r \in Seq(Frames), NEW s, Sourced(r, s), NEW c \in 1 .. Len(r)
    PROVE  Sourced(SubSeq(r, 1, c - 1), r[c].saved)
<1> DEFINE q == SubSeq(r, 1, c - 1)
<1>1. Len(q) = c - 1 /\ Common(q, r, c - 1) /\ c \in Nat /\ Len(r) \in Nat
  BY Cut, LenProperties
<1> HIDE DEF q
<1>2. \A k \in 1 .. Len(r) : Fits(r, r[k].saved, k - 1)
  BY DEF Sourced
<1>3. Fits(q, r[c].saved, c - 1)
  <2>1. c - 1 \in 0 .. c - 1 /\ Fits(r, r[c].saved, c - 1)
    BY <1>1, <1>2
  <2> QED BY <1>1, <2>1, FitsKept
<1>4. ASSUME NEW k \in 1 .. c - 1
      PROVE  Fits(q, q[k].saved, k - 1)
  <2>1. q[k] = r[k] /\ k - 1 \in 0 .. c - 1 /\ k \in 1 .. Len(r)
    BY <1>1 DEF Common
  <2>2. Fits(r, r[k].saved, k - 1)
    BY <1>2, <2>1
  <2> QED BY <1>1, <2>1, <2>2, FitsKept
<1>5. Sourced(q, r[c].saved)
  BY <1>1, <1>3, <1>4 DEF Sourced
<1> QED BY <1>5 DEF q

(* A CATCH that returns leaves the source where it is. *)
LEMMA ReturnSourced ==
    ASSUME NEW r \in Seq(Frames), NEW s, Sourced(r, s), Len(r) > 0, CatchAt(r, Len(r))
    PROVE  Sourced(SubSeq(r, 1, Len(r) - 1), s)
<1> DEFINE n == Len(r)
           q == SubSeq(r, 1, n - 1)
<1>1. n \in Nat /\ n \in 1 .. n /\ Len(q) = n - 1 /\ Common(q, r, n - 1)
  <2>1. n \in Nat /\ n \in 1 .. n
    BY LenProperties
  <2> QED BY <2>1, Cut
<1>2. Fits(r, s, n) /\ CatchAt(r, n)
  BY DEF Sourced
<1>3. \A k \in 1 .. n - 1 : Fits(q, q[k].saved, k - 1)
  BY <1>1, CutSourced DEF Sourced
<1> HIDE DEF n, q
<1>4. Fits(r, s, n - 1)
  BY <1>1, <1>2 DEF Fits, SourceIn
<1>5. Fits(q, s, n - 1)
  <2>1. n - 1 \in 0 .. n - 1
    BY <1>1
  <2> QED BY <1>1, <1>4, <2>1, FitsKept
<1>6. Sourced(q, s)
  BY <1>1, <1>3, <1>5 DEF Sourced
<1> QED BY <1>6 DEF n, q
-----------------------------------------------------------------------------
(***************************************************************************)
(* The steps.                                                              *)
(***************************************************************************)
LEMMA InnermostIsChain == Chain(rs, handler) => HandlerIsInnermost
BY DEF Chain, Below, CatchAt, HandlerIsInnermost, NewestBelow, IsCatch, Depth

LEMMA TopFrame ==
    ASSUME TypeOK, NEW k \in 1 .. Depth
    PROVE  rs[k] \in Frames
BY ElementOfSeq DEF TypeOK, Depth

LEMMA TextKept ==
    ASSUME TypeOK, NEW fid \in Fids, NEW at, NEW n, LineRead(fid, at, n)
    PROVE  DOMAIN text' = 0 .. ROOM + LINE /\ \A a \in DOMAIN text' : text'[a] \in Fids \cup {0}
BY DEF TypeOK, LineRead

LEMMA InitIInv == Init => IInv
<1> SUFFICES ASSUME Init PROVE IInv
  OBVIOUS
<1>1. rs = <<>> /\ rs \in Seq(Frames) /\ Len(rs) = 0
  BY EmptySeq DEF Init
<1>2. source \in Sources /\ source.in <= source.len /\ source.sid = 0
  BY InputAssumption DEF Init, Terminal, Sources
<1>3. TypeOK
  BY <1>1, <1>2, InputAssumption DEF Init, TypeOK, Depth
<1>4. Chain(rs, handler)
  BY <1>1 DEF Init, Chain, Below
<1>5. Sourced(rs, source)
  BY <1>1, <1>2 DEF Sourced, Fits, SourceIn
<1> QED BY <1>3, <1>4, <1>5 DEF IInv

(* A word, a line: the source moves on, and is the same. *)
LEMMA SameSource ==
    ASSUME IInv, source' \in Sources, source'.in <= source'.len, source'.sid = source.sid,
           UNCHANGED <<rs, handler, ip, open>>,
           DOMAIN text' = 0 .. ROOM + LINE /\ \A a \in DOMAIN text' : text'[a] \in Fids \cup {0}
    PROVE  IInv'
<1> USE DEF IInv
<1>1. TypeOK'
  BY DEF TypeOK, Depth
<1>2. Sourced(rs, source)'
  BY DEF Sourced, Fits, SourceIn, Began
<1>3. Chain(rs, handler)'
  OBVIOUS
<1> QED BY <1>1, <1>2, <1>3

LEMMA ParseIInv ==
    ASSUME IInv, Parse PROVE IInv'
<1>1. source' = [source EXCEPT !.in = source.in + 1] /\ source.in < source.len /\ source \in Sources
  BY DEF Parse, IInv, TypeOK
<1>2. source' \in Sources /\ source'.in <= source'.len /\ source'.sid = source.sid
  BY <1>1, InputAssumption DEF Sources
<1> QED BY <1>2, SameSource DEF Parse, IInv, TypeOK

LEMMA RefillIInv ==
    ASSUME IInv, NEW n \in 0 .. LINE, Refill(n) PROVE IInv'
<1>1. source' = [source EXCEPT !.len = n, !.in = 0] /\ source \in Sources
  BY DEF Refill, IInv, TypeOK
<1>2. source' \in Sources /\ source'.in <= source'.len /\ source'.sid = source.sid
  <2>1. source' = [sid |-> source.sid, src |-> source.src, len |-> n, in |-> 0]
    BY <1>1 DEF Sources
  <2>2. source.sid \in Fids \cup {0, -1} /\ source.src \in {TIB, STR} \cup Nat /\ 0 \in 0 .. LINE
    BY <1>1, InputAssumption DEF Sources
  <2> QED BY <2>1, <2>2 DEF Sources
<1>3. DOMAIN text' = 0 .. ROOM + LINE /\ \A a \in DOMAIN text' : text'[a] \in Fids \cup {0}
  <2>1. CASE UNCHANGED text
    BY <2>1 DEF IInv, TypeOK
  <2>2. CASE TopIs("include") /\ LineRead(source.sid, source.src, n)
    <3>1. Depth \in 1 .. Depth /\ Depth = Len(rs) /\ rs[Depth].kind = "include"
      BY <2>2, LenProperties DEF TopIs, Frame, IInv, TypeOK, Depth
    <3>2. ~CatchAt(rs, Depth) /\ \A i \in Depth + 1 .. Depth : CatchAt(rs, i)
      BY <3>1 DEF CatchAt
    <3>3. source.sid \in Fids
      BY <3>1, <3>2 DEF IInv, Sourced, Fits, SourceIn, Began
    <3> QED BY <2>2, <3>3, TextKept DEF IInv
  <2> QED BY <2>1, <2>2 DEF Refill
<1> QED BY <1>2, <1>3, SameSource DEF Refill

(* A new source, or a CATCH, on the stack. *)
LEMMA PushIInv ==
    ASSUME IInv, NEW kind \in {"evaluate", "include", "catch"}, Push(kind),
           source' \in Sources, source'.in <= source'.len,
           IF kind = "catch" THEN source' = source
           ELSE IF kind = "include" THEN source'.sid \in Fids ELSE source'.sid = -1,
           handler' = IF kind = "catch" THEN Depth + 1 ELSE handler,
           ip' \in Nat, open' \subseteq Fids,
           DOMAIN text' = 0 .. ROOM + LINE /\ \A a \in DOMAIN text' : text'[a] \in Fids \cup {0}
    PROVE  IInv'
<1> DEFINE f == [kind |-> kind, saved |-> source, ip |-> ip, handler |-> handler]
           n == Len(rs)
<1>1. rs \in Seq(Frames) /\ n \in Nat /\ n < MaxDepth /\ rs' = Append(rs, f)
  BY LenProperties DEF IInv, TypeOK, Depth, Push
<1>2. f \in Frames
  BY InputAssumption DEF IInv, TypeOK, Frames
<1>3. f.kind = kind /\ f.saved = source /\ f.handler = handler
  OBVIOUS
<1> HIDE DEF f
<1>4. rs' \in Seq(Frames) /\ Len(rs') = n + 1
  BY <1>1, <1>2, Pushed
<1> HIDE DEF n
<1>5. handler' \in 0 .. MaxDepth
  <2>1. handler \in 0 .. MaxDepth /\ MaxDepth \in Nat /\ n + 1 \in 0 .. MaxDepth
    BY <1>1, InputAssumption DEF IInv, TypeOK
  <2>2. handler' = n + 1 \/ handler' = handler
    BY DEF n, Depth
  <2> QED BY <2>1, <2>2
<1>6. TypeOK'
  <2>1. Len(rs') <= MaxDepth
    BY <1>1, <1>4, InputAssumption
  <2> QED BY <1>4, <1>5, <2>1 DEF TypeOK, Depth
<1>7. Chain(rs', handler')
  <2>1. Chain(rs, handler)
    BY DEF IInv
  <2>2. CASE kind = "catch"
    BY <1>1, <1>2, <1>3, <2>1, <2>2, PushChain DEF n, Depth
  <2>3. CASE kind # "catch"
    BY <1>1, <1>2, <1>3, <2>1, <2>3, PushChain
  <2> QED BY <2>2, <2>3
<1>8. Sourced(rs', source')
  <2>1. Sourced(rs, source) /\ source.in <= source.len
    BY DEF IInv, TypeOK
  <2>2. \/ f.kind = "catch" /\ source' = source
        \/ f.kind # "catch" /\ Began(f, source')
    BY <1>3 DEF Began
  <2> QED BY <1>1, <1>2, <1>3, <2>1, <2>2, PushSourced
<1> QED BY <1>6, <1>7, <1>8 DEF IInv

(* Back to below a frame: its source again, but where a CATCH returns. *)
CutBack(c) ==
    /\ rs' = SubSeq(rs, 1, c - 1)
    /\ \/ source' = rs[c].saved
       \/ c = Depth /\ CatchAt(rs, c) /\ source' = source
    /\ \/ CatchAt(rs, c) /\ handler' = rs[c].handler
       \/ ~CatchAt(rs, c) /\ c = Depth /\ handler' = handler
    /\ ip' \in Nat /\ open' \subseteq Fids /\ text' = text

LEMMA CutIInv ==
    ASSUME IInv, NEW c \in 1 .. Depth, CutBack(c)
    PROVE  IInv'
<1> USE DEF CutBack
<1>1. /\ rs \in Seq(Frames) /\ Depth = Len(rs) /\ Depth \in Nat /\ Depth <= MaxDepth
      /\ Chain(rs, handler) /\ Sourced(rs, source) /\ source \in Sources
  BY LenProperties DEF IInv, TypeOK, Depth
<1>2. rs[c] \in Frames /\ rs[c].saved \in Sources
  BY TopFrame DEF IInv, Frames
<1>3. rs' \in Seq(Frames) /\ Len(rs') = c - 1 /\ c \in Nat
  BY <1>1, Cut
<1>4. Chain(rs', handler')
  <2>1. c \in 1 .. Len(rs)
    BY <1>1
  <2> QED BY <1>1, <2>1, CutChain
<1>5. Sourced(rs', source')
  <2>1. CASE source' = rs[c].saved
    BY <1>1, <2>1, CutSourced
  <2>2. CASE c = Depth /\ CatchAt(rs, c) /\ source' = source
    BY <1>1, <2>2, ReturnSourced
  <2> QED BY <2>1, <2>2
<1>6. source' \in Sources /\ source'.in <= source'.len
  BY <1>1, <1>2, <1>5 DEF Sourced, Fits
<1>7. handler' \in 0 .. MaxDepth
  <2>1. handler' \in 0 .. (c - 1)
    BY <1>3, <1>4 DEF Chain, Below
  <2> QED BY <1>1, <2>1, InputAssumption
<1>8. TypeOK'
  BY <1>1, <1>3, <1>6, <1>7, InputAssumption DEF IInv, TypeOK, Depth
<1> QED BY <1>4, <1>5, <1>8 DEF IInv

LEMMA EvaluateIInv ==
    ASSUME IInv, NEW n \in 0 .. LINE, Evaluate(n) PROVE IInv'
<1>1. source' = [sid |-> -1, src |-> STR, len |-> n, in |-> 0]
  BY DEF Evaluate
<1>2. source' \in Sources /\ source'.in <= source'.len /\ source'.sid = -1
  BY <1>1, InputAssumption DEF Sources
<1>3. Push("evaluate") /\ UNCHANGED <<ip, handler, open, text>>
  BY DEF Evaluate
<1> QED BY <1>2, <1>3, PushIInv DEF IInv, TypeOK

LEMMA IncludedIInv ==
    ASSUME IInv, NEW fid \in Fids, NEW n \in 0 .. LINE, Included(fid, n) PROVE IInv'
<1>1. /\ Push("include") /\ UNCHANGED handler /\ open' = open \cup {fid} /\ LineRead(fid, ip', n)
      /\ ip' = ip + source.len /\ source' = [sid |-> fid, src |-> ip', len |-> n, in |-> 0]
  BY DEF Included
<1>2. ip' \in Nat /\ open' \subseteq Fids
  BY <1>1, InputAssumption DEF IInv, TypeOK, Sources
<1>3. source' \in Sources /\ source'.in <= source'.len /\ source'.sid \in Fids
  BY <1>1, <1>2, InputAssumption DEF Sources
<1>4. DOMAIN text' = 0 .. ROOM + LINE /\ \A a \in DOMAIN text' : text'[a] \in Fids \cup {0}
  BY <1>1, TextKept DEF IInv
<1> QED BY <1>1, <1>2, <1>3, <1>4, PushIInv

LEMMA CatchIInv ==
    ASSUME IInv, Catch PROVE IInv'
BY PushIInv DEF Catch, IInv, TypeOK

(* The frame on top is one. *)
LEMMA TopIsFrame ==
    ASSUME IInv, NEW kind, TopIs(kind)
    PROVE  Depth \in 1 .. Depth /\ rs[Depth] \in Frames /\ (CatchAt(rs, Depth) <=> kind = "catch")
<1>1. Depth \in Nat /\ Depth > 0
  BY LenProperties DEF TopIs, IInv, TypeOK, Depth
<1> QED BY <1>1, TopFrame DEF TopIs, Frame, CatchAt, IInv

LEMMA EndEvaluateIInv ==
    ASSUME IInv, EndEvaluate PROVE IInv'
<1>1. Depth \in 1 .. Depth /\ ~CatchAt(rs, Depth)
  BY TopIsFrame DEF EndEvaluate
<1>2. /\ rs' = SubSeq(rs, 1, Depth - 1) /\ source' = rs[Depth].saved
      /\ UNCHANGED <<ip, handler, open, text>>
  BY DEF EndEvaluate, Up, Frame
<1>3. ip' \in Nat /\ open' \subseteq Fids
  BY <1>2 DEF IInv, TypeOK
<1>4. CutBack(Depth)
  BY <1>1, <1>2, <1>3 DEF CutBack
<1> QED BY <1>1, <1>4, CutIInv

LEMMA EndFileIInv ==
    ASSUME IInv, EndFile PROVE IInv'
<1>1. Depth \in 1 .. Depth /\ rs[Depth] \in Frames /\ ~CatchAt(rs, Depth)
  BY TopIsFrame DEF EndFile
<1>2. /\ rs' = SubSeq(rs, 1, Depth - 1) /\ source' = rs[Depth].saved /\ ip' = rs[Depth].ip
      /\ open' = open \ {source.sid} /\ UNCHANGED <<handler, text>>
  BY DEF EndFile, Up, Frame
<1>3. ip' \in Nat /\ open' \subseteq Fids
  BY <1>1, <1>2 DEF Frames, IInv, TypeOK
<1>4. CutBack(Depth)
  BY <1>1, <1>2, <1>3 DEF CutBack
<1> QED BY <1>1, <1>4, CutIInv

LEMMA EndCatchIInv ==
    ASSUME IInv, EndCatch PROVE IInv'
<1>1. Depth \in 1 .. Depth /\ CatchAt(rs, Depth)
  BY TopIsFrame DEF EndCatch
<1>2. /\ rs' = SubSeq(rs, 1, Depth - 1) /\ handler' = rs[Depth].handler
      /\ UNCHANGED <<source, ip, open, text>>
  BY DEF EndCatch, Up, Frame
<1>3. ip' \in Nat /\ open' \subseteq Fids
  BY <1>2 DEF IInv, TypeOK
<1>4. CutBack(Depth)
  BY <1>1, <1>2, <1>3 DEF CutBack
<1> QED BY <1>1, <1>4, CutIInv

LEMMA ThrowIInv ==
    ASSUME IInv, Throw PROVE IInv'
<1>1. /\ handler # 0 /\ rs' = SubSeq(rs, 1, handler - 1) /\ source' = rs[handler].saved
      /\ handler' = rs[handler].handler /\ UNCHANGED <<ip, open, text>>
  BY DEF Throw
<1>2. handler \in 1 .. Depth /\ CatchAt(rs, handler)
  BY <1>1, LenProperties DEF IInv, TypeOK, Chain, Below, Depth
<1>3. ip' \in Nat /\ open' \subseteq Fids
  BY <1>1 DEF IInv, TypeOK
<1>4. CutBack(handler)
  BY <1>1, <1>2, <1>3 DEF CutBack
<1> QED BY <1>2, <1>4, CutIInv

LEMMA QuitIInv ==
    ASSUME IInv, NEW n \in 0 .. LINE, Quit(n) PROVE IInv'
<1>1. rs' = <<>> /\ rs' \in Seq(Frames) /\ Len(rs') = 0 /\ handler' = 0 /\ ip' = 0
  BY EmptySeq DEF Quit
<1>2. source' \in Sources /\ source'.in <= source'.len /\ source'.sid = 0
  BY InputAssumption DEF Quit, Terminal, Sources
<1>3. TypeOK'
  BY <1>1, <1>2, InputAssumption DEF Quit, IInv, TypeOK, Depth
<1>4. Chain(rs', handler')
  BY <1>1 DEF Chain, Below
<1>5. Sourced(rs', source')
  BY <1>1, <1>2 DEF Sourced, Fits, SourceIn
<1> QED BY <1>3, <1>4, <1>5 DEF IInv

LEMMA Inductive == IInv /\ [Next]_vars => IInv'
<1> SUFFICES ASSUME IInv, [Next]_vars PROVE IInv'
  OBVIOUS
<1>1. CASE Parse
  BY <1>1, ParseIInv
<1>2. CASE EndEvaluate
  BY <1>2, EndEvaluateIInv
<1>3. CASE EndFile
  BY <1>3, EndFileIInv
<1>4. CASE Catch
  BY <1>4, CatchIInv
<1>5. CASE EndCatch
  BY <1>5, EndCatchIInv
<1>6. CASE Throw
  BY <1>6, ThrowIInv
<1>7. ASSUME NEW n \in 0 .. LINE, Refill(n) PROVE IInv'
  BY <1>7, RefillIInv
<1>8. ASSUME NEW n \in 0 .. LINE, Evaluate(n) PROVE IInv'
  BY <1>8, EvaluateIInv
<1>9. ASSUME NEW n \in 0 .. LINE, Quit(n) PROVE IInv'
  BY <1>9, QuitIInv
<1>10. ASSUME NEW n \in 0 .. LINE, NEW fid \in Fids, Included(fid, n) PROVE IInv'
  BY <1>10, IncludedIInv
<1>11. CASE UNCHANGED vars
  BY <1>11 DEF vars, IInv, TypeOK, Depth, Chain, Below, CatchAt, Sourced, Fits, SourceIn, Began
<1> QED
  BY <1>1, <1>2, <1>3, <1>4, <1>5, <1>6, <1>7, <1>8, <1>9, <1>10, <1>11 DEF Next

(* The inductive invariant holds throughout. *)
THEOREM Invariant == Spec => []IInv
BY InitIInv, Inductive, PTL DEF Spec

(* Every source has its place in its line, lines their place in the buffer,  *)
(* and the descriptors of the files are those open(2) gave: whatever words   *)
(* of kernel.4 are nested and thrown out of.                               *)
THEOREM TypeCorrect == Spec => []TypeOK
<1>1. IInv => TypeOK
  BY DEF IInv
<1> QED BY <1>1, Invariant, PTL

(* HANDLER is the innermost CATCH that has not returned, and its frame says  *)
(* which is the next (kernel.4:1075).                                      *)
THEOREM HandlerInnermostAlways == Spec => []HandlerIsInnermost
<1>1. IInv => HandlerIsInnermost
  BY InnermostIsChain DEF IInv
<1> QED BY <1>1, Invariant, PTL
-----------------------------------------------------------------------------
(***************************************************************************)
(* The files words still come from.  Sid(r, s, k) is the descriptor the     *)
(* words came from when the stack was its first k frames, which the next   *)
(* frame saved, or the source has still.                                   *)
(***************************************************************************)
Sid(r, s, k) == IF k = Len(r) THEN s.sid ELSE r[k + 1].saved.sid

(* A CATCH reads on from where it was called; what was read from is open;   *)
(* and what is read from under a string or a file is not read from over it. *)
Opened(r, s, o) ==
    /\ \A j \in 1 .. Len(r) : CatchAt(r, j) => Sid(r, s, j) = Sid(r, s, j - 1)
    /\ \A i \in 0 .. Len(r) : Sid(r, s, i) > 0 => Sid(r, s, i) \in o
    /\ \A j \in 0 .. Len(r) : \A i \in 0 .. j - 1 :
          Sid(r, s, i) > 0 /\ (\E k \in i + 1 .. j : ~CatchAt(r, k)) => Sid(r, s, i) # Sid(r, s, j)

LEMMA PushOpened ==
    ASSUME NEW r \in Seq(Frames), NEW f \in Frames, NEW s, NEW o, Opened(r, s, o), f.saved = s,
           NEW t, NEW p,
           \/ f.kind = "catch" /\ t.sid = s.sid /\ p = o
           \/ f.kind = "evaluate" /\ t.sid = -1 /\ p = o
           \/ f.kind = "include" /\ t.sid \in Fids \ o /\ p = o \cup {t.sid}
    PROVE  Opened(Append(r, f), t, p)
<1> DEFINE q == Append(r, f)
           n == Len(r)
<1>1. n \in Nat /\ Len(q) = n + 1 /\ q[n + 1] = f /\ Common(q, r, n)
  BY Pushed, LenProperties
<1> HIDE DEF q
<1>2. \A k \in 0 .. n : Sid(q, t, k) = Sid(r, s, k)
  BY <1>1 DEF Sid, Common
<1>3. Sid(q, t, n + 1) = t.sid /\ Sid(r, s, n) = s.sid
  BY <1>1 DEF Sid
<1>4. (\A k \in 1 .. n : CatchAt(q, k) <=> CatchAt(r, k)) /\ (CatchAt(q, n + 1) <=> f.kind = "catch")
  BY <1>1 DEF CatchAt, Common
<1> HIDE DEF n
<1>5. ASSUME NEW j \in 1 .. n + 1, CatchAt(q, j)
      PROVE  Sid(q, t, j) = Sid(q, t, j - 1)
  <2>1. CASE j = n + 1
    BY <2>1, <1>1, <1>2, <1>3, <1>4, <1>5
  <2>2. CASE j \in 1 .. n
    <3>1. Sid(r, s, j) = Sid(r, s, j - 1)
      BY <2>2, <1>4, <1>5 DEF Opened, n
    <3> QED
      BY <3>1, <2>2, <1>1, <1>2
  <2> QED
    BY <2>1, <2>2, <1>1
<1>6. ASSUME NEW i \in 0 .. n + 1, Sid(q, t, i) > 0
      PROVE  Sid(q, t, i) \in p
  <2>1. CASE i = n + 1
    <3>1. CASE f.kind = "catch"
      <4>1. n \in 0 .. n /\ Sid(r, s, n) > 0
        BY <3>1, <2>1, <1>1, <1>3, <1>6
      <4> QED
        BY <4>1, <3>1, <2>1, <1>3 DEF Opened, n
    <3>2. CASE f.kind # "catch"
      BY <3>2, <2>1, <1>3, <1>6
    <3> QED
      BY <3>1, <3>2
  <2>2. CASE i \in 0 .. n
    <3>1. Sid(r, s, i) \in o
      BY <2>2, <1>2, <1>6 DEF Opened, n
    <3> QED
      BY <3>1, <2>2, <1>2
  <2> QED
    BY <2>1, <2>2, <1>1
<1>7. ASSUME NEW j \in 0 .. n + 1, NEW i \in 0 .. j - 1, Sid(q, t, i) > 0,
             NEW k \in i + 1 .. j, ~CatchAt(q, k)
      PROVE  Sid(q, t, i) # Sid(q, t, j)
  <2>0. i \in 0 .. n /\ Sid(q, t, i) = Sid(r, s, i) /\ Sid(r, s, i) \in o
    BY <1>1, <1>2, <1>7 DEF Opened, n
  <2>1. CASE j \in 0 .. n
    <3>1. ~CatchAt(r, k)
      BY <2>1, <1>1, <1>4, <1>7
    <3>2. Sid(r, s, i) # Sid(r, s, j)
      BY <2>0, <2>1, <3>1, <1>7 DEF Opened, n
    <3> QED
      BY <3>2, <2>0, <2>1, <1>2
  <2>2. CASE j = n + 1 /\ f.kind = "catch"
    <3>1. k \in i + 1 .. n /\ ~CatchAt(r, k)
      BY <2>2, <1>1, <1>4, <1>7
    <3>2. n \in 0 .. n /\ i \in 0 .. n - 1
      BY <3>1, <2>0, <1>1
    <3>3. Sid(r, s, i) # Sid(r, s, n)
      BY <2>0, <3>1, <3>2, <1>7 DEF Opened, n
    <3> QED
      BY <3>3, <2>0, <2>2, <1>3
  <2>3. CASE j = n + 1 /\ f.kind # "catch"
    BY <2>0, <2>3, <1>3, <1>7
  <2> QED
    BY <2>1, <2>2, <2>3, <1>1
<1>8. Opened(q, t, p)
  BY <1>1, <1>5, <1>6, <1>7 DEF Opened
<1> QED
  BY <1>8 DEF q

LEMMA CutOpened ==
    ASSUME NEW r \in Seq(Frames), NEW s, NEW o, Opened(r, s, o), NEW c \in 1 .. Len(r),
           NEW t, t.sid = r[c].saved.sid, NEW p,
           \/ p = o
           \/ p = o \ {s.sid} /\ c = Len(r) /\ ~CatchAt(r, c)
    PROVE  Opened(SubSeq(r, 1, c - 1), t, p)
<1> DEFINE q == SubSeq(r, 1, c - 1)
<1>1. Len(q) = c - 1 /\ Common(q, r, c - 1) /\ c \in Nat /\ Len(r) \in Nat
  BY Cut, LenProperties
<1> HIDE DEF q
<1>2. \A k \in 0 .. c - 1 : Sid(q, t, k) = Sid(r, s, k)
  BY <1>1 DEF Sid, Common
<1>3. \A k \in 1 .. c - 1 : CatchAt(q, k) <=> CatchAt(r, k)
  BY <1>1 DEF CatchAt, Common
<1>4. ASSUME NEW j \in 1 .. c - 1, CatchAt(q, j)
      PROVE  Sid(q, t, j) = Sid(q, t, j - 1)
  <2>1. Sid(r, s, j) = Sid(r, s, j - 1)
    BY <1>1, <1>3, <1>4 DEF Opened
  <2> QED
    BY <2>1, <1>1, <1>2
<1>5. ASSUME NEW i \in 0 .. c - 1, Sid(q, t, i) > 0
      PROVE  Sid(q, t, i) \in p
  <2>1. Sid(r, s, i) > 0 /\ Sid(r, s, i) \in o /\ Sid(q, t, i) = Sid(r, s, i)
    BY <1>1, <1>2, <1>5 DEF Opened
  <2>2. ASSUME c = Len(r), ~CatchAt(r, c)
        PROVE  Sid(r, s, i) # s.sid
    <3>1. c \in 0 .. Len(r) /\ i \in 0 .. c - 1 /\ c \in i + 1 .. c
      BY <1>1
    <3>2. Sid(r, s, i) # Sid(r, s, c)
      BY <2>1, <2>2, <3>1 DEF Opened
    <3> QED
      BY <3>2, <2>2 DEF Sid
  <2> QED
    BY <2>1, <2>2
<1>6. ASSUME NEW j \in 0 .. c - 1, NEW i \in 0 .. j - 1, Sid(q, t, i) > 0,
             NEW k \in i + 1 .. j, ~CatchAt(q, k)
      PROVE  Sid(q, t, i) # Sid(q, t, j)
  <2>1. j \in 0 .. Len(r) /\ i \in 0 .. c - 1 /\ k \in 1 .. c - 1
    BY <1>1
  <2>2. Sid(r, s, i) > 0 /\ ~CatchAt(r, k)
    BY <2>1, <1>2, <1>3, <1>6
  <2>3. Sid(r, s, i) # Sid(r, s, j)
    BY <2>1, <2>2 DEF Opened
  <2> QED
    BY <2>1, <2>3, <1>2
<1>7. Opened(q, t, p)
  BY <1>1, <1>4, <1>5, <1>6 DEF Opened
<1> QED
  BY <1>7 DEF q

(* A step keeps it: what pushes is EVALUATE, INCLUDED, CATCH; what cuts is  *)
(* their ends and THROW.                                                   *)
OpenInv == Opened(rs, source, open)

LEMMA OpenedKept ==
    ASSUME IInv, OpenInv, source'.sid = source.sid, UNCHANGED <<rs, open>>
    PROVE  OpenInv'
<1>1. \A k : Sid(rs', source', k) = Sid(rs, source, k)
  BY DEF Sid
<1>2. Opened(rs', source', open')
  BY <1>1 DEF OpenInv, Opened, CatchAt
<1> QED
  BY <1>2 DEF OpenInv, Opened, Sid, CatchAt

LEMMA PushOpenInv ==
    ASSUME IInv, OpenInv, NEW kind \in {"evaluate", "include", "catch"}, Push(kind),
           \/ kind = "catch" /\ source'.sid = source.sid /\ open' = open
           \/ kind = "evaluate" /\ source'.sid = -1 /\ open' = open
           \/ kind = "include" /\ source'.sid \in Fids \ open /\ open' = open \cup {source'.sid}
    PROVE  OpenInv'
<1> DEFINE f == [kind |-> kind, saved |-> source, ip |-> ip, handler |-> handler]
<1>1. rs \in Seq(Frames) /\ rs' = Append(rs, f)
  BY DEF IInv, TypeOK, Push
<1>2. f \in Frames
  BY InputAssumption DEF IInv, TypeOK, Frames
<1>3. f.kind = kind /\ f.saved = source
  OBVIOUS
<1> HIDE DEF f
<1>4. Opened(Append(rs, f), source', open')
  BY <1>1, <1>2, <1>3, PushOpened DEF OpenInv
<1>5. Opened(rs', source', open')
  BY <1>1, <1>4
<1> QED
  BY <1>5 DEF OpenInv, Opened, Sid, CatchAt

LEMMA CutOpenInv ==
    ASSUME IInv, OpenInv, NEW c \in 1 .. Depth, rs' = SubSeq(rs, 1, c - 1),
           source'.sid = rs[c].saved.sid,
           \/ open' = open
           \/ open' = open \ {source.sid} /\ c = Depth /\ ~CatchAt(rs, c)
    PROVE  OpenInv'
<1>1. rs \in Seq(Frames) /\ Depth = Len(rs)
  BY DEF IInv, TypeOK, Depth
<1>2. Opened(SubSeq(rs, 1, c - 1), source', open')
  BY <1>1, CutOpened DEF OpenInv
<1>3. Opened(rs', source', open')
  BY <1>2
<1> QED
  BY <1>3 DEF OpenInv, Opened, Sid, CatchAt

LEMMA OpenInductive == IInv /\ OpenInv /\ [Next]_vars => OpenInv'
<1> SUFFICES ASSUME IInv, OpenInv, [Next]_vars PROVE OpenInv'
  OBVIOUS
<1>1. CASE Parse
  <2>1. source'.sid = source.sid
    BY <1>1 DEF Parse, IInv, TypeOK, Sources
  <2> QED
    BY <1>1, <2>1, OpenedKept DEF Parse
<1>2. CASE EndEvaluate
  <2>1. Depth \in 1 .. Depth /\ rs' = SubSeq(rs, 1, Depth - 1) /\ source' = rs[Depth].saved /\ open' = open
    BY <1>2, TopIsFrame DEF EndEvaluate, Up, Frame
  <2> QED
    BY <2>1, CutOpenInv
<1>3. CASE EndFile
  <2>1. /\ Depth \in 1 .. Depth /\ rs' = SubSeq(rs, 1, Depth - 1) /\ source' = rs[Depth].saved
        /\ open' = open \ {source.sid} /\ ~CatchAt(rs, Depth)
    BY <1>3, TopIsFrame DEF EndFile, Up, Frame
  <2> QED
    BY <2>1, CutOpenInv
<1>4. CASE Catch
  BY <1>4, PushOpenInv DEF Catch
<1>5. CASE EndCatch
  <2>1. /\ Depth \in 1 .. Depth /\ rs' = SubSeq(rs, 1, Depth - 1) /\ source' = source
        /\ open' = open /\ CatchAt(rs, Depth)
    BY <1>5, TopIsFrame DEF EndCatch, Up, Frame
  <2>2. Len(rs) \in Nat /\ Depth = Len(rs)
    BY LenProperties DEF IInv, TypeOK, Depth
  <2>3. Sid(rs, source, Depth) = Sid(rs, source, Depth - 1)
    BY <2>1, <2>2 DEF OpenInv, Opened
  <2>4. source'.sid = rs[Depth].saved.sid
    BY <2>1, <2>2, <2>3 DEF Sid
  <2> QED
    BY <2>1, <2>4, CutOpenInv
<1>6. CASE Throw
  <2>1. handler \in 1 .. Depth
    BY <1>6, LenProperties DEF Throw, IInv, TypeOK, Chain, Below, Depth
  <2> QED
    BY <1>6, <2>1, CutOpenInv DEF Throw
<1>7. ASSUME NEW n \in 0 .. LINE, Refill(n) PROVE OpenInv'
  <2>1. source'.sid = source.sid
    BY <1>7 DEF Refill, IInv, TypeOK, Sources
  <2> QED
    BY <1>7, <2>1, OpenedKept DEF Refill
<1>8. ASSUME NEW n \in 0 .. LINE, Evaluate(n) PROVE OpenInv'
  BY <1>8, PushOpenInv DEF Evaluate
<1>9. ASSUME NEW n \in 0 .. LINE, Quit(n) PROVE OpenInv'
  <2>1. rs' = <<>> /\ Len(rs') = 0 /\ source'.sid = 0
    BY <1>9, EmptySeq DEF Quit, Terminal
  <2> QED
    BY <2>1 DEF OpenInv, Opened, Sid
<1>10. ASSUME NEW n \in 0 .. LINE, NEW fid \in Fids, Included(fid, n) PROVE OpenInv'
  <2>1. source'.sid = fid /\ fid \notin open /\ open' = open \cup {fid} /\ Push("include")
    BY <1>10 DEF Included, Free
  <2> QED
    BY <2>1, PushOpenInv
<1>11. CASE UNCHANGED vars
  BY <1>11, OpenedKept DEF vars
<1> QED
  BY <1>1, <1>2, <1>3, <1>4, <1>5, <1>6, <1>7, <1>8, <1>9, <1>10, <1>11 DEF Next

LEMMA OpenInvAlways == Spec => []OpenInv
<1>1. Init => OpenInv
  <2> SUFFICES ASSUME Init PROVE OpenInv
    OBVIOUS
  <2>1. Len(rs) = 0 /\ source.sid = 0
    BY EmptySeq DEF Init, Terminal
  <2> QED
    BY <2>1 DEF OpenInv, Opened, Sid
<1> QED
  BY <1>1, OpenInductive, Invariant, PTL DEF Spec

(* A file that words still come from, now or once what is over it ends, is   *)
(* open, and no other source reads from its descriptor: nothing closes it   *)
(* under its INCLUDED, at any depth of strings, files and CATCHes thrown    *)
(* out of anywhere (kernel.4:1471).                                        *)
THEOREM FilesInUseOpenAlways == Spec => []FilesInUseOpen
<1>1. IInv /\ OpenInv => FilesInUseOpen
  <2> SUFFICES ASSUME IInv, OpenInv PROVE FilesInUseOpen
    OBVIOUS
  <2>1. Depth \in Nat /\ Depth = Len(rs)
    BY LenProperties DEF IInv, TypeOK, Depth
  <2> DEFINE At(k) == IF k = Depth + 1 THEN source ELSE rs[k].saved
             Places == {k \in 1 .. Depth + 1 : k <= Depth => ~CatchAt(rs, k)}
  <2>2. \A s \in Active : \E k \in Places : s = At(k)
    <3>1. ASSUME NEW s \in Active
          PROVE  \E k \in Places : s = At(k)
      <4>1. CASE s = source
        <5>1. Depth + 1 \in Places
          BY <2>1
        <5> QED
          BY <4>1, <5>1
      <4>2. CASE \E k \in 1 .. Depth : ~CatchAt(rs, k) /\ s = rs[k].saved
        <5>1. PICK k \in 1 .. Depth : ~CatchAt(rs, k) /\ s = rs[k].saved
          BY <4>2
        <5>2. k \in Places /\ k # Depth + 1
          BY <2>1, <5>1
        <5> QED
          BY <5>1, <5>2
      <4> QED
        BY <3>1, <4>1, <4>2 DEF Active, IsCatch, CatchAt
    <3> QED
      BY <3>1
  <2>3. \A k \in Places : At(k).sid = Sid(rs, source, k - 1) /\ k - 1 \in 0 .. Len(rs)
    BY <2>1 DEF Sid
  <2>4. ASSUME NEW i \in Places, NEW j \in Places, i < j, At(i).sid > 0
        PROVE  At(i).sid # At(j).sid
    <3>1. /\ j - 1 \in 0 .. Len(rs) /\ i - 1 \in 0 .. (j - 1) - 1 /\ i \in (i - 1) + 1 .. j - 1
          /\ ~CatchAt(rs, i)
      BY <2>1, <2>4
    <3>2. Sid(rs, source, i - 1) > 0
      BY <2>3, <2>4
    <3>3. Sid(rs, source, i - 1) # Sid(rs, source, j - 1)
      BY <3>1, <3>2 DEF OpenInv, Opened
    <3> QED
      BY <2>3, <3>3
  <2>5. ASSUME NEW s \in Active, s.sid > 0
        PROVE  s.sid \in open
    BY <2>2, <2>3, <2>5 DEF OpenInv, Opened
  <2>6. ASSUME NEW s \in Active, NEW t \in Active, s.sid > 0, s.sid = t.sid
        PROVE  s = t
    <3>1. PICK i \in Places : s = At(i)
      BY <2>2
    <3>2. PICK j \in Places : t = At(j)
      BY <2>2
    <3>3. i \in Nat /\ j \in Nat
      BY <2>1
    <3> HIDE DEF At, Places
    <3>4. ~(i < j) /\ ~(j < i)
      BY <2>4, <2>6, <3>1, <3>2
    <3> QED
      BY <3>1, <3>2, <3>3, <3>4
  <2> QED
    BY <2>5, <2>6 DEF FilesInUseOpen
<1> QED
  BY <1>1, Invariant, OpenInvAlways, PTL
-----------------------------------------------------------------------------
(***************************************************************************)
(* The nest a stack and a source stand for.  Last(r, c): c is the frame     *)
(* words come from the source of, 0 for the terminal.                      *)
(***************************************************************************)
Last(r, c) ==
    /\ c \in 0 .. Len(r)
    /\ c # 0 => ~CatchAt(r, c)
    /\ \A j \in c + 1 .. Len(r) : CatchAt(r, j)

Over(r, k) == {j \in k + 1 .. Len(r) : ~CatchAt(r, j)}
LineIn(r, s, k) ==
    IF Over(r, k) = {} THEN s
    ELSE r[CHOOSE j \in Over(r, k) : \A i \in Over(r, k) : j <= i].saved
Entry(r, s, k) ==
    IF k > 1 /\ CatchAt(r, k - 1) THEN Part("mark", r[k - 1].saved) ELSE Part("source", LineIn(r, s, k - 1))
NestIn(r, s) == [k \in 1 .. Len(r) + 1 |-> Entry(r, s, k)]

Lt == {p \in Nat \X Nat : p[1] < p[2]}

LEMMA LeastOf ==
    ASSUME NEW T \in SUBSET Nat, T # {}
    PROVE  \E x \in T : \A y \in T : x <= y
<1>1. Lt = OpToRel(<, Nat)
  BY Zenon DEF Lt, OpToRel
<1>2. IsWellFoundedOn(Lt, Nat)
  BY <1>1, NatLessThanWellFounded, Zenon
<1>3. PICK x \in T : \A y \in T : ~(<<y, x>> \in Lt)
  BY <1>2, WFMin, Zenon
<1>4. \A y \in T : ~(y < x)
  BY <1>3 DEF Lt
<1> QED
  BY <1>4

LEMMA LastIs ==
    ASSUME NEW r \in Seq(Frames)
    PROVE  \E c : Last(r, c)
<1> DEFINE n == Len(r)
           T == {d \in 0 .. n : d = n \/ ~CatchAt(r, n - d)}
<1>1. n \in Nat
  BY LenProperties
<1>2. T \in SUBSET Nat /\ n \in T
  BY <1>1
<1>3. PICK d \in T : \A e \in T : d <= e
  BY <1>2, LeastOf
<1>4. \A j \in (n - d) + 1 .. n : n - j \in 0 .. n /\ ~(d <= n - j) /\ n - (n - j) = j
  BY <1>1, <1>3
<1>5. \A j \in (n - d) + 1 .. n : CatchAt(r, j)
  BY <1>3, <1>4
<1>6. n - d \in 0 .. n /\ (n - d # 0 => ~CatchAt(r, n - d))
  BY <1>1, <1>3
<1> QED
  BY <1>5, <1>6 DEF Last

(* The source of frame k: kept by the next frame over it that is no CATCH,   *)
(* or the current one.                                                     *)
LEMMA LineOver ==
    ASSUME NEW r \in Seq(Frames), NEW s, NEW k \in 0 .. Len(r)
    PROVE  \/ (\A j \in k + 1 .. Len(r) : CatchAt(r, j)) /\ LineIn(r, s, k) = s
           \/ \E j \in k + 1 .. Len(r) :
                 /\ ~CatchAt(r, j) /\ \A i \in k + 1 .. j - 1 : CatchAt(r, i)
                 /\ LineIn(r, s, k) = r[j].saved
<1>1. CASE Over(r, k) = {}
  BY <1>1 DEF Over, LineIn
<1>2. CASE Over(r, k) # {}
  <2>1. Over(r, k) \in SUBSET Nat
    BY LenProperties DEF Over
  <2>2. \E j \in Over(r, k) : \A i \in Over(r, k) : j <= i
    BY <1>2, <2>1, LeastOf
  <2> DEFINE j == CHOOSE j \in Over(r, k) : \A i \in Over(r, k) : j <= i
  <2>3. j \in Over(r, k) /\ \A i \in Over(r, k) : j <= i
    BY <2>2
  <2>4. LineIn(r, s, k) = r[j].saved
    BY <1>2 DEF LineIn
  <2> HIDE DEF j
  <2>5. \A i \in k + 1 .. j - 1 : i \in k + 1 .. Len(r) /\ ~(j <= i)
    BY <2>1, <2>3, LenProperties DEF Over
  <2> QED
    BY <2>3, <2>4, <2>5 DEF Over
<1> QED
  BY <1>1, <1>2

LEMMA LineIsFirst ==
    ASSUME NEW r \in Seq(Frames), NEW s, NEW k \in 0 .. Len(r),
           NEW j \in k + 1 .. Len(r), ~CatchAt(r, j), \A i \in k + 1 .. j - 1 : CatchAt(r, i)
    PROVE  LineIn(r, s, k) = r[j].saved
<1>1. PICK i \in k + 1 .. Len(r) :
         ~CatchAt(r, i) /\ (\A h \in k + 1 .. i - 1 : CatchAt(r, h)) /\ LineIn(r, s, k) = r[i].saved
  BY LineOver
<1>2. i \in Nat /\ j \in Nat /\ ~(i < j) /\ ~(j < i)
  BY <1>1, LenProperties
<1> QED
  BY <1>1, <1>2

LEMMA LineIsCurrent ==
    ASSUME NEW r \in Seq(Frames), NEW s, NEW k \in 0 .. Len(r), \A j \in k + 1 .. Len(r) : CatchAt(r, j)
    PROVE  LineIn(r, s, k) = s
BY LineOver

(* What two stacks have in common they have in the nest, but for the source  *)
(* words come from.                                                        *)
LEMMA LineKept ==
    ASSUME NEW r \in Seq(Frames), NEW q \in Seq(Frames), Common(q, r, Len(q)), NEW s, NEW t,
           NEW c, Last(q, c), NEW k \in 0 .. Len(q)
    PROVE  /\ k < c => LineIn(q, t, k) = LineIn(r, s, k)
           /\ k = c => LineIn(q, t, k) = t
           /\ k > c => CatchAt(q, k)
<1>1. Len(q) \in Nat /\ Len(r) \in Nat /\ Len(q) <= Len(r) /\ c \in 0 .. Len(q)
  BY LenProperties DEF Common, Last
<1>2. CASE k = c
  BY <1>2, LineIsCurrent DEF Last
<1>3. CASE k > c
  BY <1>1, <1>3 DEF Last
<1>4. CASE k < c
  <2>1. c \in k + 1 .. Len(q) /\ ~CatchAt(q, c)
    BY <1>1, <1>4 DEF Last
  <2>2. PICK j \in k + 1 .. Len(q) :
           ~CatchAt(q, j) /\ (\A i \in k + 1 .. j - 1 : CatchAt(q, i)) /\ LineIn(q, t, k) = q[j].saved
    BY <2>1, LineOver
  <2>3. j \in k + 1 .. Len(r) /\ \A i \in k + 1 .. j : q[i] = r[i]
    BY <1>1, <2>2 DEF Common
  <2>4. q[j] = r[j] /\ ~CatchAt(r, j) /\ \A i \in k + 1 .. j - 1 : CatchAt(r, i)
    BY <2>2, <2>3 DEF CatchAt
  <2>5. k \in 0 .. Len(r)
    BY <1>1
  <2>6. LineIn(r, s, k) = r[j].saved
    BY <2>3, <2>4, <2>5, LineIsFirst
  <2>7. k # c /\ ~(k > c)
    BY <1>1, <1>4
  <2>8. LineIn(q, t, k) = LineIn(r, s, k)
    BY <2>2, <2>4, <2>6
  <2> QED
    BY <2>7, <2>8
<1>5. c \in Int /\ k \in Int
  BY <1>1
<1>6. k = c \/ k > c \/ k < c
  BY <1>5
<1> QED
  BY <1>2, <1>3, <1>4, <1>6, Zenon

LEMMA NestCurrent ==
    ASSUME NEW q \in Seq(Frames), NEW t, NEW c, Last(q, c)
    PROVE  Entry(q, t, c + 1) = Part("source", t)
<1>1. c \in 0 .. Len(q) /\ Len(q) \in Nat /\ (c + 1) - 1 = c
  BY LenProperties DEF Last
<1>2. ~(c + 1 > 1 /\ CatchAt(q, (c + 1) - 1))
  BY <1>1 DEF Last
<1>3. LineIn(q, t, c) = t
  BY <1>1, LineIsCurrent DEF Last
<1> QED
  BY <1>1, <1>2, <1>3 DEF Entry

LEMMA NestKept ==
    ASSUME NEW r \in Seq(Frames), NEW q \in Seq(Frames), Common(q, r, Len(q)), NEW s, NEW t,
           NEW c, Last(q, c), NEW k \in 1 .. Len(q) + 1, k # c + 1
    PROVE  Entry(q, t, k) = Entry(r, s, k)
<1>1. Len(q) \in Nat /\ Len(r) \in Nat /\ Len(q) <= Len(r) /\ c \in 0 .. Len(q) /\ k - 1 \in 0 .. Len(q)
  BY LenProperties DEF Common, Last
<1>2. PICK j \in 0 .. Len(q) : j = k - 1
  BY <1>1
<1>3. k > 1 => r[k - 1] = q[k - 1] /\ (CatchAt(r, k - 1) <=> CatchAt(q, k - 1))
  BY <1>1 DEF Common, CatchAt
<1>4. CASE k < c + 1
  <2>1. j < c
    BY <1>1, <1>2, <1>4
  <2>2. LineIn(q, t, k - 1) = LineIn(r, s, k - 1)
    BY <1>2, <2>1, LineKept
  <2> QED
    BY <1>3, <2>2 DEF Entry
<1>5. CASE k > c + 1
  <2>1. j > c /\ k > 1
    BY <1>1, <1>2, <1>5
  <2>2. k > 1 /\ CatchAt(q, k - 1)
    BY <1>2, <2>1, LineKept
  <2> QED
    BY <1>3, <2>2 DEF Entry
<1> QED
  BY <1>1, <1>4, <1>5

Parts == [kind : {"mark", "source"}, id : Fids \cup {0, -1}, len : 0 .. LINE, in : 0 .. LINE]

LEMMA PartIs ==
    ASSUME NEW s \in Sources, NEW kind \in {"mark", "source"}
    PROVE  Part(kind, s) \in Parts
BY DEF Part, Parts, Sources

LEMMA EntryKind ==
    ASSUME NEW r, NEW s, NEW k
    PROVE  Entry(r, s, k).kind = IF k > 1 /\ CatchAt(r, k - 1) THEN "mark" ELSE "source"
<1>1. CASE k > 1 /\ CatchAt(r, k - 1)
  BY <1>1 DEF Entry, Part
<1>2. CASE ~(k > 1 /\ CatchAt(r, k - 1))
  BY <1>2 DEF Entry, Part
<1> QED
  BY <1>1, <1>2

LEMMA EntryIs ==
    ASSUME NEW r \in Seq(Frames), NEW s \in Sources, NEW k \in 1 .. Len(r) + 1
    PROVE  Entry(r, s, k) \in Parts
<1>1. ASSUME NEW i \in 1 .. Len(r) PROVE r[i].saved \in Sources
  <2>1. r[i] \in Frames
    BY ElementOfSeq
  <2> QED
    BY <2>1 DEF Frames
<1>2. Len(r) \in Nat
  BY LenProperties
<1>3. PICK j \in 0 .. Len(r) : j = k - 1
  BY <1>2
<1>4. LineIn(r, s, j) \in Sources
  BY <1>1, <1>2, LineOver
<1>5. k > 1 => r[k - 1].saved \in Sources
  BY <1>1, <1>2
<1> QED
  BY <1>3, <1>4, <1>5, PartIs DEF Entry

LEMMA NestIsSeq ==
    ASSUME NEW r \in Seq(Frames), NEW s \in Sources
    PROVE  /\ Len(r) \in Nat
           /\ NestIn(r, s) \in Seq(Parts) /\ Len(NestIn(r, s)) = Len(r) + 1
           /\ \A k \in 1 .. Len(r) + 1 : NestIn(r, s)[k] = Entry(r, s, k)
<1> DEFINE n == Len(r) + 1
<1>1. n \in Nat /\ Len(r) \in Nat
  BY LenProperties
<1>2. NestIn(r, s) = [k \in 1 .. n |-> Entry(r, s, k)]
  BY DEF NestIn
<1>3. NestIn(r, s) \in [1 .. n -> Parts]
  BY <1>2, EntryIs
<1>4. NestIn(r, s) \in Seq(Parts)
  BY <1>1, <1>3
<1>5. Len(NestIn(r, s)) = n
  BY <1>1, <1>2, <1>4, LenProperties
<1> QED
  BY <1>1, <1>2, <1>4, <1>5

(* Nest is NestIn of the kernel's variables. *)
LEMMA NestIs ==
    ASSUME rs \in Seq(Frames)
    PROVE  Nest = NestIn(rs, source)
<1>1. \A k : LineIn(rs, source, k) = LineOf(k)
  BY DEF LineIn, LineOf, Over, CatchAt, IsCatch, Depth
<1> QED
  BY <1>1 DEF Nest, NestIn, Entry, CatchAt, IsCatch, Depth

(* The source words come from in the nest. *)
LEMMA InnermostIs ==
    ASSUME NEW r \in Seq(Frames), NEW c, Last(r, c), NEW N,
           Len(N) = Len(r) + 1,
           \A k \in 1 .. Len(r) + 1 : N[k].kind = IF k > 1 /\ CatchAt(r, k - 1) THEN "mark" ELSE "source"
    PROVE  c + 1 = CHOOSE k \in 1 .. Len(r) + 1 : Nests!Innermost(N, k)
<1>1. Len(r) \in Nat /\ c \in 0 .. Len(r)
  BY LenProperties DEF Last
<1>2. N[c + 1].kind = "source"
  BY <1>1 DEF Last
<1>3. \A j \in (c + 1) + 1 .. Len(r) + 1 : N[j].kind = "mark"
  <2>1. \A j \in (c + 1) + 1 .. Len(r) + 1 : j \in 1 .. Len(r) + 1 /\ j > 1 /\ j - 1 \in c + 1 .. Len(r)
    BY <1>1
  <2> QED
    BY <2>1 DEF Last
<1>4. Nests!Innermost(N, c + 1) /\ c + 1 \in 1 .. Len(r) + 1
  BY <1>1, <1>2, <1>3 DEF Nests!Innermost
<1>5. ASSUME NEW k \in 1 .. Len(r) + 1, Nests!Innermost(N, k)
      PROVE  k = c + 1
  <2>1. N[k].kind = "source" /\ \A j \in k + 1 .. Len(r) + 1 : N[j].kind = "mark"
    BY <1>5 DEF Nests!Innermost
  <2>2. ~(k > c + 1)
    BY <1>1, <1>3, <2>1
  <2>3. ~(k < c + 1)
    BY <1>1, <1>2, <2>1
  <2> QED
    BY <1>1, <2>2, <2>3
<1> QED
  BY <1>4, <1>5

(* The kinds of the nest are those of its frames, so is the place of the     *)
(* current source.                                                         *)
LEMMA CurrentIs ==
    ASSUME NEW r \in Seq(Frames), NEW s \in Sources, NEW c, Last(r, c)
    PROVE  /\ c + 1 = CHOOSE k \in 1 .. Len(r) + 1 : Nests!Innermost(NestIn(r, s), k)
           /\ c + 1 \in 1 .. Len(r) + 1
           /\ NestIn(r, s)[c + 1] = Part("source", s)
<1>1. /\ Len(NestIn(r, s)) = Len(r) + 1 /\ Len(r) \in Nat /\ c \in 0 .. Len(r)
      /\ \A k \in 1 .. Len(r) + 1 : NestIn(r, s)[k] = Entry(r, s, k)
  BY NestIsSeq DEF Last
<1>2. \A k \in 1 .. Len(r) + 1 :
         NestIn(r, s)[k].kind = IF k > 1 /\ CatchAt(r, k - 1) THEN "mark" ELSE "source"
  BY <1>1 DEF Entry, Part
<1>3. c + 1 = CHOOSE k \in 1 .. Len(r) + 1 : Nests!Innermost(NestIn(r, s), k)
  BY <1>1, <1>2, InnermostIs
<1>4. c + 1 \in 1 .. Len(r) + 1
  BY <1>1
<1>5. Entry(r, s, c + 1) = Part("source", s)
  BY NestCurrent
<1> QED
  BY <1>1, <1>3, <1>4, <1>5

(* Cut back to fewer frames, the nest loses what was over them, and the      *)
(* source words come from is as given.                                     *)
LEMMA NestCut ==
    ASSUME NEW r \in Seq(Frames), NEW q \in Seq(Frames), Common(q, r, Len(q)),
           NEW s \in Sources, NEW t \in Sources, NEW c, Last(q, c)
    PROVE  LET below == SubSeq(NestIn(r, s), 1, Len(q) + 1)
           IN  /\ NestIn(q, t) = [below EXCEPT ![c + 1] = Part("source", t)]
               /\ below \in Seq(Parts) /\ Len(below) = Len(q) + 1
               /\ \A k \in 1 .. Len(q) + 1 : below[k] = NestIn(r, s)[k]
<1>1. \A k \in 1 .. Len(q) + 1 : k # c + 1 => Entry(q, t, k) = Entry(r, s, k)
  BY NestKept
<1> DEFINE below == SubSeq(NestIn(r, s), 1, Len(q) + 1)
           part == Part("source", t)
<1>2. /\ Len(r) \in Nat /\ NestIn(r, s) \in Seq(Parts) /\ Len(NestIn(r, s)) = Len(r) + 1
      /\ \A k \in 1 .. Len(r) + 1 : NestIn(r, s)[k] = Entry(r, s, k)
  BY NestIsSeq
<1>3. /\ Len(q) \in Nat /\ NestIn(q, t) \in Seq(Parts) /\ Len(NestIn(q, t)) = Len(q) + 1
      /\ \A k \in 1 .. Len(q) + 1 : NestIn(q, t)[k] = Entry(q, t, k)
  BY NestIsSeq
<1>4. Len(q) <= Len(r) /\ c \in 0 .. Len(q) /\ c + 1 \in 1 .. Len(q) + 1
  BY <1>3 DEF Common, Last
<1>5. \A k \in 1 .. Len(q) + 1 : NestIn(r, s)[k] \in Parts
  BY <1>2, <1>3, <1>4, ElementOfSeq
<1>6. /\ below \in Seq(Parts) /\ Len(below) = Len(q) + 1
      /\ \A k \in 1 .. Len(q) + 1 : below[k] = NestIn(r, s)[k]
  BY <1>3, <1>5, SubSeqProperties
<1>7. part \in Parts
  BY PartIs
<1> HIDE DEF below, part
<1>8. /\ [below EXCEPT ![c + 1] = part] \in Seq(Parts)
      /\ Len([below EXCEPT ![c + 1] = part]) = Len(q) + 1
      /\ \A k \in 1 .. Len(q) + 1 : [below EXCEPT ![c + 1] = part][k] = IF k = c + 1 THEN part ELSE below[k]
  BY <1>4, <1>6, <1>7, ExceptSeq
<1>9. ASSUME NEW k \in 1 .. Len(q) + 1
      PROVE  NestIn(q, t)[k] = [below EXCEPT ![c + 1] = part][k]
  <2>1. k \in 1 .. Len(r) + 1
    BY <1>2, <1>3, <1>4
  <2>2. CASE k = c + 1
    <3>1. Entry(q, t, k) = Part("source", t)
      BY <2>2, NestCurrent
    <3>2. Entry(q, t, k) = part
      BY <3>1 DEF part
    <3> QED
      BY <2>2, <3>2, <1>3, <1>8
  <2>3. CASE k # c + 1
    <3>1. Entry(q, t, k) = Entry(r, s, k)
      BY <2>3, <1>1
    <3>2. NestIn(q, t)[k] = NestIn(r, s)[k]
      BY <2>1, <3>1, <1>2, <1>3
    <3>3. [below EXCEPT ![c + 1] = part][k] = below[k]
      BY <2>3, <1>8
    <3>4. below[k] = NestIn(r, s)[k]
      BY <1>6
    <3> QED
      BY <3>2, <3>3, <3>4
  <2> QED
    BY <2>2, <2>3
<1>10. NestIn(q, t) = [below EXCEPT ![c + 1] = part]
  BY <1>3, <1>8, <1>9, SeqEqual
<1> QED
  BY <1>6, <1>10 DEF below, part

(* A frame pushed over the source it saves adds one to the nest.             *)
LEMMA NestPushed ==
    ASSUME NEW r \in Seq(Frames), NEW f \in Frames, NEW s \in Sources, f.saved = s,
           NEW t \in Sources, f.kind = "catch" => t = s
    PROVE  NestIn(Append(r, f), t) =
              Append(NestIn(r, s), IF f.kind = "catch" THEN Part("mark", s) ELSE Part("source", t))
<1> DEFINE q == Append(r, f)
           n == Len(r)
           part == IF f.kind = "catch" THEN Part("mark", s) ELSE Part("source", t)
<1>1. q \in Seq(Frames) /\ Len(q) = n + 1 /\ q[n + 1] = f /\ Common(q, r, n)
  BY Pushed
<1>2. /\ n \in Nat /\ NestIn(r, s) \in Seq(Parts) /\ Len(NestIn(r, s)) = n + 1
      /\ \A k \in 1 .. n + 1 : NestIn(r, s)[k] = Entry(r, s, k)
  BY NestIsSeq
<1>3. part \in Parts
  BY PartIs
<1> HIDE DEF q, part
<1>4. /\ NestIn(q, t) \in Seq(Parts) /\ Len(NestIn(q, t)) = n + 2
      /\ \A k \in 1 .. n + 2 : NestIn(q, t)[k] = Entry(q, t, k)
  BY <1>1, <1>2, NestIsSeq
<1>5. /\ Append(NestIn(r, s), part) \in Seq(Parts) /\ Len(Append(NestIn(r, s), part)) = n + 2
      /\ \A k \in 1 .. n + 1 : Append(NestIn(r, s), part)[k] = NestIn(r, s)[k]
      /\ Append(NestIn(r, s), part)[n + 2] = part
  BY <1>2, <1>3, AppendProperties
<1>6. PICK c : Last(r, c)
  BY LastIs
<1>7. c \in 0 .. n /\ Common(r, q, n)
  BY <1>1, <1>6 DEF Last, Common
<1>8. \A k \in 1 .. n + 1 : /\ k # c + 1 => Entry(r, s, k) = Entry(q, t, k)
                            /\ k = c + 1 => Entry(r, s, k) = Part("source", s)
  <2> TAKE k \in 1 .. n + 1
  <2>1. Common(r, q, Len(r)) /\ q \in Seq(Frames) /\ k \in 1 .. Len(r) + 1
    BY <1>1, <1>7 DEF n
  <2>2. k # c + 1 => Entry(r, s, k) = Entry(q, t, k)
    BY <2>1, <1>6, NestKept
  <2>3. k = c + 1 => Entry(r, s, k) = Part("source", s)
    BY <1>6, NestCurrent
  <2> QED
    BY <2>2, <2>3
<1>9. CatchAt(q, n + 1) <=> f.kind = "catch"
  BY <1>1 DEF CatchAt
<1>10. \A j \in c + 1 .. n : CatchAt(q, j)
  BY <1>1, <1>6, <1>7 DEF Last, Common, CatchAt
<1>11. Entry(q, t, c + 1) = Part("source", s)
  <2>1. ~(c + 1 > 1 /\ CatchAt(q, (c + 1) - 1))
    BY <1>1, <1>2, <1>6, <1>7 DEF Last, Common, CatchAt
  <2>2. LineIn(q, t, c) = s
    <3>1. CASE f.kind = "catch"
      <4>1. \A j \in c + 1 .. Len(q) : CatchAt(q, j)
        BY <3>1, <1>1, <1>2, <1>7, <1>9, <1>10
      <4> QED
        BY <3>1, <4>1, <1>1, <1>2, <1>7, LineIsCurrent
    <3>2. CASE f.kind # "catch"
      <4>1. n + 1 \in c + 1 .. Len(q) /\ c \in 0 .. Len(q) /\ (n + 1) - 1 = n
        BY <1>1, <1>2, <1>7
      <4>2. LineIn(q, t, c) = q[n + 1].saved
        BY <3>2, <4>1, <1>1, <1>9, <1>10, LineIsFirst
      <4> QED
        BY <4>2, <1>1
    <3> QED
      BY <3>1, <3>2
  <2>3. LineIn(q, t, (c + 1) - 1) = s
    <3>1. (c + 1) - 1 = c
      BY <1>2, <1>7
    <3> QED
      BY <3>1, <2>2
  <2> QED
    BY <2>1, <2>3 DEF Entry
<1>12. ASSUME NEW k \in 1 .. n + 1
       PROVE  Entry(q, t, k) = Entry(r, s, k)
  <2>1. CASE k = c + 1
    <3>1. Entry(r, s, k) = Part("source", s)
      BY <2>1, <1>8
    <3> QED
      BY <2>1, <3>1, <1>11
  <2>2. CASE k # c + 1
    BY <2>2, <1>8
  <2> QED
    BY <2>1, <2>2
<1>13. Entry(q, t, n + 2) = part
  <2>1. (n + 2) - 1 = n + 1 /\ n + 2 > 1
    BY <1>2
  <2>2. CASE f.kind = "catch"
    BY <2>1, <2>2, <1>1, <1>9 DEF Entry, part
  <2>3. CASE f.kind # "catch"
    <3>1. LineIn(q, t, n + 1) = t
      <4>1. n + 1 \in 0 .. Len(q) /\ \A j \in (n + 1) + 1 .. Len(q) : CatchAt(q, j)
        BY <1>1, <1>2
      <4> QED
        BY <4>1, <1>1, LineIsCurrent
    <3> QED
      BY <2>1, <2>3, <3>1, <1>9 DEF Entry, part
  <2> QED
    BY <2>2, <2>3
<1>14. \A k \in 1 .. n + 2 : NestIn(q, t)[k] = Append(NestIn(r, s), part)[k]
  <2>1. \A k \in 1 .. n + 2 : k = n + 2 \/ k \in 1 .. n + 1
    BY <1>2
  <2> QED
    BY <2>1, <1>2, <1>4, <1>5, <1>12, <1>13
<1>15. NestIn(q, t) = Append(NestIn(r, s), part)
  BY <1>4, <1>5, <1>14, SeqEqual
<1> QED
  BY <1>15 DEF q, part
-----------------------------------------------------------------------------
(***************************************************************************)
(* Each word is one step of the nest, or none.                             *)
(***************************************************************************)
LEMMA NestNow ==
    ASSUME TypeOK, NEW c, Last(rs, c)
    PROVE  /\ rs \in Seq(Frames) /\ source \in Sources /\ Depth = Len(rs) /\ Depth \in Nat
           /\ Nest = NestIn(rs, source) /\ Nest \in Seq(Parts) /\ Len(Nest) = Depth + 1
           /\ Nests!Top = Depth + 1 /\ Nests!Current = c + 1
           /\ c + 1 \in 1 .. Depth + 1 /\ Nest[c + 1] = Part("source", source)
           /\ \A k \in 1 .. Depth + 1 : Nest[k] = Entry(rs, source, k)
<1>1. rs \in Seq(Frames) /\ source \in Sources /\ Depth = Len(rs)
  BY DEF TypeOK, Depth
<1>2. Nest = NestIn(rs, source)
  BY <1>1, NestIs
<1>3. /\ Depth \in Nat /\ Nest \in Seq(Parts) /\ Len(Nest) = Depth + 1
      /\ \A k \in 1 .. Depth + 1 : Nest[k] = Entry(rs, source, k)
  BY <1>1, <1>2, NestIsSeq
<1>4. /\ c + 1 = CHOOSE k \in 1 .. Depth + 1 : Nests!Innermost(Nest, k)
      /\ c + 1 \in 1 .. Depth + 1 /\ Nest[c + 1] = Part("source", source)
  BY <1>1, <1>2, CurrentIs
<1>5. Nests!Top = Depth + 1
  BY <1>3 DEF Nests!Top
<1>6. Nests!Current = c + 1
  BY <1>4, <1>5 DEF Nests!Current
<1> QED
  BY <1>1, <1>2, <1>3, <1>4, <1>5, <1>6

LEMMA NestNext ==
    ASSUME TypeOK'
    PROVE  rs' \in Seq(Frames) /\ source' \in Sources /\ Nest' = NestIn(rs', source')
<1>1. rs' \in Seq(Frames) /\ source' \in Sources
  BY DEF TypeOK
<1>2. \A k : LineIn(rs', source', k) = LineOf(k)'
  BY DEF LineIn, LineOf, Over, CatchAt, IsCatch, Depth
<1> QED
  BY <1>1, <1>2 DEF Nest, NestIn, Entry, CatchAt, IsCatch, Depth

(* The stack as it was, or cut back: the nest's upper part goes, and its     *)
(* source is another.                                                      *)
LEMMA NestBack ==
    ASSUME TypeOK, TypeOK', NEW c, Last(rs', c), Common(rs', rs, Len(rs'))
    PROVE  LET below == SubSeq(Nest, 1, Len(rs') + 1)
           IN  /\ Nest' = [below EXCEPT ![c + 1] = Part("source", source')]
               /\ below \in Seq(Parts) /\ Len(below) = Len(rs') + 1
               /\ \A k \in 1 .. Len(rs') + 1 : below[k] = Nest[k]
               /\ c + 1 \in 1 .. Len(rs') + 1
<1>1. rs \in Seq(Frames) /\ source \in Sources /\ Nest = NestIn(rs, source)
  BY NestIs DEF TypeOK
<1>2. rs' \in Seq(Frames) /\ source' \in Sources /\ Nest' = NestIn(rs', source')
  BY NestNext
<1>3. c + 1 \in 1 .. Len(rs') + 1
  BY <1>2, LenProperties DEF Last
<1> QED
  BY <1>1, <1>2, <1>3, NestCut

LEMMA ParseNests ==
    ASSUME TypeOK, TypeOK', Parse
    PROVE  Nests!Parse
<1>1. PICK c : Last(rs, c)
  BY LastIs DEF TypeOK
<1>2. /\ Nests!Current = c + 1 /\ Nest[c + 1] = Part("source", source) /\ Nest \in Seq(Parts)
      /\ Len(Nest) = Len(rs) + 1 /\ c + 1 \in 1 .. Len(rs) + 1 /\ source \in Sources /\ Len(rs) \in Nat
  BY <1>1, NestNow
<1>3. rs' = rs /\ Common(rs', rs, Len(rs')) /\ Last(rs', c)
  BY <1>1, <1>2 DEF Parse, Common
<1>4. Nest' = [SubSeq(Nest, 1, Len(rs) + 1) EXCEPT ![c + 1] = Part("source", source')]
  BY <1>3, NestBack
<1>5. SubSeq(Nest, 1, Len(rs) + 1) = Nest
  BY <1>2, SubSeqFull
<1>6. Part("source", source') = [Nest[c + 1] EXCEPT !.in = Nest[c + 1].in + 1]
  BY <1>2 DEF Parse, Part, Sources
<1>7. Nest[c + 1].in < Nest[c + 1].len
  BY <1>2 DEF Parse, Part
<1> QED
  BY <1>2, <1>4, <1>5, <1>6, <1>7 DEF Nests!Parse

(* The end of what the top frame began, back to where its source was left.   *)
LEMMA EndNests ==
    ASSUME IInv, TypeOK', Depth \in 1 .. Depth, rs' = SubSeq(rs, 1, Depth - 1),
           IF CatchAt(rs, Depth) THEN source' = source ELSE source' = rs[Depth].saved
    PROVE  Nest' = SubSeq(Nest, 1, Depth) /\ Nests!Up = SubSeq(Nest, 1, Depth) /\ Nests!Top = Depth + 1
<1>1. rs \in Seq(Frames) /\ rs' \in Seq(Frames) /\ Depth = Len(rs) /\ Len(rs) \in Nat /\ Len(rs) > 0
  BY LenProperties DEF IInv, TypeOK, Depth
<1>2. Len(rs') = Depth - 1 /\ Common(rs', rs, Len(rs'))
  BY <1>1, Cut DEF Common
<1>3. PICK c : Last(rs', c)
  BY <1>1, LastIs
<1>4. PICK d : Last(rs, d)
  BY <1>1, LastIs
<1>5. /\ Nests!Top = Depth + 1 /\ Nest \in Seq(Parts) /\ Len(Nest) = Depth + 1
      /\ \A k \in 1 .. Depth + 1 : Nest[k] = Entry(rs, source, k)
  BY <1>4, NestNow DEF IInv
<1>6. /\ Nest' = [SubSeq(Nest, 1, Depth) EXCEPT ![c + 1] = Part("source", source')]
      /\ SubSeq(Nest, 1, Depth) \in Seq(Parts) /\ Len(SubSeq(Nest, 1, Depth)) = Depth
      /\ \A k \in 1 .. Depth : SubSeq(Nest, 1, Depth)[k] = Nest[k]
      /\ c + 1 \in 1 .. Depth
  <2>1. Len(rs') + 1 = Depth
    BY <1>1, <1>2
  <2> QED
    BY <2>1, <1>2, <1>3, NestBack DEF IInv
<1>7. /\ c \in 0 .. Len(rs) /\ c \in 0 .. Depth - 1
      /\ c # 0 => ~CatchAt(rs, c)
      /\ \A j \in c + 1 .. Depth - 1 : CatchAt(rs, j)
  BY <1>1, <1>2, <1>3 DEF Last, Common, CatchAt
<1>8. LineIn(rs, source, c) = source'
  <2>1. CASE CatchAt(rs, Depth)
    <3>1. \A j \in c + 1 .. Len(rs) : CatchAt(rs, j)
      BY <2>1, <1>1, <1>7
    <3> QED
      BY <2>1, <3>1, <1>1, <1>7, LineIsCurrent
  <2>2. CASE ~CatchAt(rs, Depth)
    <3>1. Depth \in c + 1 .. Len(rs)
      BY <1>1, <1>7
    <3>2. LineIn(rs, source, c) = rs[Depth].saved
      BY <2>2, <3>1, <1>1, <1>7, LineIsFirst
    <3> QED
      BY <2>2, <3>2
  <2> QED
    BY <2>1, <2>2
<1>9. Nest[c + 1] = Part("source", source')
  <2>1. (c + 1) - 1 = c /\ (c + 1 > 1 => c # 0) /\ c + 1 \in 1 .. Depth + 1
    BY <1>1, <1>7
  <2>2. Entry(rs, source, c + 1) = Part("source", LineIn(rs, source, c))
    BY <2>1, <1>7 DEF Entry
  <2> QED
    BY <2>1, <2>2, <1>5, <1>8
<1>10. Nest' = SubSeq(Nest, 1, Depth)
  <2> DEFINE below == SubSeq(Nest, 1, Depth)
  <2>1. below[c + 1] = Part("source", source') /\ below \in [1 .. Depth -> Parts]
    BY <1>6, <1>9, LenProperties
  <2>2. Nest' = [below EXCEPT ![c + 1] = Part("source", source')]
    BY <1>6
  <2> HIDE DEF below
  <2>3. Nest' = below
    BY <2>1, <2>2
  <2> QED
    BY <2>3 DEF below
<1>11. Nests!Up = SubSeq(Nest, 1, Depth)
  <2>1. (Depth + 1) - 1 = Depth
    BY <1>1
  <2> QED
    BY <2>1, <1>5 DEF Nests!Up
<1> QED
  BY <1>5, <1>10, <1>11

LEMMA CloseNests ==
    ASSUME IInv, TypeOK', EndEvaluate \/ EndFile
    PROVE  Nests!Close
<1>1. /\ Depth \in 1 .. Depth /\ rs' = SubSeq(rs, 1, Depth - 1) /\ source' = rs[Depth].saved
      /\ ~CatchAt(rs, Depth) /\ source.in = source.len
  BY TopIsFrame DEF EndEvaluate, EndFile, Up, Frame, AtLineEnd
<1>2. Nest' = Nests!Up /\ Nests!Top = Depth + 1
  BY <1>1, EndNests
<1>3. Depth \in Nat /\ Last(rs, Depth)
  BY <1>1, LenProperties DEF Last, IInv, TypeOK, Depth
<1>4. Nest[Depth + 1] = Part("source", source)
  BY <1>3, NestNow DEF IInv
<1>5. Nests!AtLineEnd
  BY <1>1, <1>2, <1>4 DEF Nests!AtLineEnd, Nests!Kind, Part
<1> QED
  BY <1>1, <1>2, <1>3, <1>5 DEF Nests!Close

LEMMA EndCatchNests ==
    ASSUME IInv, TypeOK', EndCatch
    PROVE  Nests!EndCatch
<1>1. /\ Depth \in 1 .. Depth /\ rs' = SubSeq(rs, 1, Depth - 1) /\ source' = source /\ CatchAt(rs, Depth)
  BY TopIsFrame DEF EndCatch, Up, Frame
<1>2. Nest' = Nests!Up /\ Nests!Top = Depth + 1
  BY <1>1, EndNests
<1>3. PICK c : Last(rs, c)
  BY LastIs DEF IInv, TypeOK
<1>4. Depth \in Nat /\ \A k \in 1 .. Depth + 1 : Nest[k] = Entry(rs, source, k)
  BY <1>3, NestNow DEF IInv
<1>5. (Depth + 1) - 1 = Depth /\ Depth + 1 > 1 /\ Depth + 1 \in 1 .. Depth + 1
  BY <1>1, <1>4
<1>6. Nest[Depth + 1] = Part("mark", rs[Depth].saved)
  BY <1>1, <1>4, <1>5 DEF Entry
<1> QED
  BY <1>2, <1>6 DEF Nests!EndCatch, Nests!Kind, Part

LEMMA PushNests ==
    ASSUME IInv, TypeOK', NEW kind \in {"evaluate", "include", "catch"}, Push(kind),
           kind = "catch" => source' = source
    PROVE  Nest' = Append(Nest, IF kind = "catch" THEN Part("mark", source) ELSE Part("source", source'))
<1> DEFINE f == [kind |-> kind, saved |-> source, ip |-> ip, handler |-> handler]
<1>1. rs \in Seq(Frames) /\ rs' = Append(rs, f) /\ source \in Sources /\ source' \in Sources
  BY DEF IInv, TypeOK, Push
<1>2. f \in Frames /\ f.kind = kind /\ f.saved = source
  BY InputAssumption DEF IInv, TypeOK, Frames
<1> HIDE DEF f
<1>3. Nest = NestIn(rs, source) /\ Nest' = NestIn(rs', source')
  BY <1>1, NestIs, NestNext
<1>4. NestIn(Append(rs, f), source') =
         Append(NestIn(rs, source), IF f.kind = "catch" THEN Part("mark", source) ELSE Part("source", source'))
  BY <1>1, <1>2, NestPushed
<1> QED
  BY <1>1, <1>2, <1>3, <1>4

LEMMA CatchNests ==
    ASSUME IInv, TypeOK', Catch
    PROVE  Nests!Catch
<1>1. PICK c : Last(rs, c)
  BY LastIs DEF IInv, TypeOK
<1>2. Nests!Current = c + 1 /\ Nest[c + 1] = Part("source", source)
  BY <1>1, NestNow DEF IInv
<1>3. Nest' = Append(Nest, Part("mark", source))
  BY PushNests DEF Catch
<1>4. Part("mark", source) = [Nest[c + 1] EXCEPT !.kind = "mark"]
  BY <1>2 DEF Part
<1> QED
  BY <1>2, <1>3, <1>4 DEF Nests!Catch

LEMMA OpenNests ==
    ASSUME IInv, TypeOK', NEW n \in 0 .. LINE, Evaluate(n) \/ \E fid \in Fids : Included(fid, n)
    PROVE  Nests!Open
<1>1. PICK id \in Fids \cup {-1} : source'.sid = id /\ source'.len = n /\ source'.in = 0
  BY DEF Evaluate, Included
<1>2. PICK kind \in {"evaluate", "include"} : Push(kind)
  BY DEF Evaluate, Included
<1>3. Nest' = Append(Nest, Part("source", source'))
  BY <1>2, PushNests
<1>4. Part("source", source') = Nests!Source(id, n)
  BY <1>1 DEF Part, Nests!Source
<1> QED
  BY <1>1, <1>3, <1>4 DEF Nests!Open

LEMMA ThrowNests ==
    ASSUME IInv, TypeOK', Throw
    PROVE  Nests!Throw
<1> DEFINE m == handler + 1
           below == SubSeq(Nest, 1, handler)
<1>1. /\ handler \in 1 .. Depth /\ CatchAt(rs, handler) /\ Depth = Len(rs) /\ Depth \in Nat
      /\ \A j \in handler + 1 .. Depth : ~CatchAt(rs, j)
  BY LenProperties DEF Throw, IInv, TypeOK, Chain, Below, Depth
<1>2. PICK d : Last(rs, d)
  BY LastIs DEF IInv, TypeOK
<1>3. Nests!Top = Depth + 1 /\ \A k \in 1 .. Depth + 1 : Nest[k] = Entry(rs, source, k)
  BY <1>2, NestNow DEF IInv
<1>4. m \in 1 .. Nests!Top /\ m - 1 = handler /\ m > 1
  BY <1>1, <1>3
<1>5. Nest[m] = Part("mark", rs[handler].saved)
  BY <1>1, <1>3, <1>4 DEF Entry
<1>6. ASSUME NEW j \in m + 1 .. Nests!Top
      PROVE  Nest[j].kind = "source"
  <2>1. j \in 1 .. Depth + 1 /\ j - 1 \in handler + 1 .. Depth
    BY <1>1, <1>3
  <2>2. ~CatchAt(rs, j - 1)
    BY <2>1, <1>1
  <2> QED
    BY <2>1, <2>2, <1>3, EntryKind
<1>7. Nests!Mark(m)
  BY <1>5, <1>6 DEF Nests!Mark, Nests!Kind, Part
<1>8. rs' \in Seq(Frames) /\ Len(rs') + 1 = handler /\ Common(rs', rs, Len(rs')) /\ source' = rs[handler].saved
  <2>1. rs \in Seq(Frames) /\ rs' = SubSeq(rs, 1, handler - 1) /\ handler \in 1 .. Len(rs)
    BY <1>1 DEF Throw, IInv, TypeOK
  <2>2. rs' \in Seq(Frames) /\ Len(rs') = handler - 1 /\ Common(rs', rs, handler - 1)
    BY <2>1, Cut
  <2> QED
    BY <1>1, <2>2 DEF Throw
<1>9. PICK c : Last(rs', c)
  BY <1>8, LastIs
<1>10. /\ Nest' = [below EXCEPT ![c + 1] = Part("source", source')]
       /\ Len(below) = handler /\ \A k \in 1 .. handler : below[k] = Nest[k]
  BY <1>8, <1>9, NestBack DEF IInv
<1>11. \A k \in 1 .. handler : below[k].kind = IF k > 1 /\ CatchAt(rs', k - 1) THEN "mark" ELSE "source"
  <2> SUFFICES ASSUME NEW k \in 1 .. handler
               PROVE  below[k].kind = IF k > 1 /\ CatchAt(rs', k - 1) THEN "mark" ELSE "source"
    OBVIOUS
  <2>1. k \in 1 .. Depth + 1 /\ (k > 1 => k - 1 \in 1 .. Len(rs'))
    BY <1>1, <1>8
  <2>2. k > 1 => (CatchAt(rs', k - 1) <=> CatchAt(rs, k - 1))
    BY <2>1, <1>8 DEF Common, CatchAt
  <2>3. below[k] = Entry(rs, source, k)
    BY <2>1, <1>3, <1>10
  <2> QED
    BY <2>2, <2>3, EntryKind
<1> HIDE DEF below, m
<1>12. c + 1 = CHOOSE k \in 1 .. m - 1 : Nests!Innermost(below, k)
  BY <1>4, <1>8, <1>9, <1>10, <1>11, InnermostIs
<1>13. Part("source", source') = [Nest[m] EXCEPT !.kind = "source"]
  BY <1>5, <1>8 DEF Part
<1>14. below = SubSeq(Nest, 1, m - 1)
  BY <1>4 DEF below
<1> QED
  BY <1>4, <1>7, <1>10, <1>12, <1>13, <1>14 DEF Nests!Throw

(* The source that asks for a line is the terminal or a file. *)
LEMMA RefillNests ==
    ASSUME IInv, TypeOK', NEW n \in 0 .. LINE, Refill(n)
    PROVE  Nests!Refill
<1> DEFINE top == Depth + 1
           part == Part("source", source')
<1>1. rs \in Seq(Frames) /\ rs' = rs /\ Depth = Len(rs) /\ Depth \in Nat /\ source \in Sources /\ Sourced(rs, source)
  BY LenProperties DEF IInv, TypeOK, Depth, Refill
<1>2. Depth = 0 \/ (Depth \in 1 .. Depth /\ ~CatchAt(rs, Depth) /\ rs[Depth].kind = "include")
  BY TopIsFrame DEF Refill, TopIs, Frame
<1>3. Last(rs, Depth)
  BY <1>1, <1>2 DEF Last
<1>4. source.sid # -1
  <2>1. CASE Depth = 0
    BY <2>1, <1>1 DEF Sourced, Fits, SourceIn
  <2>2. CASE Depth \in 1 .. Depth /\ ~CatchAt(rs, Depth) /\ rs[Depth].kind = "include"
    <3>1. Began(rs[Depth], source)
      BY <2>2, <1>1 DEF Sourced, Fits, SourceIn
    <3> QED
      BY <2>2, <3>1, InputAssumption DEF Began
  <2> QED
    BY <1>2, <2>1, <2>2
<1>5. /\ Nests!Top = top /\ Nest[top] = Part("source", source) /\ Nest \in Seq(Parts) /\ Len(Nest) = top
      /\ top \in 1 .. top /\ top - 1 = Depth
  BY <1>1, <1>3, NestNow DEF IInv
<1>6. Nest' = [SubSeq(Nest, 1, top) EXCEPT ![top] = part]
  <2>1. Common(rs', rs, Len(rs')) /\ Last(rs', Depth) /\ Len(rs') + 1 = top
    BY <1>1, <1>3 DEF Common
  <2> QED
    BY <2>1, NestBack DEF IInv
<1>7. part = Nests!Source(source.sid, n) /\ part \in Parts
  <2>1. source'.sid = source.sid /\ source'.len = n /\ source'.in = 0 /\ source' \in Sources
    BY <1>1 DEF Refill, Sources, TypeOK
  <2> QED
    BY <2>1, PartIs DEF Part, Nests!Source
<1> HIDE DEF part, top
<1>8. SubSeq(Nest, 1, top) = Nest
  BY <1>5, SubSeqFull
<1>9. [Nest EXCEPT ![top] = part] = Append(SubSeq(Nest, 1, top - 1), part)
  <2> DEFINE left == [Nest EXCEPT ![top] = part]
             below == SubSeq(Nest, 1, top - 1)
             right == Append(below, part)
  <2>1. /\ left \in Seq(Parts) /\ Len(left) = top
        /\ \A j \in 1 .. top : left[j] = IF j = top THEN part ELSE Nest[j]
    BY <1>5, <1>7, ExceptSeq
  <2>2. top \in Nat /\ \A j \in 1 .. top - 1 : Nest[j] \in Parts
    BY <1>1, <1>5, ElementOfSeq DEF top
  <2>3. below \in Seq(Parts) /\ Len(below) = top - 1 /\ \A j \in 1 .. top - 1 : below[j] = Nest[j]
    BY <1>1, <1>5, <2>2, SubSeqProperties
  <2> HIDE DEF below
  <2>4. /\ right \in Seq(Parts) /\ Len(right) = top
        /\ right[top] = part /\ \A j \in 1 .. top - 1 : right[j] = below[j]
    BY <1>7, <2>2, <2>3, AppendProperties
  <2> HIDE DEF left, right
  <2>5. \A j \in 1 .. top : left[j] = right[j]
    BY <2>1, <2>2, <2>3, <2>4
  <2>6. left = right
    BY <2>1, <2>4, <2>5, SeqEqual
  <2> QED
    BY <2>6 DEF left, right, below
<1>10. Nests!Up = SubSeq(Nest, 1, top - 1)
  BY <1>5 DEF Nests!Up
<1>11. Nests!AtLineEnd /\ Nest[Nests!Top].id = source.sid
  BY <1>5 DEF Nests!AtLineEnd, Nests!Kind, Part, Refill, AtLineEnd
<1> QED
  BY <1>4, <1>6, <1>7, <1>8, <1>9, <1>10, <1>11 DEF Nests!Refill

(* The terminal alone. *)
LEMMA TerminalNest ==
    ASSUME NEW n \in 0 .. LINE
    PROVE  NestIn(<<>>, Terminal(n)) = <<Nests!Source(0, n)>>
<1>1. <<>> \in Seq(Frames) /\ Len(<<>>) = 0
  BY EmptySeq
<1>2. Last(<<>>, 0) /\ 0 \in 0 .. 0 /\ 0 + 1 = 1
  BY <1>1 DEF Last
<1>3. LineIn(<<>>, Terminal(n), 0) = Terminal(n)
  <2>1. 0 \in 0 .. Len(<<>>) /\ \A j \in 0 + 1 .. Len(<<>>) : CatchAt(<<>>, j)
    BY <1>1
  <2> QED
    BY <1>1, <2>1, LineIsCurrent
<1>4. Entry(<<>>, Terminal(n), 1) = Part("source", Terminal(n))
  BY <1>3 DEF Entry
<1>5. Part("source", Terminal(n)) = Nests!Source(0, n)
  BY DEF Part, Terminal, Nests!Source
<1>6. NestIn(<<>>, Terminal(n)) = [k \in 1 .. 1 |-> Nests!Source(0, n)]
  BY <1>1, <1>4, <1>5 DEF NestIn
<1> QED
  BY <1>6

(* The kernel's variables and its return stack implement Nesting: sources    *)
(* nest, each goes on where it was, and a THROW goes back to the innermost  *)
(* CATCH and the place its source had then, whatever is nested in what, to  *)
(* any depth (kernel.4:1073-1098, 1418-1498).                               *)
THEOREM NestsAsPromisedAlways == Spec => NestsAsPromised
<1>1. Init => Nests!Init
  <2> SUFFICES ASSUME Init PROVE Nests!Init
    OBVIOUS
  <2>1. PICK n \in 0 .. LINE : source = Terminal(n)
    BY DEF Init
  <2>2. rs = <<>> /\ rs \in Seq(Frames)
    BY EmptySeq DEF Init
  <2>3. Nest = NestIn(<<>>, Terminal(n))
    BY <2>1, <2>2, NestIs
  <2> QED
    BY <2>3, TerminalNest DEF Nests!Init
<1>2. IInv /\ IInv' /\ [Next]_vars => [Nests!Next]_Nest
  <2> SUFFICES ASSUME IInv, IInv', [Next]_vars PROVE [Nests!Next]_Nest
    OBVIOUS
  <2>1. TypeOK /\ TypeOK'
    BY DEF IInv
  <2>2. CASE Parse
    BY <2>1, <2>2, ParseNests DEF Nests!Next
  <2>3. CASE EndEvaluate \/ EndFile
    BY <2>1, <2>3, CloseNests DEF Nests!Next
  <2>4. CASE Catch
    BY <2>1, <2>4, CatchNests DEF Nests!Next
  <2>5. CASE EndCatch
    BY <2>1, <2>5, EndCatchNests DEF Nests!Next
  <2>6. CASE Throw
    BY <2>1, <2>6, ThrowNests DEF Nests!Next
  <2>7. ASSUME NEW n \in 0 .. LINE, Refill(n) PROVE Nests!Refill
    BY <2>1, <2>7, RefillNests
  <2>8. ASSUME NEW n \in 0 .. LINE, Evaluate(n) \/ \E fid \in Fids : Included(fid, n) PROVE Nests!Open
    BY <2>1, <2>8, OpenNests
  <2>9. ASSUME NEW n \in 0 .. LINE, Quit(n) PROVE Nests!Quit
    <3>1. Nest' = NestIn(rs', source') /\ rs' = <<>> /\ source' = Terminal(n)
      BY <2>1, <2>9, NestNext DEF Quit
    <3> QED
      BY <3>1, TerminalNest DEF Nests!Quit
  <2>10. CASE UNCHANGED vars
    <3>1. rs' = rs /\ source' = source /\ rs \in Seq(Frames)
      BY <2>10, <2>1 DEF vars, TypeOK
    <3>2. Nest' = NestIn(rs', source') /\ Nest = NestIn(rs, source)
      BY <2>1, <3>1, NestNext, NestIs
    <3> QED
      BY <3>1, <3>2
  <2> QED
    BY <2>2, <2>3, <2>4, <2>5, <2>6, <2>7, <2>8, <2>9, <2>10 DEF Next, Nests!Next
<1> QED
  BY <1>1, <1>2, Invariant, PTL DEF Spec, NestsAsPromised, Nests!Spec
-----------------------------------------------------------------------------
(***************************************************************************)
(* Where lines lie.  A file's line begins no further than INCLUDE-POINTER,   *)
(* which frames saved in order, and after the line it was included from.   *)
(***************************************************************************)
Lies(r, s, p, k) ==
    /\ s.sid > 0 => s.src \in 0 .. ROOM /\ s.src <= p
    /\ \A j \in 1 .. k : r[j].ip <= p
    /\ \A j \in 1 .. k :
          ~CatchAt(r, j) /\ (\A i \in j + 1 .. k : CatchAt(r, i)) /\ r[j].saved.sid > 0 /\ s.sid > 0
             => r[j].saved.src + r[j].saved.len <= s.src

Laid(r, s, p) ==
    /\ Lies(r, s, p, Len(r))
    /\ \A k \in 1 .. Len(r) : Lies(r, r[k].saved, r[k].ip, k - 1)

LEMMA LiesKept ==
    ASSUME NEW q, NEW r, NEW n, Common(q, r, n), NEW s, NEW p, NEW k \in 0 .. n, Lies(r, s, p, k)
    PROVE  Lies(q, s, p, k)
<1>1. \A j \in 1 .. k : q[j] = r[j]
  BY DEF Common
<1>2. ASSUME NEW j \in 1 .. k, \A i \in j + 1 .. k : CatchAt(q, i)
      PROVE  \A i \in j + 1 .. k : CatchAt(r, i)
  <2>1. \A i \in j + 1 .. k : i \in 1 .. k
    BY DEF Common
  <2> QED
    BY <1>1, <1>2, <2>1 DEF CatchAt
<1>3. ASSUME NEW j \in 1 .. k, ~CatchAt(q, j), \A i \in j + 1 .. k : CatchAt(q, i),
             q[j].saved.sid > 0, s.sid > 0
      PROVE  q[j].saved.src + q[j].saved.len <= s.src
  <2>1. q[j] = r[j] /\ ~CatchAt(r, j) /\ \A i \in j + 1 .. k : CatchAt(r, i)
    BY <1>1, <1>2, <1>3 DEF CatchAt
  <2> QED
    BY <1>3, <2>1 DEF Lies
<1>4. \A j \in 1 .. k : q[j].ip <= p
  BY <1>1 DEF Lies
<1> QED
  BY <1>3, <1>4 DEF Lies

LEMMA PushLaid ==
    ASSUME NEW r \in Seq(Frames), NEW f \in Frames, NEW s \in Sources, NEW p \in Nat, Laid(r, s, p),
           f.saved = s, f.ip = p, NEW t \in Sources, NEW o \in Nat,
           \/ f.kind = "catch" /\ t = s /\ o = p
           \/ f.kind = "evaluate" /\ t.sid = -1 /\ o = p
           \/ f.kind = "include" /\ t.src = o /\ o = p + s.len /\ o <= ROOM
    PROVE  Laid(Append(r, f), t, o)
<1> DEFINE q == Append(r, f)
           n == Len(r)
<1>1. n \in Nat /\ Len(q) = n + 1 /\ q[n + 1] = f /\ Common(q, r, n)
  BY Pushed, LenProperties
<1> HIDE DEF q
<1>2. /\ s.len \in Nat /\ s.src \in Int /\ t.src \in Int /\ p <= o
      /\ \A j \in 1 .. n : r[j].ip \in Nat
  <2>1. s.len \in Nat /\ s.src \in Int /\ t.src \in Int
    BY InputAssumption DEF Sources, TIB, STR
  <2>2. ASSUME NEW j \in 1 .. n PROVE r[j].ip \in Nat
    <3>1. r[j] \in Frames
      BY ElementOfSeq
    <3> QED
      BY <3>1 DEF Frames
  <2> QED
    BY <2>1, <2>2
<1>3. Lies(r, s, p, n) /\ \A k \in 1 .. n : Lies(r, r[k].saved, r[k].ip, k - 1)
  BY DEF Laid
<1>4. \A k \in 1 .. n + 1 : Lies(q, q[k].saved, q[k].ip, k - 1)
  <2>1. ASSUME NEW k \in 1 .. n PROVE Lies(q, q[k].saved, q[k].ip, k - 1)
    <3>1. q[k] = r[k] /\ k - 1 \in 0 .. n
      BY <1>1 DEF Common
    <3>2. Lies(q, r[k].saved, r[k].ip, k - 1)
      BY <1>1, <1>3, <3>1, LiesKept
    <3> QED
      BY <3>1, <3>2
  <2>2. Lies(q, s, p, n)
    BY <1>1, <1>3, LiesKept
  <2>3. Lies(q, q[n + 1].saved, q[n + 1].ip, (n + 1) - 1)
    <3>1. (n + 1) - 1 = n
      BY <1>1
    <3> QED
      BY <1>1, <2>2, <3>1
  <2>4. \A k \in 1 .. n + 1 : k = n + 1 \/ k \in 1 .. n
    BY <1>1
  <2> QED
    BY <2>1, <2>3, <2>4
<1>5. /\ s.sid > 0 => s.src \in 0 .. ROOM /\ s.src <= p
      /\ \A j \in 1 .. n : r[j].ip <= p
  BY <1>3 DEF Lies
<1>6. t.sid > 0 => t.src \in 0 .. ROOM /\ t.src <= o
  BY <1>5
<1>7. \A j \in 1 .. n + 1 : q[j].ip <= o
  <2>1. ASSUME NEW j \in 1 .. n PROVE q[j].ip <= o
    <3>1. q[j] = r[j] /\ r[j].ip <= p /\ r[j].ip \in Nat
      BY <1>1, <1>2, <1>5 DEF Common
    <3> QED
      BY <3>1, <1>2
  <2>2. \A j \in 1 .. n + 1 : j = n + 1 \/ j \in 1 .. n
    BY <1>1
  <2> QED
    BY <2>1, <2>2, <1>1, <1>2
<1>8. ASSUME NEW j \in 1 .. n + 1, ~CatchAt(q, j), \A i \in j + 1 .. n + 1 : CatchAt(q, i),
             q[j].saved.sid > 0, t.sid > 0
      PROVE  q[j].saved.src + q[j].saved.len <= t.src
  <2>1. CASE j = n + 1
    <3>1. f.kind # "catch" /\ q[j].saved = s /\ t.src = p + s.len /\ s.src <= p
      BY <2>1, <1>1, <1>5, <1>8 DEF CatchAt
    <3> QED
      BY <3>1, <1>2
  <2>2. CASE j \in 1 .. n
    <3>1. CatchAt(q, n + 1)
      BY <2>2, <1>1, <1>8
    <3>2. f.kind = "catch" /\ t = s
      BY <3>1, <1>1 DEF CatchAt
    <3>3. Lies(q, s, p, n)
      BY <1>1, <1>3, LiesKept
    <3>4. \A i \in j + 1 .. n : CatchAt(q, i)
      BY <2>2, <1>1, <1>8
    <3> QED
      BY <2>2, <3>2, <3>3, <3>4, <1>8 DEF Lies
  <2> QED
    BY <2>1, <2>2, <1>1
<1>9. Lies(q, t, o, n + 1)
  BY <1>6, <1>7, <1>8 DEF Lies
<1>10. Laid(q, t, o)
  BY <1>1, <1>4, <1>9 DEF Laid
<1> QED
  BY <1>10 DEF q

(* Cut back, the pointer as the frame saved it or further. *)
LEMMA CutLaid ==
    ASSUME NEW r \in Seq(Frames), NEW s, NEW p, Laid(r, s, p), NEW c \in 1 .. Len(r), NEW t, NEW o \in Nat,
           \/ t = r[c].saved /\ r[c].ip <= o
           \/ c = Len(r) /\ CatchAt(r, c) /\ t = s /\ o = p
    PROVE  Laid(SubSeq(r, 1, c - 1), t, o)
<1> DEFINE q == SubSeq(r, 1, c - 1)
<1>1. Len(q) = c - 1 /\ Common(q, r, c - 1) /\ c \in Nat /\ Len(r) \in Nat /\ c - 1 \in 0 .. c - 1
  BY Cut, LenProperties
<1> HIDE DEF q
<1>2. ASSUME NEW k \in 1 .. c - 1 PROVE Lies(q, q[k].saved, q[k].ip, k - 1)
  <2>1. q[k] = r[k] /\ k - 1 \in 0 .. c - 1 /\ k \in 1 .. Len(r)
    BY <1>1 DEF Common
  <2>2. Lies(r, r[k].saved, r[k].ip, k - 1)
    BY <2>1 DEF Laid
  <2> QED
    BY <1>1, <2>1, <2>2, LiesKept
<1>3. ASSUME NEW j \in 1 .. Len(r) PROVE r[j].ip \in Nat /\ r[j].saved.src \in Int
  <2>1. r[j] \in Frames
    BY ElementOfSeq
  <2>2. r[j].ip \in Nat /\ r[j].saved \in Sources
    BY <2>1 DEF Frames
  <2> QED
    BY <2>2 DEF Sources, TIB, STR
<1>4. Lies(r, t, o, c - 1)
  <2>1. CASE t = r[c].saved /\ r[c].ip <= o
    <3>1. Lies(r, t, r[c].ip, c - 1)
      BY <2>1 DEF Laid
    <3>2. \A j \in 1 .. c - 1 : r[j].ip <= o
      BY <2>1, <3>1, <1>1, <1>3 DEF Lies
    <3>3. t.sid > 0 => t.src \in 0 .. ROOM /\ t.src <= o
      BY <2>1, <3>1, <1>3 DEF Lies
    <3> QED
      BY <3>1, <3>2, <3>3 DEF Lies
  <2>2. CASE c = Len(r) /\ CatchAt(r, c) /\ t = s /\ o = p
    <3>1. Lies(r, t, o, c)
      BY <2>2 DEF Laid
    <3>2. ASSUME NEW j \in 1 .. c - 1, \A i \in j + 1 .. c - 1 : CatchAt(r, i)
          PROVE  j \in 1 .. c /\ \A i \in j + 1 .. c : CatchAt(r, i)
      BY <2>2, <3>2, <1>1
    <3>3. \A j \in 1 .. c - 1 : r[j].ip <= o
      BY <3>1, <1>1 DEF Lies
    <3> QED
      BY <3>1, <3>2, <3>3 DEF Lies
  <2> QED
    BY <2>1, <2>2
<1>5. Lies(q, t, o, c - 1)
  BY <1>1, <1>4, LiesKept
<1>6. Laid(q, t, o)
  BY <1>1, <1>2, <1>5 DEF Laid
<1> QED
  BY <1>6 DEF q

LaidInv == Laid(rs, source, ip)

LEMMA SourceNumbers ==
    ASSUME NEW s \in Sources
    PROVE  s.src \in Int /\ s.len \in Nat /\ s.in \in Nat
BY InputAssumption DEF Sources, TIB, STR

LEMMA IsFile ==
    ASSUME NEW f, NEW s, Began(f, s), s.sid # -1
    PROVE  s.sid > 0
<1>1. s.sid \in Fids
  BY DEF Began
<1>2. \A x \in Fids : x > 0
  BY InputAssumption
<1> QED
  BY <1>1, <1>2

LEMMA SameLaid ==
    ASSUME LaidInv, rs' = rs, ip' = ip, source'.sid = source.sid, source'.src = source.src
    PROVE  LaidInv'
<1>1. Lies(rs, source', ip, Len(rs))
  BY DEF LaidInv, Laid, Lies
<1>2. Laid(rs', source', ip')
  BY <1>1 DEF LaidInv, Laid
<1> QED
  BY <1>2 DEF LaidInv, Laid, Lies, CatchAt

LEMMA PushLaidInv ==
    ASSUME IInv, IInv', LaidInv, NEW kind \in {"evaluate", "include", "catch"}, Push(kind),
           \/ kind = "catch" /\ source' = source /\ ip' = ip
           \/ kind = "evaluate" /\ source'.sid = -1 /\ ip' = ip
           \/ kind = "include" /\ source'.src = ip' /\ ip' = ip + source.len /\ ip' <= ROOM
    PROVE  LaidInv'
<1> DEFINE f == [kind |-> kind, saved |-> source, ip |-> ip, handler |-> handler]
<1>1. /\ rs \in Seq(Frames) /\ rs' = Append(rs, f) /\ source \in Sources /\ source' \in Sources
      /\ ip \in Nat /\ ip' \in Nat
  BY DEF IInv, TypeOK, Push
<1>2. f \in Frames /\ f.kind = kind /\ f.saved = source /\ f.ip = ip
  BY InputAssumption DEF IInv, TypeOK, Frames
<1> HIDE DEF f
<1>3. Laid(Append(rs, f), source', ip')
  BY <1>1, <1>2, PushLaid DEF LaidInv
<1>4. Laid(rs', source', ip')
  BY <1>1, <1>3
<1> QED
  BY <1>4 DEF LaidInv, Laid, Lies, CatchAt

LEMMA CutLaidInv ==
    ASSUME IInv, IInv', LaidInv, NEW c \in 1 .. Depth, rs' = SubSeq(rs, 1, c - 1),
           \/ source' = rs[c].saved /\ rs[c].ip <= ip'
           \/ c = Depth /\ CatchAt(rs, c) /\ source' = source /\ ip' = ip
    PROVE  LaidInv'
<1>1. rs \in Seq(Frames) /\ Depth = Len(rs) /\ ip' \in Nat
  BY DEF IInv, TypeOK, Depth
<1>2. Laid(SubSeq(rs, 1, c - 1), source', ip')
  BY <1>1, CutLaid DEF LaidInv
<1>3. Laid(rs', source', ip')
  BY <1>2
<1> QED
  BY <1>3 DEF LaidInv, Laid, Lies, CatchAt

LEMMA LaidInductive == IInv /\ IInv' /\ LaidInv /\ [Next]_vars => LaidInv'
<1> SUFFICES ASSUME IInv, IInv', LaidInv, [Next]_vars PROVE LaidInv'
  OBVIOUS
<1>1. CASE Parse
  <2>1. source'.sid = source.sid /\ source'.src = source.src
    BY <1>1 DEF Parse, IInv, TypeOK, Sources
  <2> QED
    BY <1>1, <2>1, SameLaid DEF Parse
<1>2. ASSUME NEW n \in 0 .. LINE, Refill(n) PROVE LaidInv'
  <2>1. source'.sid = source.sid /\ source'.src = source.src
    BY <1>2 DEF Refill, IInv, TypeOK, Sources
  <2> QED
    BY <1>2, <2>1, SameLaid DEF Refill
<1>3. CASE EndEvaluate \/ EndFile
  <2>1. Depth \in 1 .. Depth /\ rs' = SubSeq(rs, 1, Depth - 1) /\ source' = rs[Depth].saved
    BY <1>3, TopIsFrame DEF EndEvaluate, EndFile, Up, Frame
  <2>2. rs[Depth].ip <= ip /\ rs[Depth].ip \in Nat
    <3>1. rs \in Seq(Frames) /\ Depth = Len(rs)
      BY DEF IInv, TypeOK, Depth
    <3>2. rs[Depth] \in Frames
      BY <2>1, <3>1, ElementOfSeq
    <3> QED
      BY <2>1, <3>1, <3>2 DEF LaidInv, Laid, Lies, Frames
  <2>3. ip' = ip \/ ip' = rs[Depth].ip
    BY <1>3 DEF EndEvaluate, EndFile, Frame
  <2>4. rs[Depth].ip <= ip'
    BY <2>2, <2>3
  <2> QED
    BY <2>1, <2>4, CutLaidInv
<1>4. CASE Catch
  BY <1>4, PushLaidInv DEF Catch
<1>5. CASE EndCatch
  <2>1. /\ Depth \in 1 .. Depth /\ rs' = SubSeq(rs, 1, Depth - 1) /\ source' = source
        /\ ip' = ip /\ CatchAt(rs, Depth)
    BY <1>5, TopIsFrame DEF EndCatch, Up, Frame
  <2> QED
    BY <2>1, CutLaidInv
<1>6. CASE Throw
  <2>1. handler \in 1 .. Depth /\ Depth = Len(rs)
    BY <1>6, LenProperties DEF Throw, IInv, TypeOK, Chain, Below, Depth
  <2>2. rs[handler].ip <= ip
    BY <2>1 DEF LaidInv, Laid, Lies
  <2> QED
    BY <1>6, <2>1, <2>2, CutLaidInv DEF Throw
<1>7. ASSUME NEW n \in 0 .. LINE, Evaluate(n) PROVE LaidInv'
  BY <1>7, PushLaidInv DEF Evaluate
<1>8. ASSUME NEW n \in 0 .. LINE, NEW fid \in Fids, Included(fid, n) PROVE LaidInv'
  <2>1. Push("include") /\ source'.src = ip' /\ ip' = ip + source.len /\ ip' <= ROOM
    BY <1>8 DEF Included
  <2> QED
    BY <2>1, PushLaidInv
<1>9. ASSUME NEW n \in 0 .. LINE, Quit(n) PROVE LaidInv'
  <2>1. rs' = <<>> /\ Len(rs') = 0 /\ source'.sid = 0
    BY <1>9, EmptySeq DEF Quit, Terminal
  <2> QED
    BY <2>1 DEF LaidInv, Laid, Lies
<1>10. CASE UNCHANGED vars
  BY <1>10, SameLaid DEF vars
<1> QED
  BY <1>1, <1>2, <1>3, <1>4, <1>5, <1>6, <1>7, <1>8, <1>9, <1>10 DEF Next

LEMMA LaidAlways == Spec => []LaidInv
<1>1. Init => LaidInv
  <2> SUFFICES ASSUME Init PROVE LaidInv
    OBVIOUS
  <2>1. Len(rs) = 0 /\ source.sid = 0
    BY EmptySeq DEF Init, Terminal
  <2> QED
    BY <2>1 DEF LaidInv, Laid, Lies
<1> QED
  BY <1>1, LaidInductive, Invariant, PTL DEF Spec

(* With no string among the sources, the line of each file is before where   *)
(* the current source's is.                                                *)
LEMMA BeforeCurrent ==
    ASSUME IInv, LaidInv, \A s \in Active : s.sid # -1,
           NEW j \in 1 .. Depth, ~CatchAt(rs, j), rs[j].saved.sid > 0
    PROVE  source.sid > 0 /\ rs[j].saved.src + rs[j].saved.len <= source.src
<1> DEFINE Fails(k) == ~(source.sid > 0 /\ rs[k].saved.src + rs[k].saved.len <= source.src)
           Bad == {k \in 1 .. Depth : ~CatchAt(rs, k) /\ rs[k].saved.sid > 0 /\ Fails(k)}
<1> SUFFICES ASSUME j \in Bad PROVE FALSE
  OBVIOUS
<1>1. rs \in Seq(Frames) /\ Depth = Len(rs) /\ Depth \in Nat /\ source \in Sources /\ Sourced(rs, source)
  BY LenProperties DEF IInv, TypeOK, Depth
<1>2. PICK k \in Bad : \A i \in Bad : i <= k
  <2> DEFINE T == {Depth - i : i \in Bad}
  <2>1. T \in SUBSET Nat /\ T # {}
    BY <1>1
  <2>2. PICK x \in T : \A y \in T : x <= y
    BY <2>1, LeastOf
  <2>3. PICK k \in Bad : x = Depth - k
    BY <2>2
  <2>4. ASSUME NEW i \in Bad PROVE i <= k
    <3>1. Depth - k <= Depth - i
      BY <2>2, <2>3
    <3> QED
      BY <3>1, <1>1
  <2> QED
    BY <2>3, <2>4
<1>3. /\ k \in 1 .. Len(rs) /\ k \in 0 .. Len(rs) /\ k \in Nat /\ ~CatchAt(rs, k)
      /\ rs[k].saved.sid > 0 /\ Fails(k)
  BY <1>1, <1>2
<1> HIDE DEF Fails
<1>4. CASE \A i \in k + 1 .. Len(rs) : CatchAt(rs, i)
  <2>1. Began(rs[k], source)
    BY <1>1, <1>3, <1>4 DEF Sourced, Fits, SourceIn
  <2>2. source \in Active
    BY DEF Active
  <2>3. source.sid > 0
    BY <2>1, <2>2, IsFile
  <2>4. rs[k].saved.src + rs[k].saved.len <= source.src
    BY <1>3, <1>4, <2>3 DEF LaidInv, Laid, Lies
  <2> QED
    BY <2>3, <2>4, <1>3 DEF Fails
<1>5. CASE ~(\A i \in k + 1 .. Len(rs) : CatchAt(rs, i))
  <2>1. PICK h \in k + 1 .. Len(rs) :
           ~CatchAt(rs, h) /\ \A i \in k + 1 .. h - 1 : CatchAt(rs, i)
    BY <1>1, <1>3, <1>5, LineOver
  <2> DEFINE t == rs[h].saved
  <2>2. h \in 1 .. Len(rs) /\ k \in 1 .. h - 1 /\ h \in Nat
    BY <1>1, <1>3, <2>1
  <2>3. Began(rs[k], t)
    <3>1. SourceIn(rs, t, h - 1)
      BY <2>2, <1>1 DEF Sourced, Fits
    <3> QED
      BY <2>1, <2>2, <3>1, <1>3 DEF SourceIn
  <2>4. t \in Active
    BY <2>1, <2>2, <1>1 DEF Active, IsCatch, CatchAt
  <2>5. t.sid > 0
    BY <2>3, <2>4, IsFile
  <2>6. rs[k].saved.src + rs[k].saved.len <= t.src
    <3>1. Lies(rs, t, rs[h].ip, h - 1)
      BY <2>2 DEF LaidInv, Laid
    <3> QED
      BY <3>1, <2>1, <2>2, <2>5, <1>3 DEF Lies
  <2>7. h \notin Bad
    BY <1>2, <1>3, <2>2
  <2>8. ~Fails(h)
    BY <2>1, <2>2, <2>5, <2>7, <1>1
  <2>9. source.sid > 0 /\ t.src + t.len <= source.src
    BY <2>8 DEF Fails
  <2>10. rs[h] \in Frames /\ rs[k] \in Frames
    BY <1>1, <1>3, <2>2, ElementOfSeq
  <2>11. t \in Sources /\ rs[k].saved \in Sources
    BY <2>10 DEF Frames
  <2>12. /\ t.src \in Int /\ t.len \in Nat /\ rs[k].saved.src \in Int /\ rs[k].saved.len \in Nat
         /\ source.src \in Int
    BY <2>11, <1>1, SourceNumbers
  <2> HIDE DEF t
  <2>13. \A a, b, e \in Int, m, n \in Nat : a + m <= b /\ b + n <= e => a + m <= e
    OBVIOUS
  <2>14. rs[k].saved.src + rs[k].saved.len <= source.src
    BY <2>6, <2>9, <2>12, <2>13, Zenon
  <2> QED
    BY <2>9, <2>14, <1>3 DEF Fails
<1> QED
  BY <1>4, <1>5

(* Every file's line is before where the next would go. *)
LEMMA BeforeNext ==
    ASSUME IInv, LaidInv, \A s \in Active : s.sid # -1, NEW s \in Active, s.sid > 0
    PROVE  /\ s \in Sources /\ s.src \in 0 .. ROOM
           /\ s.src + s.len <= ip + source.len
           /\ s = source \/ s.src + s.len <= source.src
<1>1. /\ rs \in Seq(Frames) /\ Depth = Len(rs) /\ Depth \in Nat /\ source \in Sources /\ ip \in Nat
  BY LenProperties DEF IInv, TypeOK, Depth
<1>2. source.sid > 0 => source.src \in 0 .. ROOM /\ source.src <= ip
  BY DEF LaidInv, Laid, Lies
<1>3. source.src \in Int /\ source.len \in Nat
  BY <1>1, SourceNumbers
<1>4. CASE s = source
  <2>1. source.sid > 0 /\ source.src + source.len <= ip + source.len
    BY <1>1, <1>2, <1>3, <1>4
  <2> QED
    BY <2>1, <1>1, <1>2, <1>4
<1>5. CASE s # source
  <2>1. PICK j \in 1 .. Depth : ~CatchAt(rs, j) /\ s = rs[j].saved
    BY <1>5 DEF Active, IsCatch, CatchAt
  <2>2. source.sid > 0 /\ s.src + s.len <= source.src
    BY <2>1, BeforeCurrent
  <2>3. s \in Sources
    <3>1. rs[j] \in Frames
      BY <1>1, <2>1, ElementOfSeq
    <3> QED
      BY <2>1, <3>1 DEF Frames
  <2>4. s.src \in Int /\ s.len \in Nat
    BY <2>3, SourceNumbers
  <2>5. s.src \in 0 .. ROOM
    <3>1. Lies(rs, s, rs[j].ip, j - 1)
      BY <1>1, <2>1 DEF LaidInv, Laid
    <3> QED
      BY <3>1 DEF Lies
  <2>6. s.src + s.len <= ip + source.len
    BY <1>1, <1>2, <1>3, <2>2, <2>4
  <2> QED
    BY <2>2, <2>3, <2>5, <2>6
<1> QED
  BY <1>4, <1>5

(* A line read where none of s is leaves s as it was. *)
LEMMA ReadElsewhere ==
    ASSUME TypeOK, NEW s \in Sources, s.sid > 0 => s.src \in 0 .. ROOM,
           NEW at \in Int, NEW n \in 0 .. LINE, NEW fid, LineRead(fid, at, n),
           s.sid > 0 => s.src + s.len <= at, Intact(s, text)
    PROVE  Intact(s, text')
<1> SUFFICES ASSUME s.sid > 0, NEW a \in s.src + s.in .. s.src + s.len - 1
             PROVE  text'[a] = s.sid
  BY DEF Intact
<1>1. s.src \in 0 .. ROOM /\ s.len \in 0 .. LINE /\ s.in \in 0 .. LINE /\ LINE \in Nat /\ ROOM \in Nat
  BY InputAssumption DEF Sources
<1>2. a \in 0 .. ROOM + LINE
  BY <1>1
<1>3. a \in DOMAIN text
  BY <1>2 DEF TypeOK
<1>4. a \notin at .. at + n - 1
  BY <1>1
<1>5. text[a] = s.sid
  BY DEF Intact
<1> QED
  BY <1>3, <1>4, <1>5 DEF LineRead

(* A file's line that is as it was read stays so until it is used up: none    *)
(* is read over it by a file included, or by another's next line, unless a  *)
(* string is being evaluated among them (kernel.4:1461).                   *)
THEOREM LinesKeptAlways == Spec => LinesKept
<1> DEFINE Kept == (\A s \in Active : s.sid # -1) =>
                      \A s \in Active \cap Active' : Intact(s, text) => Intact(s, text')
<1>1. IInv /\ LaidInv /\ [Next]_vars => [Kept]_vars
  <2> SUFFICES ASSUME IInv, LaidInv, [Next]_vars, \A s \in Active : s.sid # -1,
                      NEW s \in Active, Intact(s, text)
               PROVE  Intact(s, text')
    OBVIOUS
  <2>1. CASE text' = text
    BY <2>1
  <2>2. CASE s.sid > 0
    <3>1. /\ s \in Sources /\ s.src \in 0 .. ROOM /\ s.src + s.len <= ip + source.len
          /\ s = source \/ s.src + s.len <= source.src
      BY <2>2, BeforeNext
    <3>2. TypeOK /\ source \in Sources /\ ip \in Nat
      BY DEF IInv, TypeOK
    <3>3. source.src \in Int /\ source.len \in Nat
      BY <3>2, SourceNumbers
    <3>4. ASSUME NEW n \in 0 .. LINE, Refill(n), text' # text
          PROVE  Intact(s, text')
      <4>1. LineRead(source.sid, source.src, n) /\ source.in = source.len
        BY <3>4 DEF Refill, AtLineEnd
      <4>2. CASE s = source
        <5>1. s.src + s.in > s.src + s.len - 1
          BY <4>1, <4>2, <3>3
        <5>2. ~\E a \in s.src + s.in .. s.src + s.len - 1 : TRUE
          BY <4>1, <4>2, <5>1, <3>3
        <5> QED
          BY <5>2 DEF Intact
      <4>3. CASE s.src + s.len <= source.src
        BY <4>1, <4>3, <3>1, <3>2, <3>3, ReadElsewhere
      <4> QED
        BY <4>2, <4>3, <3>1
    <3>5. ASSUME NEW n \in 0 .. LINE, NEW fid \in Fids, Included(fid, n)
          PROVE  Intact(s, text')
      <4>1. LineRead(fid, ip + source.len, n) /\ ip + source.len \in Int
        BY <3>5, <3>2, <3>3 DEF Included
      <4> QED
        BY <4>1, <3>1, <3>2, ReadElsewhere
    <3>6. CASE Parse \/ EndEvaluate \/ EndFile \/ Catch \/ EndCatch \/ Throw \/ UNCHANGED vars
      BY <3>6, <2>1 DEF Parse, EndEvaluate, EndFile, Catch, EndCatch, Throw, vars
    <3>7. ASSUME NEW n \in 0 .. LINE, Evaluate(n) \/ Quit(n)
          PROVE  Intact(s, text')
      BY <3>7, <2>1 DEF Evaluate, Quit
    <3> QED
      BY <2>1, <3>4, <3>5, <3>6, <3>7 DEF Next
  <2>3. CASE ~(s.sid > 0)
    BY <2>3 DEF Intact
  <2> QED
    BY <2>1, <2>2, <2>3
<1> QED
  BY <1>1, Invariant, LaidAlways, PTL DEF Spec, LinesKept
=============================================================================

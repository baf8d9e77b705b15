--------------------------- MODULE TermIO_proofs ---------------------------
(***************************************************************************)
(* What is written comes out once, where it was written to, in an order it *)
(* was written in, and before the input it prompts for: for any processes, *)
(* files, buffer size, texts and number of bytes, with WRITE native or in  *)
(* Forth.                                                                  *)
(***************************************************************************)
EXTENDS TermIO, SequenceTheorems, TLAPS

Byte == [by : Procs, clock : [Procs -> Nat], to : Files]

TypeOK ==
    /\ level \in Levels
    /\ st \in [Procs -> {"unborn", "run", "reading", "reading 0", "waiting", "other", "ended", "reaped"}]
    /\ parent \in [Procs -> Procs]
    /\ fd \in [Procs -> Files \X Files]
    /\ obuf \in [Procs -> Seq(Byte)]
    /\ otty \in [Procs -> {"unasked", "yes", "no"}]
    /\ out \in [Files -> Seq(Byte)]
    /\ clk \in [Procs -> [Procs -> Nat]]
    /\ issued \subseteq Byte

(* How many bytes p has written that it does not hold. *)
Sent == [p \in Procs |-> clk[p][p] - Len(obuf[p])]

(* s is bytes of p's, the first its lo+1st, each following of another's    *)
(* only what S counts.                                                     *)
IsRun(p, s, lo, S) ==
    \A k \in 1 .. Len(s) :
       /\ s[k].by = p /\ s[k].clock[p] = lo + k
       /\ \A q \in Procs \ {p} : s[k].clock[q] <= S[q]

(* What a process holds are its latest bytes, for where its descriptor 1   *)
(* leads; only one that runs, or reads descriptor 0 natively, holds any.   *)
HeldBy(p) ==
    /\ obuf[p] # <<>> => st[p] \in {"run", "reading 0"} /\ otty[p] = "no"
    /\ \A k \in 1 .. Len(obuf[p]) : obuf[p][k].to = fd[p][1]
    /\ IsRun(p, obuf[p], Sent[p], Sent)

Held == \A p \in Procs : HeldBy(p)

(* No process's next byte follows what another holds. *)
Told ==
    /\ \A p \in Procs : \A q \in Procs \ {p} : clk[p][q] <= Sent[q]
    /\ \A p \in Procs : st[p] = "unborn" => clk[p][p] = 0

(* Each byte of a file follows none that comes later, and none of more     *)
(* than S counts.                                                          *)
InOrder(o, S) ==
    \A f \in Files : \A k \in 1 .. Len(o[f]) :
       /\ \A q \in Procs : o[f][k].clock[q] <= S[q]
       /\ \A j \in 1 .. k - 1 : o[f][j].clock[o[f][k].by] < o[f][k].clock[o[f][k].by]

IInv == TypeOK /\ Held /\ Told /\ InOrder(out, Sent) /\ NothingLost
-----------------------------------------------------------------------------
(***************************************************************************)
(* Runs of bytes, and files they are given to.                             *)
(***************************************************************************)
Outs == [Files -> Seq(Byte)]
Counts == [Procs -> Int]

LEMMA GivenType ==
    ASSUME NEW o \in Outs, NEW f \in Files, NEW s \in Seq(Byte)
    PROVE  /\ Given(o, f, s) \in Outs
           /\ Len(Given(o, f, s)[f]) = Len(o[f]) + Len(s)
           /\ \A k \in 1 .. Len(o[f]) : Given(o, f, s)[f][k] = o[f][k]
           /\ \A k \in 1 .. Len(s) : Given(o, f, s)[f][Len(o[f]) + k] = s[k]
           /\ \A g \in Files \ {f} : Given(o, f, s)[g] = o[g]
<1>1. o[f] \in Seq(Byte)
  BY DEF Outs
<1>2. Given(o, f, s) \in Outs /\ Given(o, f, s)[f] = o[f] \o s /\ \A g \in Files \ {f} : Given(o, f, s)[g] = o[g]
  BY <1>1, ConcatProperties DEF Given, Outs
<1>3. /\ Len(o[f] \o s) = Len(o[f]) + Len(s)
      /\ \A k \in 1 .. Len(o[f]) : (o[f] \o s)[k] = o[f][k]
      /\ \A k \in 1 .. Len(s) : (o[f] \o s)[Len(o[f]) + k] = s[k]
  BY <1>1, ConcatProperties, LenProperties, SMTT(30)
<1> QED
  BY <1>2, <1>3

(* Given a run of p's, past all that was counted of p, a file stays in order. *)
LEMMA GivenInOrder ==
    ASSUME NEW o \in Outs, NEW f \in Files, NEW s \in Seq(Byte),
           NEW p \in Procs, NEW S \in Counts, NEW lo \in Int,
           InOrder(o, S), IsRun(p, s, lo, S), S[p] <= lo
    PROVE  InOrder(Given(o, f, s), [S EXCEPT ![p] = lo + Len(s)])
<1> DEFINE o1 == Given(o, f, s)
           S1 == [S EXCEPT ![p] = lo + Len(s)]
<1>1. S1 \in Counts /\ S1[p] = lo + Len(s) /\ \A q \in Procs : S[q] <= S1[q] /\ (q # p => S1[q] = S[q])
  BY LenProperties DEF Counts
<1>2. /\ o1 \in Outs /\ Len(o1[f]) = Len(o[f]) + Len(s)
      /\ \A k \in 1 .. Len(o[f]) : o1[f][k] = o[f][k]
      /\ \A k \in 1 .. Len(s) : o1[f][Len(o[f]) + k] = s[k]
      /\ \A g \in Files \ {f} : o1[g] = o[g]
  BY GivenType
<1> HIDE DEF o1, S1
<1>3. \A g \in Files : Len(o[g]) \in Nat /\ Len(s) \in Nat
  BY LenProperties DEF Outs
<1>4. ASSUME NEW g \in Files, NEW k \in 1 .. Len(o[g])
      PROVE  o[g][k].clock \in [Procs -> Nat]
  <2>1. o[g] \in Seq(Byte)
    BY DEF Outs
  <2>2. o[g][k] \in Byte
    BY <2>1, ElementOfSeq
  <2> QED
    BY <2>2 DEF Byte
<1>5. ASSUME NEW g \in Files, NEW k \in 1 .. Len(o[g])
      PROVE  /\ \A q \in Procs : o[g][k].clock[q] <= S1[q]
             /\ \A j \in 1 .. k - 1 : o[g][j].clock[o[g][k].by] < o[g][k].clock[o[g][k].by]
  <2>1. ASSUME NEW q \in Procs
        PROVE  o[g][k].clock[q] <= S1[q]
    BY <1>1, <1>4 DEF InOrder, Counts
  <2> QED
    BY <2>1 DEF InOrder
<1>6. ASSUME NEW i \in 1 .. Len(s)
      PROVE  /\ s[i].by = p /\ s[i].clock[p] = lo + i
             /\ \A q \in Procs : s[i].clock[q] <= S1[q]
  <2>1. s[i].by = p /\ s[i].clock[p] = lo + i /\ \A q \in Procs \ {p} : s[i].clock[q] <= S[q]
    BY DEF IsRun
  <2>2. \A q \in Procs \ {p} : S1[q] = S[q]
    BY ONLY <1>1
  <2>3. lo + i <= S1[p]
    BY ONLY <1>1, <1>6, <1>3, f \in Files, lo \in Int
  <2>4. \A q \in Procs \ {p} : s[i].clock[q] <= S1[q]
    BY ONLY <2>1, <2>2
  <2> QED
    BY ONLY <2>1, <2>3, <2>4
<1>7. ASSUME NEW k \in 1 .. Len(o1[f]), k > Len(o[f])
      PROVE  /\ \A q \in Procs : o1[f][k].clock[q] <= S1[q]
             /\ \A j \in 1 .. k - 1 : o1[f][j].clock[o1[f][k].by] < o1[f][k].clock[o1[f][k].by]
  <2> DEFINE i == k - Len(o[f])
  <2>1. i \in 1 .. Len(s) /\ k = Len(o[f]) + i
    BY <1>2, <1>3, <1>7
  <2> HIDE DEF i
  <2>2. o1[f][k] = s[i]
    BY <1>2, <2>1
  <2>3. ASSUME NEW j \in 1 .. k - 1
        PROVE  o1[f][j].clock[p] < lo + i
    <3>1. CASE j <= Len(o[f])
      <4>1. j \in 1 .. Len(o[f]) /\ o1[f][j] = o[f][j]
        BY <3>1, <1>2, <1>3
      <4>2. o[f][j].clock[p] <= S[p] /\ o[f][j].clock[p] \in Nat
        BY <4>1, <1>4 DEF InOrder
      <4>3. S[p] \in Int /\ S[p] <= lo
        BY DEF Counts
      <4>4. o[f][j].clock[p] < lo + i
        BY ONLY <4>2, <4>3, <2>1, <1>3, f \in Files, lo \in Int, SMTT(30)
      <4> QED
        BY ONLY <4>1, <4>4
    <3>2. CASE j > Len(o[f])
      <4> DEFINE h == j - Len(o[f])
      <4>1. h \in 1 .. Len(s) /\ h < i /\ j = Len(o[f]) + h
        BY <3>2, <1>3, <2>1
      <4> HIDE DEF h
      <4>2. o1[f][j].clock[p] = lo + h
        BY <4>1, <1>2, <1>6
      <4> QED
        BY <4>1, <4>2, <2>1
    <3> QED
      BY <3>1, <3>2, <1>3, <2>1
  <2> QED
    BY <2>1, <2>2, <2>3, <1>6
<1>8. ASSUME NEW g \in Files, NEW k \in 1 .. Len(o1[g])
      PROVE  /\ \A q \in Procs : o1[g][k].clock[q] <= S1[q]
             /\ \A j \in 1 .. k - 1 : o1[g][j].clock[o1[g][k].by] < o1[g][k].clock[o1[g][k].by]
  <2>1. CASE g = f /\ k > Len(o[f])
    BY <2>1, <1>7
  <2>2. CASE g = f /\ k <= Len(o[f])
    <3>1. k \in 1 .. Len(o[f]) /\ \A j \in 1 .. k - 1 : j \in 1 .. Len(o[f])
      BY <2>2, <1>2, <1>3
    <3> QED
      BY <3>1, <2>2, <1>2, <1>5
  <2>3. CASE g # f
    BY <2>3, <1>2, <1>5
  <2> QED
    BY <2>1, <2>2, <2>3, <1>2, <1>3
<1> QED
  BY <1>8 DEF InOrder, o1, S1

(* What follows no more than S counts follows no more than a larger count. *)
LEMMA MoreCounted ==
    ASSUME NEW o \in Outs, NEW S \in Counts, NEW T \in Counts,
           InOrder(o, S), \A q \in Procs : S[q] <= T[q]
    PROVE  InOrder(o, T)
<1>1. ASSUME NEW f \in Files, NEW k \in 1 .. Len(o[f]), NEW q \in Procs
      PROVE  o[f][k].clock[q] <= T[q]
  <2>1. o[f][k] \in Byte
    BY ElementOfSeq DEF Outs
  <2> QED
    BY <2>1 DEF InOrder, Byte, Counts
<1> QED
  BY <1>1 DEF InOrder

LEMMA RunMoreCounted ==
    ASSUME NEW p \in Procs, NEW s \in Seq(Byte), NEW lo \in Int, NEW S \in Counts, NEW T \in Counts,
           IsRun(p, s, lo, S), \A q \in Procs \ {p} : S[q] <= T[q]
    PROVE  IsRun(p, s, lo, T)
<1>1. ASSUME NEW k \in 1 .. Len(s), NEW q \in Procs \ {p}
      PROVE  s[k].clock[q] <= T[q]
  <2>1. s[k] \in Byte
    BY ElementOfSeq
  <2>2. s[k].clock[q] \in Nat
    BY <2>1 DEF Byte
  <2>3. s[k].clock[q] <= S[q] /\ S[q] <= T[q]
    BY DEF IsRun
  <2> QED
    BY <2>2, <2>3 DEF Counts
<1> QED
  BY <1>1 DEF IsRun

(* A part of a run is a run. *)
LEMMA PartOfRun ==
    ASSUME NEW p \in Procs, NEW s \in Seq(Byte), NEW lo \in Int, NEW S, IsRun(p, s, lo, S),
           NEW a \in 0 .. Len(s), NEW b \in a .. Len(s)
    PROVE  /\ SubSeq(s, a + 1, b) \in Seq(Byte)
           /\ Len(SubSeq(s, a + 1, b)) = b - a
           /\ \A k \in 1 .. b - a : SubSeq(s, a + 1, b)[k] = s[a + k]
           /\ IsRun(p, SubSeq(s, a + 1, b), lo + a, S)
<1> DEFINE t == SubSeq(s, a + 1, b)
<1>1. t \in Seq(Byte) /\ Len(t) = b - a /\ \A k \in 1 .. b - a : t[k] = s[a + k]
  BY SubSeqProperties, LenProperties
<1>2. ASSUME NEW k \in 1 .. Len(t)
      PROVE  a + k \in 1 .. Len(s)
  BY <1>1, LenProperties
<1> QED
  BY <1>1, <1>2 DEF IsRun
-----------------------------------------------------------------------------
(***************************************************************************)
(* What a process has written, and what a step of one process disturbs.    *)
(***************************************************************************)
SentTypes ==
    /\ Sent \in Counts
    /\ \A p \in Procs : Sent[p] = clk[p][p] - Len(obuf[p]) /\ Len(obuf[p]) \in Nat

LEMMA SentType == TypeOK => SentTypes
<1> SUFFICES ASSUME TypeOK PROVE SentTypes
  OBVIOUS
<1>1. ASSUME NEW p \in Procs
      PROVE  clk[p][p] \in Nat /\ Len(obuf[p]) \in Nat
  BY LenProperties DEF TypeOK
<1> QED
  BY <1>1 DEF Sent, Counts, SentTypes

LEMMA ConcatAt ==
    ASSUME NEW s \in Seq(Byte), NEW t \in Seq(Byte)
    PROVE  /\ s \o t \in Seq(Byte)
           /\ Len(s \o t) = Len(s) + Len(t) /\ Len(s) \in Nat /\ Len(t) \in Nat
           /\ \A k \in 1 .. Len(s) : (s \o t)[k] = s[k]
           /\ \A k \in 1 .. Len(t) : (s \o t)[Len(s) + k] = t[k]
BY ConcatProperties, LenProperties

LEMMA RunConcat ==
    ASSUME NEW p \in Procs, NEW lo \in Int, NEW S, NEW s \in Seq(Byte), NEW t \in Seq(Byte),
           IsRun(p, s, lo, S), IsRun(p, t, lo + Len(s), S)
    PROVE  IsRun(p, s \o t, lo, S)
<1>1. /\ Len(s \o t) = Len(s) + Len(t) /\ Len(s) \in Nat /\ Len(t) \in Nat
      /\ \A k \in 1 .. Len(s) : (s \o t)[k] = s[k]
      /\ \A k \in 1 .. Len(t) : (s \o t)[Len(s) + k] = t[k]
  BY ConcatAt
<1>2. ASSUME NEW k \in 1 .. Len(s \o t)
      PROVE  /\ (s \o t)[k].by = p /\ (s \o t)[k].clock[p] = lo + k
             /\ \A q \in Procs \ {p} : (s \o t)[k].clock[q] <= S[q]
  <2>1. CASE k <= Len(s)
    BY <2>1, <1>1 DEF IsRun
  <2>2. CASE k > Len(s)
    <3> DEFINE i == k - Len(s)
    <3>1. i \in 1 .. Len(t) /\ k = Len(s) + i
      BY <2>2, <1>1
    <3> HIDE DEF i
    <3>2. (s \o t)[k] = t[i]
      BY <3>1, <1>1
    <3>3. t[i].by = p /\ t[i].clock[p] = (lo + Len(s)) + i /\ \A q \in Procs \ {p} : t[i].clock[q] <= S[q]
      BY <3>1 DEF IsRun
    <3> QED
      BY <3>1, <3>2, <3>3, <1>1
  <2> QED
    BY <2>1, <2>2, <1>1
<1> QED
  BY <1>2 DEF IsRun

LEMMA NewBytesRun ==
    ASSUME TypeOK, Told, NEW p \in Procs, NEW n \in Nat, NEW d \in {1, 2}
    PROVE  /\ NewBytes(p, n, d) \in Seq(Byte) /\ Len(NewBytes(p, n, d)) = n
           /\ \A k \in 1 .. n : NewBytes(p, n, d)[k].to = fd[p][d]
           /\ IsRun(p, NewBytes(p, n, d), clk[p][p], Sent)
           /\ Range(NewBytes(p, n, d)) = {NewBytes(p, n, d)[k] : k \in 1 .. n}
           /\ n = 0 => NewBytes(p, n, d) = <<>>
<1> DEFINE e(k) == [by |-> p, clock |-> [clk[p] EXCEPT ![p] = @ + k], to |-> fd[p][d]]
<1>1. ASSUME NEW k \in 1 .. n
      PROVE  /\ e(k) \in Byte /\ e(k).by = p /\ e(k).to = fd[p][d] /\ e(k).clock[p] = clk[p][p] + k
             /\ \A q \in Procs \ {p} : e(k).clock[q] = clk[p][q]
  <2>0. clk \in [Procs -> [Procs -> Nat]]
    BY DEF TypeOK
  <2>1. clk[p] \in [Procs -> Nat] /\ clk[p][p] + k \in Nat
    BY <2>0
  <2>2. fd[p] \in Files \X Files
    BY DEF TypeOK
  <2>3. fd[p][d] \in Files
    BY <2>2
  <2> QED
    BY <2>1, <2>3 DEF Byte
<1>2. NewBytes(p, n, d) = [k \in 1 .. n |-> e(k)]
  BY DEF NewBytes
<1> HIDE DEF e
<1>3. NewBytes(p, n, d) \in Seq(Byte) /\ Len(NewBytes(p, n, d)) = n
  BY <1>1, <1>2
<1>4. \A k \in 1 .. n : NewBytes(p, n, d)[k] = e(k)
  BY <1>2
<1>5. IsRun(p, NewBytes(p, n, d), clk[p][p], Sent)
  BY <1>1, <1>3, <1>4 DEF IsRun, Told
<1>6. Range(NewBytes(p, n, d)) = {NewBytes(p, n, d)[k] : k \in 1 .. n}
  BY <1>2 DEF Range
<1> QED
  BY <1>1, <1>3, <1>4, <1>5, <1>6, EmptySeq

(* Of a step of p alone: what p then holds is shown apart. *)
LEMMA OthersKeep ==
    ASSUME TypeOK, TypeOK', Held, Told, NEW p \in Procs,
           \A q \in Procs \ {p} :
              /\ clk'[q] = clk[q] /\ obuf'[q] = obuf[q] /\ fd'[q] = fd[q]
              /\ otty'[q] = otty[q] /\ st'[q] = st[q],
           \A q \in Procs \ {p} : clk'[p][q] = clk[p][q],
           st[p] # "unborn", st'[p] # "unborn",
           Sent[p] <= Sent'[p], HeldBy(p)'
    PROVE  /\ Held' /\ Told'
           /\ \A q \in Procs : Sent[q] <= Sent'[q]
<1>1. SentTypes /\ SentTypes'
  BY SentType, PTL
<1>2. ASSUME NEW q \in Procs, q # p
      PROVE  Sent'[q] = Sent[q]
  BY <1>1, <1>2 DEF SentTypes
<1>3. \A q \in Procs : Sent[q] <= Sent'[q]
  BY <1>1, <1>2 DEF SentTypes, Counts
<1>4. ASSUME NEW q \in Procs, q # p
      PROVE  HeldBy(q)'
  <2>1. obuf[q] \in Seq(Byte) /\ Sent[q] \in Int
    BY <1>1 DEF TypeOK, SentTypes, Counts
  <2>2. IsRun(q, obuf[q], Sent[q], Sent)
    BY DEF Held, HeldBy
  <2>3. IsRun(q, obuf[q], Sent[q], Sent')
    BY <2>1, <2>2, <1>1, <1>3, RunMoreCounted DEF SentTypes
  <2>4. (IsRun(q, obuf[q], Sent[q], Sent))'
    BY <2>3, <1>2, <1>4 DEF IsRun
  <2>5. (obuf[q] # <<>> => st[q] \in {"run", "reading 0"} /\ otty[q] = "no")'
    BY <1>4 DEF Held, HeldBy
  <2>6. (\A k \in 1 .. Len(obuf[q]) : obuf[q][k].to = fd[q][1])'
    <3>1. obuf'[q] = obuf[q] /\ fd'[q] = fd[q]
      BY <1>4
    <3>2. \A k \in 1 .. Len(obuf[q]) : obuf[q][k].to = fd[q][1]
      BY DEF Held, HeldBy
    <3> QED
      BY <3>1, <3>2
  <2> QED
    BY <2>4, <2>5, <2>6 DEF HeldBy
<1>5. Held'
  BY <1>4 DEF Held
<1>6. ASSUME NEW r \in Procs, NEW q \in Procs \ {r}
      PROVE  clk'[r][q] <= Sent'[q]
  <2>1. clk'[r][q] = clk[r][q] /\ clk[r][q] <= Sent[q] /\ Sent[q] <= Sent'[q]
    BY <1>3 DEF Told
  <2>2. clk[r][q] \in Nat
    BY DEF TypeOK
  <2> QED
    BY <2>1, <2>2, <1>1 DEF SentTypes, Counts
<1>7. \A r \in Procs : st'[r] = "unborn" => clk'[r][r] = 0
  BY DEF Told
<1> QED
  BY <1>3, <1>5, <1>6, <1>7 DEF Told

(* What p has written and not yet given, if it writes n bytes now. *)
Written(p, n, d) == obuf[p] \o NewBytes(p, n, d)

LEMMA WrittenRun ==
    ASSUME TypeOK, Held, Told, NEW p \in Procs, NEW n \in Nat, NEW d \in {1, 2}
    PROVE  /\ obuf[p] \in Seq(Byte) /\ Len(obuf[p]) \in Nat /\ Sent[p] \in Int
           /\ Written(p, n, d) \in Seq(Byte)
           /\ Len(Written(p, n, d)) = Len(obuf[p]) + n
           /\ \A k \in 1 .. Len(obuf[p]) : Written(p, n, d)[k] = obuf[p][k]
           /\ \A k \in 1 .. n : Written(p, n, d)[Len(obuf[p]) + k] = NewBytes(p, n, d)[k]
           /\ IsRun(p, Written(p, n, d), Sent[p], Sent)
<1>1. obuf[p] \in Seq(Byte) /\ Len(obuf[p]) \in Nat
  BY LenProperties DEF TypeOK
<1>2. Sent[p] \in Int /\ Sent[p] + Len(obuf[p]) = clk[p][p]
  <2>1. clk \in [Procs -> [Procs -> Nat]]
    BY DEF TypeOK
  <2>2. clk[p][p] \in Nat
    BY <2>1
  <2> QED
    BY <1>1, <2>2, SentType DEF SentTypes, Counts
<1>3. /\ NewBytes(p, n, d) \in Seq(Byte) /\ Len(NewBytes(p, n, d)) = n
      /\ IsRun(p, NewBytes(p, n, d), clk[p][p], Sent)
  BY NewBytesRun
<1>4. IsRun(p, obuf[p], Sent[p], Sent)
  BY DEF Held, HeldBy
<1>5. IsRun(p, Written(p, n, d), Sent[p], Sent)
  BY <1>1, <1>2, <1>3, <1>4, RunConcat DEF Written
<1> DEFINE new == NewBytes(p, n, d)
<1>6. new \in Seq(Byte) /\ Len(new) = n
  BY <1>3
<1> HIDE DEF new
<1>7. /\ obuf[p] \o new \in Seq(Byte) /\ Len(obuf[p] \o new) = Len(obuf[p]) + Len(new)
      /\ \A k \in 1 .. Len(obuf[p]) : (obuf[p] \o new)[k] = obuf[p][k]
      /\ \A k \in 1 .. Len(new) : (obuf[p] \o new)[Len(obuf[p]) + k] = new[k]
  BY <1>1, <1>6, ConcatAt
<1> QED
  BY <1>1, <1>2, <1>5, <1>6, <1>7 DEF Written, new

LEMMA SentTypePrime == TypeOK' => SentTypes'
BY SentType, PTL

(* No byte is lost when those that p's step takes from its buffer are given *)
(* where its descriptor 1 leads, and its new ones are given or held.       *)
LEMMA NoneLost ==
    ASSUME TypeOK, TypeOK', Held, Held', NothingLost, NEW p \in Procs,
           \A q \in Procs \ {p} : obuf'[q] = obuf[q],
           \A f \in Files : \A b \in Byte : In(b, out[f]) => In(b, out'[f]),
           \A b \in issued' : b \in issued \/ In(b, out'[b.to]) \/ (b.by = p /\ In(b, obuf'[p])),
           \A b \in issued' : In(b, obuf[p]) => In(b, out'[b.to]) \/ (b.by = p /\ In(b, obuf'[p]))
    PROVE  NothingLost'
<1>1. ASSUME NEW b \in issued'
      PROVE  In(b, out'[b.to]) \/ In(b, obuf'[b.by])
  <2>0. b \in Byte /\ b.by \in Procs /\ b.to \in Files
    BY DEF TypeOK, Byte
  <2>1. CASE b \in issued /\ In(b, out[b.to])
    BY <2>0, <2>1
  <2>2. CASE b \in issued /\ In(b, obuf[b.by]) /\ b.by # p
    BY <2>0, <2>2
  <2>3. CASE b \in issued /\ In(b, obuf[b.by]) /\ b.by = p
    BY <2>0, <2>3
  <2>4. CASE b \notin issued
    BY <2>0, <2>4
  <2> QED
    BY <2>1, <2>2, <2>3, <2>4 DEF NothingLost
<1>2. ASSUME NEW b \in issued', In(b, obuf'[b.by])
      PROVE  st'[b.by] \in {"run", "reading", "reading 0", "waiting"}
  <2>1. b.by \in Procs
    BY DEF TypeOK, Byte
  <2>2. obuf'[b.by] # <<>>
    BY <1>2 DEF In
  <2> QED
    BY <2>1, <2>2 DEF Held, HeldBy
<1> QED
  BY <1>1, <1>2 DEF NothingLost

(* A file keeps what it was given. *)
LEMMA GivenKeeps ==
    ASSUME NEW o \in Outs, NEW f \in Files, NEW s \in Seq(Byte)
    PROVE  /\ \A g \in Files : \A b \in Byte : In(b, o[g]) => In(b, Given(o, f, s)[g])
           /\ \A k \in 1 .. Len(s) : In(s[k], Given(o, f, s)[f])
<1> DEFINE o1 == Given(o, f, s)
<1>1. /\ o1 \in Outs /\ Len(o1[f]) = Len(o[f]) + Len(s) /\ Len(o[f]) \in Nat /\ Len(s) \in Nat
      /\ \A k \in 1 .. Len(o[f]) : o1[f][k] = o[f][k]
      /\ \A k \in 1 .. Len(s) : o1[f][Len(o[f]) + k] = s[k]
      /\ \A g \in Files \ {f} : o1[g] = o[g]
  <2>1. o[f] \in Seq(Byte)
    BY DEF Outs
  <2> QED
    BY <2>1, GivenType, LenProperties
<1>2. \A g \in Files : DOMAIN o[g] = 1 .. Len(o[g]) /\ DOMAIN o1[g] = 1 .. Len(o1[g])
  BY <1>1, LenProperties DEF Outs
<1> HIDE DEF o1
<1>3. ASSUME NEW g \in Files, NEW b, In(b, o[g])
      PROVE  In(b, o1[g])
  <2>1. CASE g = f
    <3>1. PICK k \in 1 .. Len(o[f]) : o[f][k] = b
      BY <1>2, <1>3, <2>1 DEF In
    <3>2. k \in 1 .. Len(o1[f]) /\ o1[f][k] = b
      BY <3>1, <1>1
    <3> QED
      BY <3>2, <1>2, <2>1 DEF In
  <2>2. CASE g # f
    BY <2>2, <1>1, <1>3
  <2> QED
    BY <2>1, <2>2
<1>4. ASSUME NEW k \in 1 .. Len(s)
      PROVE  In(s[k], o1[f])
  <2>1. Len(o[f]) + k \in 1 .. Len(o1[f])
    BY <1>1
  <2> QED
    BY <2>1, <1>1, <1>2 DEF In
<1> QED
  BY <1>3, <1>4 DEF o1

(* A step of p's that leaves it where it may hold what it holds. *)
Moves(p) ==
    /\ level' \in Levels /\ parent' \in [Procs -> Procs]
    /\ st' \in [Procs -> {"unborn", "run", "reading", "reading 0", "waiting", "other", "ended", "reaped"}]
    /\ fd' \in [Procs -> Files \X Files]
    /\ otty' \in [Procs -> {"unasked", "yes", "no"}]
    /\ \A q \in Procs \ {p} : fd'[q] = fd[q] /\ otty'[q] = otty[q] /\ st'[q] = st[q]
    /\ st[p] # "unborn" /\ st'[p] # "unborn"
    /\ obuf'[p] # <<>> => st'[p] \in {"run", "reading 0"} /\ otty'[p] = "no" /\ fd'[p] = fd[p]

(* p writes n bytes to descriptor 1, and the first k of those it then has  *)
(* come out.                                                               *)
Buffers(p, n, k) ==
    /\ clk' = [clk EXCEPT ![p][p] = @ + n]
    /\ issued' = issued \cup Range(NewBytes(p, n, 1))
    /\ out' = Given(out, fd[p][1], SubSeq(Written(p, n, 1), 1, k))
    /\ obuf' = [obuf EXCEPT ![p] = SubSeq(Written(p, n, 1), k + 1, Len(Written(p, n, 1)))]

LEMMA BuffersKeeps ==
    ASSUME IInv, NEW p \in Procs, NEW n \in Nat, NEW k \in 0 .. Len(Written(p, n, 1)),
           Buffers(p, n, k), Moves(p)
    PROVE  IInv'
<1> DEFINE w == Written(p, n, 1)
           a == SubSeq(w, 0 + 1, k)
           b == SubSeq(w, k + 1, Len(w))
<1>0. TypeOK /\ Held /\ Told /\ InOrder(out, Sent) /\ NothingLost
  BY DEF IInv
<1>n. /\ NewBytes(p, n, 1) \in Seq(Byte) /\ Len(NewBytes(p, n, 1)) = n
      /\ \A i \in 1 .. n : NewBytes(p, n, 1)[i].to = fd[p][1]
      /\ Range(NewBytes(p, n, 1)) = {NewBytes(p, n, 1)[i] : i \in 1 .. n}
  BY <1>0, NewBytesRun
<1>w. /\ w \in Seq(Byte) /\ Len(w) = Len(obuf[p]) + n /\ Len(obuf[p]) \in Nat
      /\ IsRun(p, w, Sent[p], Sent) /\ Sent[p] \in Int
      /\ \A i \in 1 .. Len(obuf[p]) : w[i] = obuf[p][i]
      /\ \A i \in 1 .. n : w[Len(obuf[p]) + i] = NewBytes(p, n, 1)[i]
  BY <1>0, WrittenRun
<1>1. Len(w) \in Nat
  BY <1>w
<1>2. /\ a \in Seq(Byte) /\ Len(a) = k /\ IsRun(p, a, Sent[p], Sent)
      /\ \A i \in 1 .. k : a[i] = w[i]
  <2> HIDE DEF w
  <2>0. 0 \in 0 .. Len(w) /\ k \in 0 .. Len(w)
    BY <1>1 DEF w
  <2>1. /\ a \in Seq(Byte) /\ Len(a) = k - 0 /\ IsRun(p, a, Sent[p] + 0, Sent)
        /\ \A i \in 1 .. k - 0 : a[i] = w[0 + i]
    <3>1. w \in Seq(Byte) /\ Sent[p] \in Int /\ IsRun(p, w, Sent[p], Sent)
      BY <1>w
    <3>2. k \in 0 .. Len(w)
      BY <2>0
    <3> QED
      BY ONLY p \in Procs, <3>1, <3>2, <2>0, PartOfRun DEF a
  <2> QED
    BY <2>1, <1>w
<1>3. /\ b \in Seq(Byte) /\ Len(b) = Len(w) - k /\ IsRun(p, b, Sent[p] + k, Sent)
      /\ \A i \in 1 .. Len(w) - k : b[i] = w[k + i]
  <2> HIDE DEF w
  <2>1. w \in Seq(Byte) /\ Sent[p] \in Int /\ IsRun(p, w, Sent[p], Sent)
    BY <1>w
  <2>2. k \in 0 .. Len(w) /\ Len(w) \in k .. Len(w)
    BY <1>1 DEF w
  <2> QED
    BY ONLY p \in Procs, <2>1, <2>2, PartOfRun, SMTT(30) DEF b
<1>4. /\ clk' = [clk EXCEPT ![p][p] = @ + n] /\ obuf' = [obuf EXCEPT ![p] = b]
      /\ out' = Given(out, fd[p][1], a)
      /\ issued' = issued \cup {NewBytes(p, n, 1)[i] : i \in 1 .. n}
  BY <1>n DEF Buffers
<1> HIDE DEF w, a, b
<1>5. fd[p] \in Files \X Files /\ clk \in [Procs -> [Procs -> Nat]] /\ obuf \in [Procs -> Seq(Byte)] /\ out \in Outs
  BY <1>0 DEF TypeOK, Outs
<1>6. fd[p][1] \in Files /\ clk[p][p] \in Nat /\ clk' \in [Procs -> [Procs -> Nat]] /\ obuf' \in [Procs -> Seq(Byte)]
  BY <1>3, <1>4, <1>5
<1>7. TypeOK'
  <2>1. out' \in Outs
    BY <1>2, <1>4, <1>5, <1>6, GivenType
  <2>2. \A i \in 1 .. n : NewBytes(p, n, 1)[i] \in Byte
    BY <1>n, ElementOfSeq
  <2>3. issued \subseteq Byte
    BY <1>0 DEF TypeOK
  <2>4. issued' \subseteq Byte
    BY <1>4, <2>2, <2>3
  <2> QED
    BY <1>6, <2>1, <2>4 DEF TypeOK, Moves, Outs
<1>8. SentTypes /\ SentTypes'
  BY <1>0, <1>7, SentType, SentTypePrime
<1>9. /\ \A q \in Procs \ {p} : clk'[q] = clk[q] /\ obuf'[q] = obuf[q] /\ clk'[p][q] = clk[p][q]
      /\ clk'[p][p] = clk[p][p] + n /\ obuf'[p] = b
  BY <1>4, <1>5
<1>10. Sent'[p] = Sent[p] + k /\ \A q \in Procs \ {p} : Sent'[q] = Sent[q]
  <2>1. Len(obuf'[p]) = (Len(obuf[p]) + n) - k
    BY <1>3, <1>9, <1>w
  <2>2. /\ Sent[p] = clk[p][p] - Len(obuf[p])
        /\ \A q \in Procs : Sent'[q] = clk'[q][q] - Len(obuf'[q]) /\ Sent[q] = clk[q][q] - Len(obuf[q])
    BY <1>8 DEF SentTypes
  <2>3. Sent'[p] = (clk[p][p] + n) - ((Len(obuf[p]) + n) - k) /\ Sent[p] = clk[p][p] - Len(obuf[p])
    BY <2>1, <2>2, <1>9
  <2>4. k \in Int /\ n \in Int
    BY <1>1 DEF w
  <2>c. clk \in [Procs -> [Procs -> Nat]]
    BY <1>0 DEF TypeOK
  <2>d. clk[p][p] \in Int /\ Len(obuf[p]) \in Int
    BY <1>w, <2>c
  <2>5. Sent'[p] = Sent[p] + k
    BY <2>3, <2>4, <2>d
  <2> QED
    BY <2>2, <2>5, <1>9
<1>11. \A i \in 1 .. Len(w) : w[i].to = fd[p][1]
  <2>0. \A i \in 1 .. Len(obuf[p]) : obuf[p][i].to = fd[p][1]
    BY <1>0 DEF Held, HeldBy
  <2>1. \A i \in 1 .. Len(obuf[p]) : w[i].to = fd[p][1]
    BY <1>w, <2>0
  <2>2. \A i \in 1 .. n : w[Len(obuf[p]) + i].to = fd[p][1]
    <3> TAKE i \in 1 .. n
    <3>1. w[Len(obuf[p]) + i] = NewBytes(p, n, 1)[i]
      BY ONLY <1>w, i \in 1 .. n
    <3>2. NewBytes(p, n, 1)[i].to = fd[p][1]
      BY ONLY <1>n, i \in 1 .. n
    <3> QED
      BY ONLY <3>1, <3>2
  <2>3. ASSUME NEW i \in 1 .. Len(w), i > Len(obuf[p])
        PROVE  w[i].to = fd[p][1]
    <3>1. i - Len(obuf[p]) \in 1 .. n /\ i = Len(obuf[p]) + (i - Len(obuf[p]))
      BY <1>1, <1>w, <2>3, SMTT(30)
    <3> QED
      BY <2>2, <3>1
  <2> QED
    BY <2>1, <2>3, <1>1, <1>w
<1>12. HeldBy(p)'
  <2>0. /\ Sent \in Counts /\ Sent' \in Counts /\ Sent[p] + k \in Int
        /\ \A q \in Procs \ {p} : Sent[q] <= Sent'[q]
    BY <1>w, <1>8, <1>10 DEF SentTypes, Counts
  <2>1. IsRun(p, b, Sent[p] + k, Sent')
    BY <1>3, <2>0, RunMoreCounted
  <2>2. (IsRun(p, obuf[p], Sent[p], Sent))'
    BY <2>1, <1>9, <1>10 DEF IsRun
  <2>3. ASSUME NEW i \in 1 .. Len(b)
        PROVE  b[i].to = fd'[p][1]
    <3>1. b # <<>>
      BY <1>3, EmptySeq
    <3>2. fd'[p] = fd[p]
      BY <3>1, <1>9 DEF Moves
    <3>3. k + i \in 1 .. Len(w)
      BY <1>1, <1>3
    <3> QED
      BY <3>2, <3>3, <1>1, <1>3, <1>11
  <2> QED
    BY <2>2, <2>3, <1>9 DEF HeldBy, Moves
<1>13. Held' /\ Told' /\ \A q \in Procs : Sent[q] <= Sent'[q]
  <2>1. Sent[p] <= Sent'[p]
    BY <1>w, <1>10
  <2> QED
    BY <1>0, <1>7, <1>9, <1>12, <2>1, OthersKeep DEF Moves
<1>14. InOrder(out, Sent)'
  <2> DEFINE T == [Sent EXCEPT ![p] = Sent[p] + Len(a)]
  <2>1. InOrder(Given(out, fd[p][1], a), T)
    <3>1. Sent \in Counts /\ Sent[p] <= Sent[p]
      BY <1>w, <1>8 DEF SentTypes
    <3> QED
      BY <1>0, <1>w, <1>2, <1>5, <1>6, <3>1, GivenInOrder
  <2>2. T \in Counts /\ \A q \in Procs : T[q] <= Sent'[q]
    BY <1>2, <1>8, <1>10, <1>13 DEF SentTypes, Counts
  <2> HIDE DEF T
  <2>3. Given(out, fd[p][1], a) \in Outs /\ Sent' \in Counts
    BY <1>2, <1>5, <1>6, <1>8, GivenType DEF SentTypes
  <2>4. InOrder(Given(out, fd[p][1], a), Sent')
    BY <2>1, <2>2, <2>3, MoreCounted
  <2>5. InOrder(out', Sent')
    BY <2>4, <1>4
  <2> QED
    BY <2>5 DEF InOrder
<1>15. NothingLost'
  <2>1. \A f \in Files : \A x \in Byte : In(x, out[f]) => In(x, out'[f])
    BY <1>2, <1>4, <1>5, <1>6, GivenKeeps
  <2>2. \A i \in 1 .. k : In(a[i], out'[fd[p][1]])
    BY <1>2, <1>4, <1>5, <1>6, GivenKeeps
  <2>3. ASSUME NEW i \in 1 .. Len(w)
        PROVE  In(w[i], out'[w[i].to]) \/ (w[i].by = p /\ In(w[i], obuf'[p]))
    <3>1. CASE i <= k
      <4>1. i \in 1 .. k
        BY <3>1
      <4> QED
        BY <4>1, <1>2, <1>11, <2>2
    <3>2. CASE i > k
      <4>1. i - k \in 1 .. Len(w) - k /\ k + (i - k) = i
        BY <3>2, <1>1
      <4>2. w[i] = b[i - k] /\ i - k \in 1 .. Len(b)
        BY <4>1, <1>3
      <4>3. In(w[i], b)
        BY <4>2, <1>3, LenProperties DEF In
      <4> QED
        BY <4>3, <1>w, <1>9 DEF IsRun
    <3> QED
      BY <3>1, <3>2, <1>1
  <2>4. ASSUME NEW x \in issued', In(x, obuf[p])
        PROVE  \E i \in 1 .. Len(w) : x = w[i]
    <3>1. PICK i \in 1 .. Len(obuf[p]) : obuf[p][i] = x
      BY <2>4, <1>5, LenProperties DEF In
    <3>2. i \in 1 .. Len(w)
      BY <1>w
    <3> QED
      BY <3>1, <3>2, <1>w
  <2>5. ASSUME NEW x \in issued', x \notin issued
        PROVE  \E i \in 1 .. Len(w) : x = w[i]
    <3>1. PICK i \in 1 .. n : NewBytes(p, n, 1)[i] = x
      BY <2>5, <1>4
    <3>2. Len(obuf[p]) + i \in 1 .. Len(w)
      BY <1>w
    <3> QED
      BY <3>1, <3>2, <1>w
  <2>6. \A x \in issued' : x \in issued \/ In(x, out'[x.to]) \/ (x.by = p /\ In(x, obuf'[p]))
    BY <2>3, <2>5
  <2>7. \A x \in issued' : In(x, obuf[p]) => In(x, out'[x.to]) \/ (x.by = p /\ In(x, obuf'[p]))
    BY <2>3, <2>4
  <2> QED
    BY <1>0, <1>7, <1>9, <1>13, <2>1, <2>6, <2>7, NoneLost
<1> QED
  BY <1>7, <1>13, <1>14, <1>15 DEF IInv

(* p writes a byte straight to where its descriptor d leads, h of what it   *)
(* held given first and the rest forgotten.                                *)
Puts(p, d, h) ==
    /\ h \in {obuf[p], <<>>}
    /\ clk' = [clk EXCEPT ![p][p] = @ + 1]
    /\ issued' = (IF h = obuf[p] THEN issued ELSE issued \ Range(obuf[p])) \cup Range(NewBytes(p, 1, d))
    /\ out' = Given(Given(out, fd[p][1], h), fd[p][d], NewBytes(p, 1, d))
    /\ obuf' = [obuf EXCEPT ![p] = <<>>]

LEMMA PutsKeeps ==
    ASSUME IInv, NEW p \in Procs, NEW d \in {1, 2}, NEW h, Puts(p, d, h), Moves(p)
    PROVE  IInv'
<1> DEFINE new == NewBytes(p, 1, d)
           o1 == Given(out, fd[p][1], h)
           T1 == [Sent EXCEPT ![p] = Sent[p] + Len(h)]
           T2 == [T1 EXCEPT ![p] = clk[p][p] + Len(new)]
<1>0. TypeOK /\ Held /\ Told /\ InOrder(out, Sent) /\ NothingLost
  BY DEF IInv
<1>n. /\ new \in Seq(Byte) /\ Len(new) = 1 /\ new[1].to = fd[p][d]
      /\ Range(new) = {new[1]} /\ IsRun(p, new, clk[p][p], Sent)
  <2>1. /\ new \in Seq(Byte) /\ Len(new) = 1
        /\ \A i \in 1 .. 1 : new[i].to = fd[p][d]
        /\ IsRun(p, new, clk[p][p], Sent)
        /\ Range(new) = {new[i] : i \in 1 .. 1}
    <3> DEFINE n == 1
    <3>1. n \in Nat
      OBVIOUS
    <3> HIDE DEF n
    <3>2. /\ NewBytes(p, n, d) \in Seq(Byte) /\ Len(NewBytes(p, n, d)) = n
          /\ \A i \in 1 .. n : NewBytes(p, n, d)[i].to = fd[p][d]
          /\ IsRun(p, NewBytes(p, n, d), clk[p][p], Sent)
          /\ Range(NewBytes(p, n, d)) = {NewBytes(p, n, d)[i] : i \in 1 .. n}
      BY ONLY <1>0, p \in Procs, d \in {1, 2}, <3>1, NewBytesRun, ZenonT(60)
    <3> QED
      BY ONLY <3>2 DEF new, n
  <2>2. 1 .. 1 = {1}
    OBVIOUS
  <2> QED
    BY <2>1, <2>2
<1> HIDE DEF new
<1>1. fd[p] \in Files \X Files /\ clk \in [Procs -> [Procs -> Nat]] /\ obuf \in [Procs -> Seq(Byte)] /\ out \in Outs
  BY <1>0 DEF TypeOK, Outs
<1>2. /\ fd[p][1] \in Files /\ fd[p][d] \in Files /\ clk[p][p] \in Nat /\ obuf[p] \in Seq(Byte) /\ Len(obuf[p]) \in Nat
      /\ clk' \in [Procs -> [Procs -> Nat]] /\ obuf' \in [Procs -> Seq(Byte)]
  <2>1. clk' \in [Procs -> [Procs -> Nat]] /\ clk[p][p] \in Nat
    BY <1>1 DEF Puts
  <2>2. obuf' \in [Procs -> Seq(Byte)]
    BY <1>1, EmptySeq DEF Puts
  <2> QED
    BY <1>1, <2>1, <2>2, LenProperties
<1>3. h \in Seq(Byte) /\ Len(h) \in Nat /\ Len(h) <= Len(obuf[p]) /\ IsRun(p, h, Sent[p], Sent)
  <2>1. IsRun(p, obuf[p], Sent[p], Sent)
    BY <1>0 DEF Held, HeldBy
  <2>2. IsRun(p, <<>>, Sent[p], Sent)
    BY EmptySeq DEF IsRun
  <2>3. CASE h = obuf[p]
    BY <2>1, <2>3, <1>2
  <2>4. CASE h = <<>>
    <3>1. h \in Seq(Byte) /\ Len(h) = 0
      BY <2>4, EmptySeq
    <3> QED
      BY <2>2, <2>4, <3>1, <1>2
  <2> QED
    BY <2>3, <2>4 DEF Puts
<1>4. o1 \in Outs /\ out' = Given(o1, fd[p][d], new) /\ out' \in Outs
  <2>1. o1 \in Outs
    BY <1>1, <1>2, <1>3, GivenType
  <2>2. out' = Given(o1, fd[p][d], new)
    BY DEF Puts, new
  <2> HIDE DEF o1
  <2> QED
    BY <2>1, <2>2, <1>2, <1>n, GivenType
<1>5. new[1] \in Byte /\ new[1].by = p
  <2>1. 1 \in 1 .. Len(new)
    BY <1>n
  <2> QED
    BY <2>1, <1>n, ElementOfSeq DEF IsRun
<1>6. issued' \subseteq issued \cup {new[1]}
  <2>1. issued' = (IF h = obuf[p] THEN issued ELSE issued \ Range(obuf[p])) \cup {new[1]}
    BY <1>n DEF Puts, new
  <2> QED
    BY <2>1
<1>7. TypeOK'
  <2>1. issued' \subseteq Byte
    BY <1>0, <1>5, <1>6 DEF TypeOK
  <2> QED
    BY <1>2, <1>4, <2>1 DEF TypeOK, Moves, Outs
<1>8. SentTypes /\ SentTypes'
  BY <1>0, <1>7, SentType, SentTypePrime
<1>9. /\ \A q \in Procs \ {p} : clk'[q] = clk[q] /\ obuf'[q] = obuf[q] /\ clk'[p][q] = clk[p][q]
      /\ clk'[p][p] = clk[p][p] + 1 /\ obuf'[p] = <<>>
  BY <1>1 DEF Puts
<1>10. /\ Sent'[p] = clk[p][p] + 1 /\ Sent[p] = clk[p][p] - Len(obuf[p])
       /\ \A q \in Procs \ {p} : Sent'[q] = Sent[q]
  <2>1. /\ \A q \in Procs : Sent'[q] = clk'[q][q] - Len(obuf'[q])
        /\ \A q \in Procs : Sent[q] = clk[q][q] - Len(obuf[q])
    BY <1>8 DEF SentTypes
  <2>2. Len(obuf'[p]) = 0
    BY <1>9, EmptySeq
  <2>3. Sent'[p] = (clk[p][p] + 1) - 0
    BY <2>1, <2>2, <1>9
  <2>4. Sent'[p] = clk[p][p] + 1
    BY <2>3, <1>2
  <2> QED
    BY <2>1, <2>4, <1>9
<1>11. HeldBy(p)'
  BY <1>9, EmptySeq DEF HeldBy, IsRun
<1>12. Held' /\ Told' /\ \A q \in Procs : Sent[q] <= Sent'[q]
  <2>1. Sent[p] <= Sent'[p]
    BY <1>2, <1>10
  <2> QED
    BY <1>0, <1>7, <1>9, <1>11, <2>1, OthersKeep DEF Moves
<1>13. InOrder(out, Sent)'
  <2>1. Sent \in Counts /\ Sent' \in Counts /\ Sent[p] \in Int
    BY <1>8 DEF SentTypes, Counts
  <2>2. InOrder(o1, T1)
    <3>1. Sent[p] <= Sent[p]
      BY <2>1
    <3> QED
      BY <1>0, <1>1, <1>2, <1>3, <2>1, <3>1, GivenInOrder
  <2>3. /\ T1 \in Counts /\ T1[p] <= clk[p][p] /\ clk[p][p] \in Int
        /\ \A q \in Procs \ {p} : T1[q] = Sent[q]
    BY <2>1, <1>2, <1>3, <1>10 DEF Counts
  <2> HIDE DEF T1
  <2>4. IsRun(p, new, clk[p][p], T1)
    <3>1. \A q \in Procs \ {p} : Sent[q] <= T1[q]
      BY <2>1, <2>3 DEF Counts
    <3> QED
      BY <1>n, <2>1, <2>3, <3>1, RunMoreCounted
  <2> HIDE DEF o1
  <2>5. InOrder(Given(o1, fd[p][d], new), T2)
    BY <1>n, <1>2, <1>4, <2>2, <2>3, <2>4, GivenInOrder
  <2>6. T2 \in Counts /\ \A q \in Procs : T2[q] <= Sent'[q]
    BY <1>n, <1>10, <2>1, <2>3 DEF Counts
  <2> HIDE DEF T2
  <2>7. InOrder(out', Sent')
    BY <1>4, <2>1, <2>5, <2>6, MoreCounted
  <2> QED
    BY <2>7 DEF InOrder
<1>14. NothingLost'
  <2>1. \A f \in Files : \A x \in Byte : In(x, out[f]) => In(x, o1[f])
    BY <1>1, <1>2, <1>3, GivenKeeps
  <2>2. \A i \in 1 .. Len(h) : In(h[i], o1[fd[p][1]])
    BY <1>1, <1>2, <1>3, GivenKeeps
  <2> HIDE DEF o1
  <2>3. \A f \in Files : \A x \in Byte : In(x, o1[f]) => In(x, out'[f])
    BY <1>2, <1>4, <1>n, GivenKeeps
  <2>4. In(new[1], out'[new[1].to])
    <3>1. \A i \in 1 .. Len(new) : In(new[i], out'[fd[p][d]])
      BY <1>2, <1>4, <1>n, GivenKeeps
    <3> QED
      BY <3>1, <1>n
  <2>5. ASSUME NEW x \in issued', In(x, obuf[p])
        PROVE  In(x, out'[x.to])
    <3>1. CASE h = obuf[p]
      <4>1. PICK i \in 1 .. Len(obuf[p]) : obuf[p][i] = x
        BY <2>5, <1>2, LenProperties DEF In
      <4>2. x.to = fd[p][1]
        BY <1>0, <4>1 DEF Held, HeldBy
      <4>3. In(x, o1[fd[p][1]])
        BY <2>2, <3>1, <4>1
      <4>4. x \in Byte
        BY <4>1, <1>2, ElementOfSeq
      <4> QED
        BY <4>2, <4>3, <4>4, <2>3, <1>2
    <3>2. CASE h # obuf[p]
      <4>1. issued' = (issued \ Range(obuf[p])) \cup {new[1]}
        BY <3>2, <1>n DEF Puts, new
      <4>2. x \in Range(obuf[p])
        BY <2>5 DEF In, Range
      <4>3. x = new[1]
        BY <4>1, <4>2
      <4> QED
        BY <4>3, <2>4
    <3> QED
      BY <3>1, <3>2
  <2>6. \A f \in Files : \A x \in Byte : In(x, out[f]) => In(x, out'[f])
    BY <2>1, <2>3
  <2>7. \A x \in issued' : x \in issued \/ In(x, out'[x.to]) \/ (x.by = p /\ In(x, obuf'[p]))
    BY <1>6, <2>4
  <2>8. \A x \in issued' : In(x, obuf[p]) => In(x, out'[x.to]) \/ (x.by = p /\ In(x, obuf'[p]))
    BY <2>5
  <2> QED
    BY <1>0, <1>7, <1>9, <1>12, <2>6, <2>7, <2>8, NoneLost
<1> QED
  BY <1>7, <1>12, <1>13, <1>14 DEF IInv
-----------------------------------------------------------------------------
(***************************************************************************)
(* The operations as those steps.                                          *)
(***************************************************************************)
LEMMA GivenNothing ==
    ASSUME NEW o \in Outs, NEW f \in Files
    PROVE  Given(o, f, <<>>) = o
<1>1. o[f] \in Seq(Byte) /\ o \in [Files -> Seq(Byte)]
  BY DEF Outs
<1>2. o[f] \o <<>> = o[f]
  BY <1>1, ConcatEmptySeq
<1> QED
  BY <1>1, <1>2 DEF Given

LEMMA GivenTwice ==
    ASSUME NEW o \in Outs, NEW f \in Files, NEW s \in Seq(Byte), NEW t \in Seq(Byte)
    PROVE  Given(Given(o, f, s), f, t) = Given(o, f, s \o t)
<1>1. o[f] \in Seq(Byte) /\ o \in [Files -> Seq(Byte)]
  BY DEF Outs
<1>2. (o[f] \o s) \o t = o[f] \o (s \o t)
  BY <1>1, ConcatAssociative
<1> QED
  BY <1>1, <1>2 DEF Given

(* What SubSeq keeps of two sequences in a row. *)
LEMMA Cuts ==
    ASSUME NEW s \in Seq(Byte), NEW t \in Seq(Byte)
    PROVE  /\ SubSeq(s \o t, 1, 0) = <<>>
           /\ SubSeq(s \o t, 0 + 1, Len(s \o t)) = s \o t
           /\ SubSeq(s \o t, 1, Len(s)) = s
           /\ SubSeq(s \o t, Len(s) + 1, Len(s \o t)) = t
           /\ SubSeq(s \o t, 1, Len(s \o t)) = s \o t
           /\ SubSeq(s \o t, Len(s \o t) + 1, Len(s \o t)) = <<>>
<1>1. /\ s \o t \in Seq(Byte) /\ Len(s \o t) = Len(s) + Len(t) /\ Len(s) \in Nat /\ Len(t) \in Nat
      /\ \A k \in 1 .. Len(s) : (s \o t)[k] = s[k]
      /\ \A k \in 1 .. Len(t) : (s \o t)[Len(s) + k] = t[k]
  BY ConcatAt
<1> DEFINE w == s \o t
<1>2. SubSeq(w, 1, Len(w)) = w /\ 0 + 1 = 1
  BY <1>1, SubSeqFull
<1> HIDE DEF w
<1>3. \A k \in 1 .. Len(w) : w[k] \in Byte
  BY <1>1, ElementOfSeq DEF w
<1>4. SubSeq(w, 1, Len(s)) = s
  <2> DEFINE u == SubSeq(w, 1, Len(s))
  <2>1. u \in Seq(Byte) /\ Len(u) = Len(s) /\ \A i \in 1 .. Len(s) : u[i] = w[i]
    <3>1. \A i \in 1 .. Len(s) : w[i] \in Byte
      BY <1>1, <1>3 DEF w
    <3>2. /\ u \in Seq(Byte) /\ Len(u) = IF 1 <= Len(s) THEN Len(s) - 1 + 1 ELSE 0
          /\ \A i \in 1 .. Len(s) - 1 + 1 : u[i] = w[1 + i - 1]
      BY <1>1, <3>1, SubSeqProperties
    <3> QED
      BY <3>2, <1>1
  <2> HIDE DEF u
  <2>2. u = s
    BY <2>1, <1>1, SeqEqual DEF w
  <2> QED
    BY <2>2 DEF u
<1>5. SubSeq(w, Len(s) + 1, Len(w)) = t
  <2> DEFINE u == SubSeq(w, Len(s) + 1, Len(w))
  <2>1. u \in Seq(Byte) /\ Len(u) = Len(t) /\ \A i \in 1 .. Len(t) : u[i] = w[Len(s) + i]
    <3>1. \A i \in Len(s) + 1 .. Len(w) : w[i] \in Byte
      BY <1>1, <1>3 DEF w
    <3>2. /\ u \in Seq(Byte)
          /\ Len(u) = IF Len(s) + 1 <= Len(w) THEN Len(w) - (Len(s) + 1) + 1 ELSE 0
          /\ \A i \in 1 .. Len(w) - (Len(s) + 1) + 1 : u[i] = w[(Len(s) + 1) + i - 1]
      BY <1>1, <3>1, SubSeqProperties DEF w
    <3> QED
      BY <3>2, <1>1 DEF w
  <2> HIDE DEF u
  <2>2. u = t
    BY <2>1, <1>1, SeqEqual DEF w
  <2> QED
    BY <2>2 DEF u
<1>6. SubSeq(w, 1, 0) = <<>> /\ SubSeq(w, Len(w) + 1, Len(w)) = <<>>
  BY <1>1, SubSeqEmpty DEF w
<1> QED
  BY <1>2, <1>4, <1>5, <1>6 DEF w

LEMMA NothingWritten ==
    ASSUME TypeOK, Told, NEW p \in Procs
    PROVE  /\ Written(p, 0, 1) = obuf[p] /\ obuf[p] \in Seq(Byte) /\ Len(obuf[p]) \in Nat
           /\ Range(NewBytes(p, 0, 1)) = {}
           /\ [clk EXCEPT ![p][p] = @ + 0] = clk
<1>1. obuf[p] \in Seq(Byte) /\ clk \in [Procs -> [Procs -> Nat]]
  BY DEF TypeOK
<1>2. NewBytes(p, 0, 1) = <<>> /\ Range(NewBytes(p, 0, 1)) = {NewBytes(p, 0, 1)[k] : k \in 1 .. 0}
  BY NewBytesRun
<1>3. Written(p, 0, 1) = obuf[p]
  BY <1>1, <1>2, ConcatEmptySeq DEF Written
<1>4. [clk EXCEPT ![p][p] = @ + 0] = clk
  BY <1>1
<1> QED
  BY <1>1, <1>2, <1>3, <1>4, LenProperties

(* A flush, and a step that writes nothing. *)
LEMMA FlushKeeps ==
    ASSUME IInv, NEW p \in Procs, Moves(p), t_flush(p), Quiet
    PROVE  IInv'
<1>0. TypeOK /\ Told
  BY DEF IInv
<1>1. /\ Written(p, 0, 1) = obuf[p] /\ obuf[p] \in Seq(Byte) /\ Len(obuf[p]) \in Nat
      /\ Range(NewBytes(p, 0, 1)) = {} /\ [clk EXCEPT ![p][p] = @ + 0] = clk
  BY <1>0, NothingWritten
<1>2. SubSeq(obuf[p], 1, Len(obuf[p])) = obuf[p] /\ SubSeq(obuf[p], Len(obuf[p]) + 1, Len(obuf[p])) = <<>>
  BY <1>1, SubSeqFull, SubSeqEmpty
<1>3. Buffers(p, 0, Len(obuf[p]))
  BY <1>1, <1>2 DEF Buffers, t_flush, Flushed, Given, Quiet
<1>4. Len(obuf[p]) \in 0 .. Len(Written(p, 0, 1)) /\ 0 \in Nat
  BY <1>1
<1> QED
  BY <1>3, <1>4, BuffersKeeps

LEMMA QuietKeeps ==
    ASSUME IInv, NEW p \in Procs, Moves(p), UNCHANGED <<out, obuf>>, Quiet
    PROVE  IInv'
<1>0. TypeOK /\ Told
  BY DEF IInv
<1>1. /\ Written(p, 0, 1) = obuf[p] /\ obuf[p] \in Seq(Byte) /\ Len(obuf[p]) \in Nat
      /\ Range(NewBytes(p, 0, 1)) = {} /\ [clk EXCEPT ![p][p] = @ + 0] = clk
  BY <1>0, NothingWritten
<1>2. out \in Outs /\ fd[p][1] \in Files /\ obuf \in [Procs -> Seq(Byte)]
  BY <1>0 DEF TypeOK, Outs
<1>3. SubSeq(obuf[p], 0 + 1, Len(obuf[p])) = obuf[p] /\ SubSeq(obuf[p], 1, 0) = <<>>
  <2>1. 0 + 1 = 1
    OBVIOUS
  <2> QED
    BY <2>1, <1>1, SubSeqFull, SubSeqEmpty
<1>4. Buffers(p, 0, 0)
  <2>1. out' = Given(out, fd[p][1], SubSeq(Written(p, 0, 1), 1, 0))
    BY <1>1, <1>2, <1>3, GivenNothing
  <2>2. obuf' = [obuf EXCEPT ![p] = SubSeq(Written(p, 0, 1), 0 + 1, Len(Written(p, 0, 1)))]
    BY <1>1, <1>2, <1>3
  <2> QED
    BY <1>1, <2>1, <2>2 DEF Buffers, Quiet
<1>5. 0 \in 0 .. Len(Written(p, 0, 1)) /\ 0 \in Nat
  BY <1>1
<1> QED
  BY <1>4, <1>5, BuffersKeeps

LEMMA DivBounds ==
    ASSUME NEW m \in Nat, NEW t \in Nat \ {0}
    PROVE  t * (m \div t) \in 0 .. m
OBVIOUS

(* The loop of t_write flushes some of what it has, all of it to a terminal. *)
LEMMA WriteBuffers ==
    ASSUME IInv, NEW p \in Procs, NEW n \in Nat, t_write(p, n), Issue(p, NewBytes(p, n, 1))
    PROVE  \E k \in 0 .. Len(Written(p, n, 1)) :
              Buffers(p, n, k) /\ (obuf'[p] # <<>> => Asked(p) = "no")
<1> DEFINE w == Written(p, n, 1)
           k == IF Asked(p) = "yes" THEN Len(w) ELSE IF n = 0 THEN 0 ELSE Overflow(Len(w))
<1>0. TypeOK /\ Held /\ Told
  BY DEF IInv
<1>1. w \in Seq(Byte) /\ Len(w) \in Nat /\ obuf \in [Procs -> Seq(Byte)] /\ Len(NewBytes(p, n, 1)) = n
  <2>1. w \in Seq(Byte) /\ Len(NewBytes(p, n, 1)) = n
    BY <1>0, WrittenRun, NewBytesRun
  <2> QED
    BY <2>1, <1>0, LenProperties DEF TypeOK
<1>2. out' = Given(out, fd[p][1], SubSeq(w, 1, k)) /\ obuf' = [obuf EXCEPT ![p] = SubSeq(w, k + 1, Len(w))]
  BY DEF t_write, Written
<1>3. Asked(p) \in {"yes", "no"}
  BY <1>0 DEF Asked, TypeOK
<1> HIDE DEF w
<1>4. k \in 0 .. Len(w)
  <2>1. ASSUME Len(w) # 0
        PROVE  Overflow(Len(w)) \in 0 .. Len(w)
    <3>1. Len(w) - 1 \in Nat /\ TIOBUF \in Nat \ {0}
      BY <1>1, <2>1, TermAssumption
    <3>2. TIOBUF * ((Len(w) - 1) \div TIOBUF) \in 0 .. Len(w) - 1
      BY <3>1, DivBounds
    <3> QED
      BY <3>2, <1>1, <2>1 DEF Overflow
  <2>2. Len(w) = 0 => Overflow(Len(w)) = 0
    BY DEF Overflow
  <2> HIDE DEF Overflow
  <2> QED
    BY <1>1, <2>1, <2>2
<1> HIDE DEF k
<1>5. Buffers(p, n, k)
  BY <1>1, <1>2 DEF Buffers, Issue, w
<1>6. ASSUME Asked(p) = "yes"
      PROVE  obuf'[p] = <<>>
  <2>1. k = Len(w)
    BY <1>6 DEF k
  <2>2. SubSeq(w, Len(w) + 1, Len(w)) = <<>>
    BY <1>1, SubSeqEmpty
  <2> QED
    BY <1>1, <1>2, <2>1, <2>2
<1> QED
  BY <1>3, <1>4, <1>5, <1>6 DEF w

LEMMA WriteForthBuffers ==
    ASSUME IInv, NEW p \in Procs, NEW n \in Nat, WriteForth(p, n), Issue(p, NewBytes(p, n, 1))
    PROVE  \E k \in 0 .. Len(Written(p, n, 1)) :
              Buffers(p, n, k) /\ (obuf'[p] # <<>> => Asked(p) = "no")
<1> DEFINE held == obuf[p]
           new == NewBytes(p, n, 1)
           w == held \o new
<1>0. TypeOK /\ Held /\ Told
  BY DEF IInv
<1>1. /\ new \in Seq(Byte) /\ Len(new) = n /\ held \in Seq(Byte) /\ Len(held) \in Nat
      /\ obuf \in [Procs -> Seq(Byte)] /\ out \in Outs /\ fd[p] \in Files \X Files
  <2>1. new \in Seq(Byte) /\ Len(new) = n
    BY <1>0, NewBytesRun
  <2> QED
    BY <2>1, <1>0, LenProperties DEF TypeOK, Outs
<1>2. fd[p][1] \in Files
  BY <1>1
<1>3. held # <<>> => Asked(p) = "no"
  BY <1>0 DEF Held, HeldBy, Asked
<1>4. clk' = [clk EXCEPT ![p][p] = @ + n] /\ issued' = issued \cup Range(new)
  BY <1>1 DEF Issue
<1>5. /\ SubSeq(w, 1, 0) = <<>> /\ SubSeq(w, 0 + 1, Len(w)) = w
      /\ SubSeq(w, 1, Len(held)) = held /\ SubSeq(w, Len(held) + 1, Len(w)) = new
      /\ SubSeq(w, 1, Len(w)) = w /\ SubSeq(w, Len(w) + 1, Len(w)) = <<>>
      /\ Len(w) = Len(held) + n /\ Len(w) \in Nat
  <2> HIDE DEF new, held
  <2>1. Len(w) = Len(held) + n /\ Len(w) \in Nat
    BY <1>1, ConcatAt
  <2> QED
    BY <2>1, <1>1, Cuts, ZenonT(60)
<1>6. w = Written(p, n, 1)
  BY DEF Written
<1>7. ASSUME NEW k \in 0 .. Len(w),
             out' = Given(out, fd[p][1], SubSeq(w, 1, k)),
             obuf' = [obuf EXCEPT ![p] = SubSeq(w, k + 1, Len(w))],
             obuf'[p] # <<>> => Asked(p) = "no"
      PROVE  \E i \in 0 .. Len(Written(p, n, 1)) :
                Buffers(p, n, i) /\ (obuf'[p] # <<>> => Asked(p) = "no")
  <2>1. Buffers(p, n, k)
    BY <1>4, <1>6, <1>7 DEF Buffers
  <2> QED
    BY <2>1, <1>6, <1>7
<1>8. Given(Flushed(p), fd[p][1], new) = Given(out, fd[p][1], w)
  <2>1. Flushed(p) = Given(out, fd[p][1], held)
    BY DEF Flushed, Given
  <2> QED
    BY <2>1, <1>1, <1>2, GivenTwice
<1>9. Flushed(p) = Given(out, fd[p][1], held)
  BY DEF Flushed, Given
<1> HIDE DEF new
<1>10. CASE Asked(p) = "yes" /\ out' = Given(out, fd[p][1], new) /\ UNCHANGED obuf
  <2>1. held = <<>>
    BY <1>3, <1>10
  <2>2. w = new /\ obuf'[p] = <<>>
    BY <2>1, <1>1, <1>10, ConcatEmptySeq
  <2>3. out' = Given(out, fd[p][1], SubSeq(w, 1, Len(w)))
    BY <1>5, <1>10, <2>2
  <2>4. obuf' = [obuf EXCEPT ![p] = SubSeq(w, Len(w) + 1, Len(w))]
    BY <1>1, <1>5, <1>10, <2>1
  <2>5. Len(w) \in 0 .. Len(w)
    BY <1>5
  <2> HIDE DEF w, held
  <2> QED
    BY <2>2, <2>3, <2>4, <2>5, <1>7
<1>11. CASE out' = Given(Flushed(p), fd[p][1], new) /\ obuf' = [obuf EXCEPT ![p] = <<>>]
  <2>1. obuf'[p] = <<>>
    BY <1>1, <1>11
  <2>2. Len(w) \in 0 .. Len(w)
    BY <1>5
  <2>3. out' = Given(out, fd[p][1], SubSeq(w, 1, Len(w))) /\ obuf' = [obuf EXCEPT ![p] = SubSeq(w, Len(w) + 1, Len(w))]
    BY <1>5, <1>8, <1>11
  <2> HIDE DEF w, held
  <2> QED
    BY <2>1, <2>2, <2>3, <1>7
<1>12. CASE Asked(p) = "no" /\ out' = Flushed(p) /\ obuf' = [obuf EXCEPT ![p] = new]
  <2>1. Len(held) \in 0 .. Len(w)
    BY <1>1, <1>5
  <2>2. out' = Given(out, fd[p][1], SubSeq(w, 1, Len(held))) /\ obuf' = [obuf EXCEPT ![p] = SubSeq(w, Len(held) + 1, Len(w))]
    BY <1>5, <1>9, <1>12
  <2> HIDE DEF w, held
  <2> QED
    BY <2>1, <2>2, <1>7, <1>12
<1>13. CASE Asked(p) = "no" /\ obuf' = [obuf EXCEPT ![p] = @ \o new] /\ UNCHANGED out
  <2>1. 0 \in 0 .. Len(w)
    BY <1>5
  <2>2. out' = Given(out, fd[p][1], SubSeq(w, 1, 0))
    BY <1>1, <1>2, <1>5, <1>13, GivenNothing
  <2>3. obuf' = [obuf EXCEPT ![p] = SubSeq(w, 0 + 1, Len(w))]
    BY <1>5, <1>13
  <2> HIDE DEF w, held
  <2> QED
    BY <2>1, <2>2, <2>3, <1>7, <1>13
<1> QED
  BY <1>10, <1>11, <1>12, <1>13 DEF WriteForth, new

LEMMA WriteKeeps ==
    ASSUME IInv, NEW p \in Procs, NEW n \in Texts, Write(p, n), level' = level
    PROVE  IInv'
<1>0. TypeOK /\ n \in Nat
  BY TermAssumption DEF IInv
<1>1. PICK k \in 0 .. Len(Written(p, n, 1)) :
         Buffers(p, n, k) /\ (obuf'[p] # <<>> => Asked(p) = "no")
  BY <1>0, WriteBuffers, WriteForthBuffers DEF Write
<1>2. otty' = [otty EXCEPT ![p] = Asked(p)] /\ otty \in [Procs -> {"unasked", "yes", "no"}]
  BY <1>0 DEF Write, TypeOK
<1>3. Asked(p) \in {"yes", "no"}
  BY <1>0 DEF Asked, TypeOK
<1>4. Moves(p)
  BY <1>0, <1>1, <1>2, <1>3 DEF Moves, Write, Running, TypeOK
<1> QED
  BY <1>0, <1>1, <1>4, BuffersKeeps

LEMMA WriteFileKeeps ==
    ASSUME IInv, NEW p \in Procs, NEW d \in {1, 2}, WriteFile(p, d), level' = level
    PROVE  IInv'
<1>0. TypeOK
  BY DEF IInv
<1>1. obuf'[p] = <<>>
  BY <1>0 DEF WriteFile, TypeOK
<1>2. Moves(p)
  BY <1>0, <1>1 DEF Moves, WriteFile, Running, TypeOK
<1>3. Len(NewBytes(p, 1, d)) = 1
  BY <1>0, NewBytesRun DEF IInv
<1>4. Puts(p, d, obuf[p])
  BY <1>3 DEF Puts, WriteFile, Issue, Flushed, Given
<1> QED
  BY <1>2, <1>4, PutsKeeps

LEMMA FaultKeeps ==
    ASSUME IInv, NEW p \in Procs, Fault(p), level' = level
    PROVE  IInv'
<1>0. TypeOK
  BY DEF IInv
<1>1. obuf'[p] = <<>>
  BY <1>0 DEF Fault, TypeOK
<1>2. Moves(p)
  BY <1>0, <1>1 DEF Moves, Fault, Running, TypeOK
<1>3. Len(NewBytes(p, 1, 2)) = 1
  BY <1>0, NewBytesRun DEF IInv
<1>4. Puts(p, 2, obuf[p])
  BY <1>3 DEF Puts, Fault, Issue, Flushed, Given
<1> QED
  BY <1>2, <1>4, PutsKeeps

LEMMA StackFaultKeeps ==
    ASSUME IInv, NEW p \in Procs, StackFault(p), level' = level
    PROVE  IInv'
<1>0. TypeOK /\ out \in Outs /\ fd[p][1] \in Files
  BY DEF IInv, TypeOK, Outs
<1>1. obuf'[p] = <<>>
  BY <1>0 DEF StackFault, TypeOK
<1>2. Moves(p)
  BY <1>0, <1>1 DEF Moves, StackFault, Running, TypeOK
<1>3. Given(out, fd[p][1], <<>>) = out
  BY <1>0, GivenNothing
<1>4. obuf[p] = <<>> => issued \ Range(obuf[p]) = issued
  BY DEF Range
<1>5. Puts(p, 2, <<>>)
  BY <1>3, <1>4 DEF Puts, StackFault
<1> QED
  BY <1>2, <1>5, PutsKeeps

LEMMA OtherWritesKeeps ==
    ASSUME IInv, NEW p \in Procs, OtherWrites(p), level' = level
    PROVE  IInv'
<1>0. TypeOK /\ out \in Outs /\ fd[p][1] \in Files /\ obuf \in [Procs -> Seq(Byte)]
  BY DEF IInv, TypeOK, Outs
<1>1. obuf[p] = <<>>
  BY DEF IInv, Held, HeldBy, OtherWrites
<1>2. obuf' = [obuf EXCEPT ![p] = <<>>]
  BY <1>0, <1>1 DEF OtherWrites
<1>3. Moves(p)
  BY <1>0, <1>1, <1>2 DEF Moves, OtherWrites, TypeOK
<1>4. Given(out, fd[p][1], obuf[p]) = out
  BY <1>0, <1>1, GivenNothing
<1>5. Len(NewBytes(p, 1, 1)) = 1
  BY <1>0, NewBytesRun DEF IInv
<1>6. Puts(p, 1, obuf[p])
  BY <1>2, <1>4, <1>5 DEF Puts, OtherWrites, Issue
<1> QED
  BY <1>3, <1>6, PutsKeeps

(* The steps that flush, and those that write nothing and flush nothing.   *)
LEMMA FlushesKeep ==
    ASSUME IInv, NEW p \in Procs, level' = level,
           Read(p) \/ ReadFile0(p) \/ Wait(p) \/ Exec(p) \/ Exit(p) \/ \E f \in Files : Dup2(p, f)
    PROVE  IInv'
<1>0. TypeOK /\ Held
  BY DEF IInv
<1>1. CASE Read(p)
  <2>1. Moves(p)
    BY <1>0, <1>1 DEF Moves, Read, Running, TypeOK, t_flush
  <2> QED
    BY <1>1, <2>1, FlushKeeps DEF Read
<1>2. CASE ReadFile0(p) /\ level = 0
  <2>1. obuf[p] # <<>> => otty[p] = "no"
    BY <1>0 DEF Held, HeldBy
  <2>2. Moves(p)
    BY <1>0, <1>2, <2>1 DEF Moves, ReadFile0, Running, TypeOK
  <2> QED
    BY <1>2, <2>2, QuietKeeps DEF ReadFile0
<1>3. CASE ReadFile0(p) /\ level # 0
  <2>1. Moves(p)
    BY <1>0, <1>3 DEF Moves, ReadFile0, Running, TypeOK, t_flush
  <2> QED
    BY <1>3, <2>1, FlushKeeps DEF ReadFile0
<1>4. CASE Wait(p)
  <2>1. Moves(p)
    BY <1>0, <1>4 DEF Moves, Wait, Running, TypeOK, t_flush
  <2> QED
    BY <1>4, <2>1, FlushKeeps DEF Wait
<1>5. CASE Exec(p)
  <2>1. Moves(p)
    BY <1>0, <1>5 DEF Moves, Exec, Running, TypeOK, t_flush
  <2> QED
    BY <1>5, <2>1, FlushKeeps DEF Exec
<1>6. CASE Exit(p)
  <2>1. Moves(p)
    BY <1>0, <1>6 DEF Moves, Exit, Running, TypeOK, t_flush
  <2> QED
    BY <1>6, <2>1, FlushKeeps DEF Exit
<1>7. ASSUME NEW f \in Files, Dup2(p, f)
      PROVE  IInv'
  <2>1. fd' = [fd EXCEPT ![p][1] = f] /\ fd \in [Procs -> Files \X Files]
    BY <1>0, <1>7 DEF Dup2, TypeOK
  <2>2. fd' \in [Procs -> Files \X Files] /\ \A q \in Procs \ {p} : fd'[q] = fd[q]
    BY <2>1
  <2>3. obuf'[p] = <<>>
    BY <1>0, <1>7 DEF Dup2, TypeOK, t_flush
  <2>4. Moves(p)
    BY <1>0, <1>7, <2>2, <2>3 DEF Moves, Dup2, Running, TypeOK
  <2> QED
    BY <1>7, <2>4, FlushKeeps DEF Dup2
<1> QED
  BY <1>1, <1>2, <1>3, <1>4, <1>5, <1>6, <1>7

LEMMA QuietStepsKeep ==
    ASSUME IInv, NEW p \in Procs, level' = level, InputComes(p) \/ OtherEnds(p)
    PROVE  IInv'
<1>0. TypeOK /\ Held
  BY DEF IInv
<1>1. obuf[p] # <<>> => st[p] \in {"run", "reading 0"} /\ otty[p] = "no"
  BY <1>0 DEF Held, HeldBy
<1>2. CASE InputComes(p)
  <2>1. Moves(p)
    BY <1>0, <1>1, <1>2 DEF Moves, InputComes, TypeOK
  <2> QED
    BY <1>2, <2>1, QuietKeeps DEF InputComes
<1>3. CASE OtherEnds(p)
  <2>1. Moves(p)
    BY <1>0, <1>1, <1>3 DEF Moves, OtherEnds, TypeOK
  <2> QED
    BY <1>3, <2>1, QuietKeeps DEF OtherEnds
<1> QED
  BY <1>2, <1>3

(* A fork: the child follows what its parent wrote, all of it given.       *)
LEMMA ForkKeeps ==
    ASSUME IInv, NEW p \in Procs, NEW c \in Procs, Fork(p, c), level' = level
    PROVE  IInv'
<1>0. TypeOK /\ Held /\ Told /\ InOrder(out, Sent) /\ NothingLost
  BY DEF IInv
<1>1. /\ c # p /\ obuf[c] = <<>> /\ clk[c][c] = 0
      /\ obuf' = [obuf EXCEPT ![p] = <<>>, ![c] = <<>>]
      /\ out' = Given(out, fd[p][1], obuf[p])
      /\ clk' = [clk EXCEPT ![c] = clk[p]] /\ fd' = [fd EXCEPT ![c] = fd[p]]
      /\ st' = [st EXCEPT ![c] = "run"] /\ otty' = [otty EXCEPT ![c] = otty[p]]
      /\ parent' = [parent EXCEPT ![c] = p] /\ issued' = issued
  BY <1>0 DEF Fork, Running, Held, HeldBy, Told, Flushed, Given
<1>2. /\ clk \in [Procs -> [Procs -> Nat]] /\ obuf \in [Procs -> Seq(Byte)] /\ out \in Outs
      /\ fd \in [Procs -> Files \X Files] /\ fd[p][1] \in Files
  BY <1>0 DEF TypeOK, Outs
<1>3. /\ obuf[p] \in Seq(Byte) /\ Len(obuf[p]) \in Nat /\ clk[p][p] \in Nat /\ clk[p][c] \in Nat
      /\ clk' \in [Procs -> [Procs -> Nat]] /\ obuf' \in [Procs -> Seq(Byte)] /\ out' \in Outs
  <2>1. obuf[p] \in Seq(Byte) /\ clk[p] \in [Procs -> Nat] /\ <<>> \in Seq(Byte)
    BY <1>2, EmptySeq
  <2>2. clk' \in [Procs -> [Procs -> Nat]]
    BY <1>1, <1>2, <2>1
  <2>3. obuf' \in [Procs -> Seq(Byte)]
    BY <1>1, <1>2, <2>1
  <2>4. out' \in Outs
    BY <1>1, <1>2, <2>1, GivenType
  <2> QED
    BY <2>1, <2>2, <2>3, <2>4, LenProperties
<1>4. TypeOK'
  BY <1>0, <1>1, <1>2, <1>3 DEF TypeOK, Outs
<1>5. SentTypes /\ SentTypes'
  BY <1>0, <1>4, SentType, SentTypePrime
<1>6. /\ obuf'[p] = <<>> /\ obuf'[c] = <<>> /\ clk'[p] = clk[p] /\ clk'[c] = clk[p]
      /\ \A q \in Procs \ {p, c} :
            /\ clk'[q] = clk[q] /\ obuf'[q] = obuf[q] /\ fd'[q] = fd[q]
            /\ st'[q] = st[q] /\ otty'[q] = otty[q]
  BY <1>0, <1>1, <1>2 DEF TypeOK
<1>7. clk[p][c] = 0
  <2>1. clk[p][c] <= Sent[c]
    BY <1>0, <1>1 DEF Told
  <2>2. Sent[c] = 0 - Len(obuf[c]) /\ Len(obuf[c]) = 0
    BY <1>1, <1>5, EmptySeq DEF SentTypes
  <2> QED
    BY <2>1, <2>2, <1>3
<1>8. /\ Sent'[p] = clk[p][p] /\ Sent'[c] = Sent[c] /\ Sent[p] = clk[p][p] - Len(obuf[p])
      /\ \A q \in Procs \ {p, c} : Sent'[q] = Sent[q]
  <2>1. /\ \A q \in Procs : Sent'[q] = clk'[q][q] - Len(obuf'[q])
        /\ \A q \in Procs : Sent[q] = clk[q][q] - Len(obuf[q])
    BY <1>5 DEF SentTypes
  <2>2. Len(obuf'[p]) = 0 /\ Len(obuf'[c]) = 0 /\ Len(obuf[c]) = 0
    BY <1>1, <1>6, EmptySeq
  <2>3. Sent'[p] = clk[p][p] - 0 /\ Sent'[c] = 0 - 0 /\ Sent[c] = 0 - 0
    BY <2>1, <2>2, <1>1, <1>6, <1>7
  <2>4. Sent'[p] = clk[p][p] /\ Sent'[c] = Sent[c]
    BY <2>3, <1>3
  <2> QED
    BY <2>1, <2>4, <1>6
<1>9. \A q \in Procs : Sent[q] <= Sent'[q]
  <2>1. Sent[p] <= Sent'[p]
    BY <1>3, <1>8
  <2>2. \A q \in Procs : Sent[q] \in Int
    BY <1>5 DEF SentTypes, Counts
  <2> QED
    BY <2>1, <2>2, <1>8
<1>10. Held'
  <2>1. ASSUME NEW q \in Procs \ {p, c}
        PROVE  HeldBy(q)'
    <3>1. obuf[q] \in Seq(Byte) /\ Sent \in Counts /\ Sent' \in Counts /\ Sent[q] \in Int
      BY <1>2, <1>5 DEF SentTypes, Counts
    <3>2. HeldBy(q)
      BY <1>0 DEF Held
    <3>3. IsRun(q, obuf[q], Sent[q], Sent')
      BY <3>1, <3>2, <1>9, RunMoreCounted DEF HeldBy
    <3>4. (IsRun(q, obuf[q], Sent[q], Sent))'
      BY <3>3, <1>6, <1>8 DEF IsRun
    <3>5. (\A k \in 1 .. Len(obuf[q]) : obuf[q][k].to = fd[q][1])'
      <4>1. obuf'[q] = obuf[q] /\ fd'[q] = fd[q]
        BY <1>6
      <4> QED
        BY <4>1, <3>2 DEF HeldBy
    <3>6. (obuf[q] # <<>> => st[q] \in {"run", "reading 0"} /\ otty[q] = "no")'
      BY <1>6, <3>2 DEF HeldBy
    <3> QED
      BY <3>4, <3>5, <3>6 DEF HeldBy
  <2>2. ASSUME NEW q \in {p, c}
        PROVE  HeldBy(q)'
    <3>1. obuf'[q] = <<>>
      BY <1>6
    <3> QED
      BY <3>1, EmptySeq DEF HeldBy, IsRun
  <2> QED
    BY <2>1, <2>2 DEF Held
<1>11. Told'
  <2>1. ASSUME NEW r \in Procs, NEW q \in Procs \ {r}
        PROVE  clk'[r][q] <= Sent'[q]
    <3>0. clk[r][q] \in Nat /\ clk[p][q] \in Nat /\ Sent[q] \in Int /\ Sent'[q] \in Int
      BY <1>2, <1>5 DEF SentTypes, Counts
    <3>1. CASE r # c
      <4>1. clk'[r][q] = clk[r][q] /\ clk[r][q] <= Sent[q] /\ Sent[q] <= Sent'[q]
        BY <3>1, <1>0, <1>6, <1>9 DEF Told
      <4> QED
        BY <4>1, <3>0
    <3>2. CASE r = c /\ q = p
      BY <3>2, <1>3, <1>6, <1>8
    <3>3. CASE r = c /\ q # p
      <4>1. clk'[r][q] = clk[p][q] /\ clk[p][q] <= Sent[q] /\ Sent[q] <= Sent'[q]
        BY <3>3, <1>0, <1>6, <1>9 DEF Told
      <4> QED
        BY <4>1, <3>0
    <3> QED
      BY <3>1, <3>2, <3>3
  <2>2. ASSUME NEW r \in Procs, st'[r] = "unborn"
        PROVE  clk'[r][r] = 0
    <3>1. r # c /\ st[r] = "unborn"
      BY <2>2, <1>0, <1>1 DEF TypeOK
    <3> QED
      BY <3>1, <1>0, <1>6 DEF Told
  <2> QED
    BY <2>1, <2>2 DEF Told
<1>12. InOrder(out, Sent)'
  <2> DEFINE T == [Sent EXCEPT ![p] = Sent[p] + Len(obuf[p])]
  <2>1. Sent \in Counts /\ Sent' \in Counts /\ Sent[p] \in Int /\ Sent[p] <= Sent[p]
    BY <1>5 DEF SentTypes, Counts
  <2>2. IsRun(p, obuf[p], Sent[p], Sent)
    BY <1>0 DEF Held, HeldBy
  <2>3. InOrder(Given(out, fd[p][1], obuf[p]), T)
    BY <1>0, <1>2, <1>3, <2>1, <2>2, GivenInOrder
  <2>4. T \in Counts /\ \A q \in Procs : T[q] <= Sent'[q]
    <3>1. Sent[p] + Len(obuf[p]) = clk[p][p] /\ Sent[p] + Len(obuf[p]) \in Int
      BY ONLY p \in Procs, <1>3, <1>8, <2>1, SMTT(30)
    <3>2. T \in Counts
      BY <2>1, <3>1 DEF Counts
    <3>3. T[p] = clk[p][p] /\ \A q \in Procs \ {p} : T[q] = Sent[q]
      BY <2>1, <3>1 DEF Counts
    <3>4. T[p] <= Sent'[p]
      BY <3>3, <1>3, <1>8
    <3> QED
      BY <3>2, <3>3, <3>4, <1>9
  <2> HIDE DEF T
  <2>5. InOrder(out', Sent')
    BY <1>1, <1>3, <2>1, <2>3, <2>4, MoreCounted
  <2> QED
    BY <2>5 DEF InOrder
<1>13. NothingLost'
  <2>1. \A f \in Files : \A x \in Byte : In(x, out[f]) => In(x, out'[f])
    BY <1>1, <1>2, <1>3, GivenKeeps
  <2>2. \A i \in 1 .. Len(obuf[p]) : In(obuf[p][i], out'[fd[p][1]])
    BY <1>1, <1>2, <1>3, GivenKeeps
  <2>3. ASSUME NEW x \in issued', In(x, obuf[p])
        PROVE  In(x, out'[x.to])
    <3>1. PICK i \in 1 .. Len(obuf[p]) : obuf[p][i] = x
      BY <2>3, <1>3, LenProperties DEF In
    <3>2. x.to = fd[p][1]
      BY <1>0, <3>1 DEF Held, HeldBy
    <3> QED
      BY <2>2, <3>1, <3>2
  <2>4. \A q \in Procs \ {p} : obuf'[q] = obuf[q]
    BY <1>1, <1>6
  <2>5. \A x \in issued' : x \in issued \/ In(x, out'[x.to]) \/ (x.by = p /\ In(x, obuf'[p]))
    BY <1>1
  <2>6. \A x \in issued' : In(x, obuf[p]) => In(x, out'[x.to]) \/ (x.by = p /\ In(x, obuf'[p]))
    BY <2>3
  <2> QED
    BY <1>0, <1>4, <1>10, <2>1, <2>4, <2>5, <2>6, NoneLost
<1> QED
  BY <1>4, <1>10, <1>11, <1>12, <1>13 DEF IInv

(* A wait that ends: the parent follows what the child wrote, all of it     *)
(* given.                                                                  *)
LEMMA ReapKeeps ==
    ASSUME IInv, NEW p \in Procs, NEW c \in Procs, Reap(p, c), level' = level
    PROVE  IInv'
<1>0. TypeOK /\ Held /\ Told /\ InOrder(out, Sent) /\ NothingLost
  BY DEF IInv
<1>1. /\ c # p /\ obuf[c] = <<>> /\ obuf[p] = <<>> /\ st[p] = "waiting" /\ st[c] = "ended"
      /\ clk' = [clk EXCEPT ![p] = Later(clk[p], clk[c])]
      /\ st' = [st EXCEPT ![p] = "run", ![c] = "reaped"]
      /\ fd' = fd /\ otty' = otty /\ out' = out /\ obuf' = obuf /\ issued' = issued /\ parent' = parent
  BY <1>0 DEF Reap, Held, HeldBy
<1>2. clk \in [Procs -> [Procs -> Nat]] /\ clk[p] \in [Procs -> Nat] /\ clk[c] \in [Procs -> Nat]
  BY <1>0 DEF TypeOK
<1>3. SentTypes
  BY <1>0, SentType
<1>4. \A q \in Procs \ {p} : clk[p][q] <= Sent[q] /\ clk[c][q] <= Sent[q]
  <2>1. ASSUME NEW q \in Procs \ {p}
        PROVE  clk[c][q] <= Sent[q]
    <3>1. CASE q = c
      <4>1. Sent[c] = clk[c][c] - Len(obuf[c]) /\ Len(obuf[c]) = 0
        BY <1>1, <1>3, EmptySeq DEF SentTypes
      <4> QED
        BY <4>1, <3>1, <1>2
    <3>2. CASE q # c
      BY <3>2, <1>0 DEF Told
    <3> QED
      BY <3>1, <3>2
  <2> QED
    BY <2>1, <1>0 DEF Told
<1>5. clk[c][p] <= clk[p][p]
  <2>1. clk[c][p] <= Sent[p] /\ Sent[p] = clk[p][p] - Len(obuf[p]) /\ Len(obuf[p]) = 0
    BY <1>0, <1>1, <1>3, EmptySeq DEF Told, SentTypes
  <2> QED
    BY <2>1, <1>2
<1>6. /\ clk' \in [Procs -> [Procs -> Nat]] /\ clk'[p][p] = clk[p][p]
      /\ \A q \in Procs : clk'[p][q] = IF clk[p][q] > clk[c][q] THEN clk[p][q] ELSE clk[c][q]
      /\ \A q \in Procs \ {p} : clk'[q] = clk[q]
  <2>1. Later(clk[p], clk[c]) \in [Procs -> Nat]
    BY <1>2 DEF Later
  <2>2. \A q \in Procs : clk'[p][q] = IF clk[p][q] > clk[c][q] THEN clk[p][q] ELSE clk[c][q]
    BY <1>1, <1>2 DEF Later
  <2>3. clk' \in [Procs -> [Procs -> Nat]] /\ \A q \in Procs \ {p} : clk'[q] = clk[q]
    BY <1>1, <1>2, <2>1
  <2>4. clk'[p][p] = clk[p][p]
    <3>1. clk[p][p] \in Nat /\ clk[c][p] \in Nat
      BY <1>2
    <3>2. clk'[p][p] = IF clk[p][p] > clk[c][p] THEN clk[p][p] ELSE clk[c][p]
      BY <2>2
    <3> QED
      BY <3>1, <3>2, <1>5
  <2> QED
    BY <2>2, <2>3, <2>4
<1>7. TypeOK'
  BY <1>0, <1>1, <1>6 DEF TypeOK
<1>8. Sent' = Sent
  BY <1>1, <1>6 DEF Sent
<1>9. Held'
  <2>1. ASSUME NEW q \in Procs
        PROVE  HeldBy(q)'
    <3>1. HeldBy(q)
      BY <1>0 DEF Held
    <3>2. st[q] \in {"run", "reading 0"} => st'[q] = st[q]
      BY <1>0, <1>1 DEF TypeOK
    <3> QED
      BY <3>1, <3>2, <1>1, <1>8 DEF HeldBy, IsRun
  <2> QED
    BY <2>1 DEF Held
<1>10. Told'
  <2>1. ASSUME NEW r \in Procs, NEW q \in Procs \ {r}
        PROVE  clk'[r][q] <= Sent'[q]
    <3>1. CASE r = p
      BY <3>1, <1>2, <1>4, <1>6, <1>8
    <3>2. CASE r # p
      BY <3>2, <1>0, <1>6, <1>8 DEF Told
    <3> QED
      BY <3>1, <3>2
  <2>2. ASSUME NEW r \in Procs, st'[r] = "unborn"
        PROVE  clk'[r][r] = 0
    <3>1. r # p /\ st[r] = "unborn"
      BY <2>2, <1>0, <1>1 DEF TypeOK
    <3> QED
      BY <3>1, <1>0, <1>6 DEF Told
  <2> QED
    BY <2>1, <2>2 DEF Told
<1>11. InOrder(out, Sent)'
  BY <1>0, <1>1, <1>8 DEF InOrder
<1>12. NothingLost'
  <2>1. \A x \in issued' : In(x, out'[x.to]) \/ In(x, obuf'[x.by])
    BY <1>0, <1>1 DEF NothingLost
  <2>2. ASSUME NEW x \in issued', In(x, obuf'[x.by])
        PROVE  st'[x.by] \in {"run", "reading", "reading 0", "waiting"}
    <3>0. x \in Byte
      BY <1>7 DEF TypeOK
    <3>1. x.by \in Procs /\ obuf'[x.by] # <<>>
      BY <2>2, <3>0 DEF Byte, In
    <3> QED
      BY <3>1, <1>9 DEF Held, HeldBy
  <2> QED
    BY <2>1, <2>2 DEF NothingLost
<1> QED
  BY <1>7, <1>9, <1>10, <1>11, <1>12 DEF IInv
-----------------------------------------------------------------------------
(***************************************************************************)
(* The invariant, and what it says.                                        *)
(***************************************************************************)
LEMMA InitHolds == Init => IInv
<1> SUFFICES ASSUME Init PROVE IInv
  OBVIOUS
<1>1. TypeOK
  BY EmptySeq, TermAssumption DEF Init, TypeOK
<1>2. \A p \in Procs : obuf[p] = <<>> /\ \A q \in Procs : clk[p][q] = 0
  BY DEF Init
<1>3. Held
  <2>1. ASSUME NEW p \in Procs
        PROVE  HeldBy(p)
    <3>1. obuf[p] = <<>> /\ Len(obuf[p]) = 0
      BY <1>2, EmptySeq
    <3> QED
      BY <3>1 DEF HeldBy, IsRun
  <2> QED
    BY <2>1 DEF Held
<1>4. \A p \in Procs : Sent[p] = 0
  <2>1. \A p \in Procs : Sent[p] = 0 - 0
    BY <1>2, EmptySeq DEF Sent
  <2> QED
    BY <2>1
<1>5. Told
  BY <1>2, <1>4 DEF Told
<1>6. InOrder(out, Sent)
  BY EmptySeq DEF InOrder, Init
<1>7. NothingLost
  BY DEF Init, NothingLost
<1> QED
  BY <1>1, <1>3, <1>5, <1>6, <1>7 DEF IInv

LEMMA NextHolds == IInv /\ [Next]_vars => IInv'
<1> SUFFICES ASSUME IInv, [Next]_vars PROVE IInv'
  OBVIOUS
<1>1. CASE UNCHANGED vars
  <2>1. Sent' = Sent
    BY <1>1 DEF vars, Sent
  <2>2. TypeOK'
    BY <1>1 DEF vars, IInv, TypeOK
  <2>3. Held'
    BY <1>1, <2>1 DEF vars, IInv, Held, HeldBy, IsRun
  <2>4. Told' /\ InOrder(out, Sent)'
    BY <1>1, <2>1 DEF vars, IInv, Told, InOrder
  <2>5. NothingLost'
    BY <1>1 DEF vars, IInv, NothingLost
  <2> QED
    BY <2>2, <2>3, <2>4, <2>5 DEF IInv
<1>2. ASSUME NEW p \in Procs, level' = level,
             \/ \E n \in Texts : Write(p, n)
             \/ \E d \in {1, 2} : WriteFile(p, d)
             \/ Read(p) \/ ReadFile0(p) \/ InputComes(p)
             \/ Wait(p) \/ Exec(p) \/ OtherWrites(p) \/ OtherEnds(p)
             \/ \E c \in Procs : Fork(p, c) \/ Reap(p, c)
             \/ \E f \in Files : Dup2(p, f)
             \/ Exit(p) \/ Fault(p) \/ StackFault(p)
      PROVE  IInv'
  BY <1>2, WriteKeeps, WriteFileKeeps, FlushesKeep, QuietStepsKeep, OtherWritesKeeps,
     ForkKeeps, ReapKeeps, FaultKeeps, StackFaultKeeps
<1>3. CASE Next
  BY <1>2, <1>3 DEF Next, Step
<1> QED
  BY <1>1, <1>3

LEMMA IInvAlways == Spec => []IInv
BY InitHolds, NextHolds, PTL DEF Spec

(* Every variable keeps its type. *)
THEOREM TypeCorrect == Spec => []TypeOK
BY IInvAlways, PTL DEF IInv

(* What is written comes out once, to where it was written: no exit, exec,  *)
(* fork or redirection of any process loses a byte, misplaces it or doubles *)
(* it, whatever the size of the buffer and of the texts (vm-lab.c:1256).    *)
THEOREM OutOnceAlways == Spec => []OutOnce
<1>1. IInv => OutOnce
  <2> SUFFICES ASSUME IInv PROVE OutOnce
    OBVIOUS
  <2>0. TypeOK /\ Held /\ InOrder(out, Sent) /\ NothingLost
    BY DEF IInv
  <2>1. ASSUME NEW f \in Files, NEW j \in DOMAIN out[f], NEW k \in DOMAIN out[f], j < k
        PROVE  out[f][j] # out[f][k]
    <3>1. out[f] \in Seq(Byte)
      BY <2>0 DEF TypeOK
    <3>2. DOMAIN out[f] = 1 .. Len(out[f]) /\ Len(out[f]) \in Nat
      BY <3>1, LenProperties
    <3>3. k \in 1 .. Len(out[f]) /\ j \in 1 .. k - 1
      BY <3>2, <2>1
    <3>4. out[f][j].clock[out[f][k].by] < out[f][k].clock[out[f][k].by]
      BY <2>0, <3>3 DEF InOrder
    <3>5. out[f][k] \in Byte
      BY <3>1, <3>3, ElementOfSeq
    <3>6. out[f][k].clock[out[f][k].by] \in Nat
      BY <3>5 DEF Byte
    <3> QED
      BY <3>4, <3>6
  <2>2. \A f \in Files : \A j, k \in DOMAIN out[f] : j # k => out[f][j] # out[f][k]
    <3>1. \A f \in Files : out[f] \in Seq(Byte)
      BY <2>0 DEF TypeOK
    <3>2. \A f \in Files : \A j \in DOMAIN out[f] : j \in Int
      BY <3>1, LenProperties
    <3> QED
      BY <2>1, <3>2
  <2>3. ASSUME NEW p \in Procs, NEW k \in DOMAIN obuf[p]
        PROVE  /\ obuf[p][k].by = p
               /\ \A f \in Files : ~In(obuf[p][k], out[f])
    <3>1. obuf[p] \in Seq(Byte) /\ Sent[p] \in Int
      BY <2>0, SentType DEF TypeOK, SentTypes, Counts
    <3>2. k \in 1 .. Len(obuf[p]) /\ k \in Nat \ {0}
      BY <3>1, LenProperties
    <3>3. obuf[p][k].by = p /\ obuf[p][k].clock[p] = Sent[p] + k
      <4>1. IsRun(p, obuf[p], Sent[p], Sent)
        BY <2>0 DEF Held, HeldBy
      <4> QED
        BY ONLY <4>1, <3>2 DEF IsRun
    <3>4. ASSUME NEW f \in Files, In(obuf[p][k], out[f])
          PROVE  FALSE
      <4>1. out[f] \in Seq(Byte)
        BY <2>0 DEF TypeOK
      <4>2. PICK j \in 1 .. Len(out[f]) : out[f][j] = obuf[p][k]
        BY <3>4, <4>1, LenProperties DEF In
      <4>3. out[f][j].clock[p] <= Sent[p]
        BY <2>0 DEF InOrder
      <4> QED
        BY <4>2, <4>3, <3>1, <3>2, <3>3
    <3> QED
      BY <3>3, <3>4
  <2> QED
    BY <2>0, <2>2, <2>3 DEF OutOnce, NothingTwice
<1> QED
  BY <1>1, IInvAlways, PTL

(* A file never gets a byte before one its process had written, or had been *)
(* told of by a fork or a wait, when it wrote it, whoever wrote either      *)
(* (vm-lab.c:1253).                                                        *)
THEOREM CausalOrderAlways == Spec => []CausalOrder
<1>1. IInv => CausalOrder
  <2> SUFFICES ASSUME IInv,
                      NEW f \in Files, NEW k \in DOMAIN out[f], NEW j \in 1 .. k - 1
               PROVE  ~Precedes(out[f][k], out[f][j])
    BY DEF CausalOrder
  <2>1. out[f] \in Seq(Byte)
    BY DEF IInv, TypeOK
  <2>2. k \in 1 .. Len(out[f]) /\ Len(out[f]) \in Nat
    BY <2>1, LenProperties
  <2>3. j \in 1 .. Len(out[f])
    BY <2>2
  <2>4. out[f][k] \in Byte /\ out[f][j] \in Byte
    BY <2>1, <2>2, <2>3, ElementOfSeq
  <2>5. out[f][j].clock[out[f][k].by] < out[f][k].clock[out[f][k].by]
    BY <2>2 DEF IInv, InOrder
  <2>6. out[f][k].by \in Procs
    BY <2>4 DEF Byte
  <2>7. out[f][j].clock[out[f][k].by] \in Nat /\ out[f][k].clock[out[f][k].by] \in Nat
    BY <2>4, <2>6 DEF Byte
  <2> QED
    BY <2>5, <2>7 DEF Precedes
<1> QED
  BY <1>1, IInvAlways, PTL

(* A process that waits for its input or for a child holds no output: the   *)
(* prompt is there to be read (vm-lab.c:1252).                             *)
THEOREM PromptFirstAlways == Spec => []PromptFirst
<1>1. IInv => PromptFirst
  BY DEF IInv, Held, HeldBy, PromptFirst
<1> QED
  BY <1>1, IInvAlways, PTL
=============================================================================

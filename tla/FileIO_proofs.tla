---------------------------- MODULE FileIO_proofs ----------------------------
(***************************************************************************)
(* IInv is an inductive invariant of FileIO, and FileIO implements         *)
(* LogicalFile, for any number of slots, any buffer length, any            *)
(* descriptors, files and inputs.                                          *)
(***************************************************************************)
EXTENDS FileIO, SequenceTheorems, WellFoundedInduction, TLAPS

-----------------------------------------------------------------------------
(* A non-empty set of naturals has a least element, so the CHOOSEs of the  *)
(* lowest free descriptor and of the first editing character choose.       *)
Lt == {p \in Nat \X Nat : p[1] < p[2]}

LEMMA LtWellFounded == IsWellFoundedOn(Lt, Nat)
<1>1. Lt = OpToRel(<, Nat)
  BY Zenon DEF Lt, OpToRel
<1> QED BY <1>1, NatLessThanWellFounded, Zenon

LEMMA LeastNat ==
    ASSUME NEW T \in SUBSET Nat, T # {}
    PROVE  \E x \in T : \A y \in T : x <= y
<1>1. PICK x \in T : \A y \in T : ~(<<y, x>> \in Lt)
  BY LtWellFounded, WFMin, Zenon
<1>2. \A y \in T : ~(y < x)
  BY <1>1 DEF Lt
<1> QED BY <1>2

LEMMA UptoProperties ==
    ASSUME NEW S, NEW s \in Seq(S), NEW n \in Nat
    PROVE  /\ Upto(s, n) \in Seq(S)
           /\ Len(Upto(s, n)) = Least(n, Len(s))
           /\ \A k \in 1..Len(Upto(s, n)) : Upto(s, n)[k] = s[k]
  BY DEF Upto, Least

LEMMA PastProperties ==
    ASSUME NEW S, NEW s \in Seq(S), NEW n \in Nat
    PROVE  /\ Past(s, n) \in Seq(S)
           /\ Len(Past(s, n)) = IF n <= Len(s) THEN Len(s) - n ELSE 0
           /\ \A k \in 1..Len(Past(s, n)) : Past(s, n)[k] = s[n + k]
  BY DEF Past

LEMMA UptoFirstInRange ==
    ASSUME NEW S, NEW s \in Seq(S), NEW C
    PROVE  UptoFirst(s, C) \in 0..Len(s)
<1>1. CASE Where(s, C) = {}
  BY <1>1 DEF UptoFirst
<1>2. CASE Where(s, C) # {}
  <2>1. Where(s, C) \in SUBSET Nat /\ Where(s, C) \subseteq 1..Len(s)
    BY DEF Where
  <2>2. \E i \in Where(s, C) : \A j \in Where(s, C) : i <= j
    BY <1>2, <2>1, LeastNat
  <2>3. UptoFirst(s, C) \in Where(s, C)
    BY <1>2, <2>2 DEF UptoFirst
  <2> QED BY <2>1, <2>3
<1> QED BY <1>1, <1>2

LEMMA PutType ==
    ASSUME NEW c \in Seq(Byte), NEW o \in Nat, NEW t \in Seq(Byte)
    PROVE  Put(c, o, t) \in Seq(Byte)
<1>1. CASE t = <<>>
  BY <1>1 DEF Put
<1>2. CASE t # <<>>
  <2> DEFINE m == IF Len(c) >= o + Len(t) THEN Len(c) ELSE o + Len(t)
             e(i) == IF i \in (o + 1)..(o + Len(t)) THEN t[i - o]
                     ELSE IF i <= Len(c) THEN c[i] ELSE NUL
  <2>1. m \in Nat
    OBVIOUS
  <2>2. \A i \in 1..m : e(i) \in Byte
    BY DEF Byte
  <2>3. [i \in 1..m |-> e(i)] \in Seq(Byte)
    BY <2>1, <2>2, SeqDef
  <2> QED BY <1>2, <2>3 DEF Put
<1> QED BY <1>1, <1>2

-----------------------------------------------------------------------------
(* The invariant of one slot. *)
SlotOK(i) ==
    LET s == t_fb[i]
        c == content[desc[s.fd].file]
    IN  /\ s.fd = 0 => s.len = s.pos
        /\ s.fd # 0 => s.raw \/ Seekable(s.fd)
        /\ s.raw => s.len = s.pos
        /\ Ahead(i) >= 0
        /\ Ahead(i) > 0 => /\ Seekable(s.fd) /\ desc[s.fd].rd /\ Ahead(i) <= off[s.fd]
                           /\ Len(s.b) = s.len /\ off[s.fd] <= Len(c)
                           /\ \A k \in (s.pos + 1)..s.len : s.b[k] = c[off[s.fd] - s.len + k]

LEMMA IInvBySlot ==
    IInv <=> TypeOK /\ OneSlotEach /\ SoleWriters /\ \A i \in Slots : SlotOK(i)
  BY Zenon DEF IInv, SlotOK, UnusedHoldsNothing, RawUnlessSeekable, AheadCanGoBack, AheadIsFresh

SlotType == [fd : Fds, len : 0..FBUFSZ, pos : 0..FBUFSZ, raw : BOOLEAN, b : Seq(Byte)]

LEMMA UnusedType == Unused \in SlotType
  BY FdsAssumption, BufferAssumption DEF Unused, SlotType

(* A slot stays sound if its descriptor and what it holds stay put. *)
LEMMA SlotKept ==
    ASSUME TypeOK, NEW i \in Slots, SlotOK(i), t_fb'[i] = t_fb[i],
           t_fb[i].fd # 0 => /\ desc'[t_fb[i].fd] = desc[t_fb[i].fd]
                             /\ off'[t_fb[i].fd] = off[t_fb[i].fd],
           Ahead(i) > 0 => content'[desc[t_fb[i].fd].file] = content[desc[t_fb[i].fd].file]
    PROVE  SlotOK(i)'
<1>1. t_fb[i] \in SlotType
  BY DEF TypeOK, SlotType
<1>2. Ahead(i)' = Ahead(i)
  BY DEF Ahead
<1>3. CASE t_fb[i].fd = 0
  BY <1>1, <1>2, <1>3 DEF SlotOK, Ahead, SlotType
<1>4. CASE t_fb[i].fd # 0
  <2>1. Seekable(t_fb[i].fd)' = Seekable(t_fb[i].fd)
    BY <1>4 DEF Seekable
  <2> QED BY <1>2, <1>4, <2>1 DEF SlotOK
<1> QED BY <1>3, <1>4

LEMMA SlotDropped ==
    ASSUME NEW i \in Slots, t_fb'[i] = Unused
    PROVE  SlotOK(i)'
  BY DEF SlotOK, Ahead, Unused

-----------------------------------------------------------------------------
LEMMA DescRange ==
    ASSUME TypeOK, NEW fd \in Fds
    PROVE  /\ desc[fd] \in Descs
           /\ desc[fd].rd \/ desc[fd].wr => desc[fd].file \in Files
           /\ Seekable(fd) => desc[fd].file \in Files \ Pipes
           /\ desc[fd].file \in Files => content[desc[fd].file] \in Seq(Byte)
  BY DEF TypeOK, Descs, Closed, Seekable

LEMMA HonestNat ==
    ASSUME TypeOK, NEW fd \in Fds
    PROVE  Honest(fd) \in Nat
<1>1. off[fd] \in Nat
  BY DEF TypeOK
<1>2. Unread(fd) \in Int
  <2>1. CASE HasSlot(fd)
    <3>1. SlotOf(fd) \in Slots
      BY <2>1 DEF SlotOf, HasSlot
    <3>2. t_fb[SlotOf(fd)] \in SlotType
      BY <3>1 DEF TypeOK, SlotType
    <3> QED BY <2>1, <3>2, BufferAssumption DEF Unread, SlotType
  <2>2. CASE ~HasSlot(fd)
    BY <2>2 DEF Unread
  <2> QED BY <2>1, <2>2
<1> QED BY <1>1, <1>2 DEF Honest, Lseek

LEMMA SlotChosen ==
    ASSUME NEW fd, HasSlot(fd) \/ HasSlot(0)
    PROVE  /\ SlotOf(fd) \in Slots
           /\ t_fb[SlotOf(fd)].fd = IF HasSlot(fd) THEN fd ELSE 0
  BY DEF SlotOf, HasSlot

(* What a read gives is what the file holds there. *)
LEMMA ReadGives ==
    ASSUME TypeOK, NEW fd \in Fds, NEW o \in Nat, NEW n \in Nat
    PROVE  LET b == ReadBytes(fd, o, n)
               c == content[desc[fd].file]
           IN  /\ b \in Seq(Byte) /\ Len(b) <= n
               /\ Len(b) > 0 => desc[fd].rd /\ desc[fd].file \in Files
               /\ Len(b) > 0 /\ Seekable(fd) =>
                      o + Len(b) <= Len(c) /\ \A k \in 1..Len(b) : b[k] = c[o + k]
<1> DEFINE c == content[desc[fd].file]
<1>1. CASE ~desc[fd].rd
  BY <1>1, EmptySeq DEF ReadBytes
<1>2. CASE desc[fd].rd
  <2>1. desc[fd].file \in Files /\ c \in Seq(Byte)
    BY <1>2, DescRange
  <2>2. CASE Seekable(fd)
    <3>1. ReadBytes(fd, o, n) = Upto(Past(c, o), n)
      BY <1>2, <2>2 DEF ReadBytes
    <3> HIDE DEF c
    <3>2. /\ Past(c, o) \in Seq(Byte)
          /\ Len(Past(c, o)) = IF o <= Len(c) THEN Len(c) - o ELSE 0
          /\ \A k \in 1..Len(Past(c, o)) : Past(c, o)[k] = c[o + k]
      BY <2>1, PastProperties
    <3>3. /\ Upto(Past(c, o), n) \in Seq(Byte)
          /\ Len(Upto(Past(c, o), n)) = Least(n, Len(Past(c, o)))
          /\ \A k \in 1..Len(Upto(Past(c, o), n)) : Upto(Past(c, o), n)[k] = Past(c, o)[k]
      BY <3>2, UptoProperties
    <3>4. Len(Upto(Past(c, o), n)) \in Nat /\ Len(Past(c, o)) \in Nat /\ Len(c) \in Nat
      BY <2>1, <3>2, <3>3, LenProperties
    <3>5. Len(Upto(Past(c, o), n)) <= n /\ Len(Upto(Past(c, o), n)) <= Len(Past(c, o))
      BY <3>3, <3>4 DEF Least
    <3>6. Len(Upto(Past(c, o), n)) > 0 =>
             o + Len(Upto(Past(c, o), n)) <= Len(c)
             /\ \A k \in 1..Len(Upto(Past(c, o), n)) : Upto(Past(c, o), n)[k] = c[o + k]
      BY <3>2, <3>3, <3>4, <3>5
    <3> QED BY <1>2, <2>1, <3>1, <3>3, <3>5, <3>6 DEF c
  <2>3. CASE ~Seekable(fd)
    <3>1. ReadBytes(fd, o, n) = Upto(c, n)
      BY <1>2, <2>3 DEF ReadBytes
    <3>2. Upto(c, n) \in Seq(Byte) /\ Len(Upto(c, n)) <= n
      BY <2>1, UptoProperties, LenProperties DEF Least
    <3> QED BY <1>2, <2>1, <2>3, <3>1, <3>2
  <2> QED BY <2>2, <2>3
<1> QED BY <1>1, <1>2

(* ... and moves this descriptor, and shortens a pipe, only. *)
LEMMA ReadMoves ==
    ASSUME TypeOK, NEW fd \in Fds, NEW o \in Nat, NEW k \in Nat, SysRead(fd, o, k),
           k > 0 => desc[fd].file \in Files
    PROVE  /\ off' \in [Fds -> Nat] /\ content' \in [Files -> Seq(Byte)]
           /\ \A g \in Fds \ {fd} : off'[g] = off[g]
           /\ off'[fd] = IF Seekable(fd) THEN o + k ELSE o
           /\ \A f \in Files \ Pipes : content'[f] = content[f]
<1>1. off' \in [Fds -> Nat] /\ (\A g \in Fds \ {fd} : off'[g] = off[g])
      /\ off'[fd] = IF Seekable(fd) THEN o + k ELSE o
  BY DEF SysRead, TypeOK
<1>2. CASE Seekable(fd) \/ k = 0
  BY <1>1, <1>2 DEF SysRead, TypeOK
<1>3. CASE ~Seekable(fd) /\ k > 0
  <2>1. desc[fd].file \in Pipes /\ desc[fd].file \in Files
    BY <1>3 DEF Seekable
  <2>2. Past(content[desc[fd].file], k) \in Seq(Byte)
    BY <2>1, PastProperties DEF TypeOK
  <2>3. content' = [content EXCEPT ![desc[fd].file] = Past(@, k)]
    BY <1>3 DEF SysRead
  <2> QED BY <1>1, <2>1, <2>2, <2>3 DEF TypeOK
<1> QED BY <1>2, <1>3

(* Dropping fd's slot leaves the other slots sound, where the descriptors   *)
(* they belong to, and the files those can read, stay put.                  *)
LEMMA DropKeeps ==
    ASSUME IInv, NEW fd \in Fds, t_fdrop(fd),
           \A g \in Fds \ {fd, 0} : HasSlot(g) =>
               /\ desc'[g] = desc[g] /\ off'[g] = off[g]
               /\ Seekable(g) /\ desc[g].rd => content'[desc[g].file] = content[desc[g].file]
    PROVE  /\ t_fb' \in [Slots -> SlotType]
           /\ OneSlotEach'
           /\ \A i \in Slots : SlotOK(i)'
<1>1. TypeOK /\ OneSlotEach /\ \A i \in Slots : SlotOK(i)
  BY IInvBySlot
<1>2. t_fb \in [Slots -> SlotType]
  BY <1>1 DEF TypeOK, SlotType
<1>3. t_fb' = [i \in Slots |-> IF t_fb[i].fd = fd THEN Unused ELSE t_fb[i]]
  BY DEF t_fdrop
<1>4. t_fb' \in [Slots -> SlotType]
  BY <1>2, <1>3, UnusedType
<1>5. OneSlotEach'
  BY <1>1, <1>3 DEF OneSlotEach, Unused
<1>6. ASSUME NEW i \in Slots PROVE SlotOK(i)'
  <2>1. CASE t_fb[i].fd = fd
    BY <1>3, <2>1, SlotDropped
  <2>2. CASE t_fb[i].fd # fd
    <3>1. t_fb'[i] = t_fb[i] /\ t_fb[i].fd \in Fds
      BY <1>2, <1>3, <2>2 DEF SlotType
    <3>2. t_fb[i].fd # 0 => HasSlot(t_fb[i].fd)
      BY DEF HasSlot
    <3>3. Ahead(i) > 0 => t_fb[i].fd # 0 /\ Seekable(t_fb[i].fd) /\ desc[t_fb[i].fd].rd
      BY <1>1, <1>2 DEF SlotOK, Ahead, SlotType
    <3> QED BY <1>1, <2>2, <3>1, <3>2, <3>3, SlotKept
  <2> QED BY <2>1, <2>2
<1> QED BY <1>4, <1>5, <1>6

LEMMA IInvNext ==
    ASSUME TypeOK', OneSlotEach', SoleWriters', \A i \in Slots : SlotOK(i)'
    PROVE  IInv'
  BY Zenon DEF IInv, SlotOK, UnusedHoldsNothing, RawUnlessSeekable, AheadCanGoBack, AheadIsFresh

(* Closing descriptors adds no second one to a file that can be written. *)
LEMMA SoleKept ==
    ASSUME TypeOK, SoleWriters, \A g \in Fds : desc'[g] = desc[g] \/ desc'[g] = Closed
    PROVE  SoleWriters'
<1> SUFFICES ASSUME NEW fd \in Fds, NEW g \in Fds,
                    desc'[fd].wr, desc'[g].file = desc'[fd].file
             PROVE  fd = g
  BY DEF SoleWriters
<1>1. desc'[fd] = desc[fd] /\ desc[fd].file \in Files /\ desc[fd] # Closed
  BY DescRange DEF Closed
<1>2. desc'[g] = desc[g]
  BY <1>1, FilesAssumption DEF Closed
<1> QED BY <1>1, <1>2 DEF SoleWriters

(* No slot changes, and nothing a slot depends on does. *)
LEMMA SlotsKept ==
    ASSUME IInv, t_fb' = t_fb,
           \A g \in Fds \ {0} : HasSlot(g) =>
               /\ desc'[g] = desc[g] /\ off'[g] = off[g]
               /\ Seekable(g) => content'[desc[g].file] = content[desc[g].file]
    PROVE  OneSlotEach' /\ \A i \in Slots : SlotOK(i)'
<1>1. TypeOK /\ OneSlotEach /\ \A i \in Slots : SlotOK(i)
  BY IInvBySlot
<1>2. ASSUME NEW i \in Slots PROVE SlotOK(i)'
  <2>1. t_fb[i] \in SlotType /\ (t_fb[i].fd # 0 => HasSlot(t_fb[i].fd))
    BY <1>1 DEF TypeOK, SlotType, HasSlot
  <2>2. Ahead(i) > 0 => t_fb[i].fd # 0 /\ Seekable(t_fb[i].fd)
    BY <1>1, <2>1 DEF SlotOK, Ahead, SlotType
  <2> QED BY <1>1, <2>1, <2>2, SlotKept DEF SlotType
<1> QED BY <1>1, <1>2 DEF OneSlotEach

(* A word that drops fd's slot and moves fd, and the files of no other. *)
LEMMA DropStep ==
    ASSUME IInv, NEW fd \in Fds, t_fdrop(fd),
           UNCHANGED <<dir, desc, t_seek0, rl>>,
           off' \in [Fds -> Nat], content' \in [Files -> Seq(Byte)],
           \A g \in Fds \ {fd} :
               /\ off'[g] = off[g]
               /\ Seekable(g) /\ desc[g].rd => content'[desc[g].file] = content[desc[g].file]
    PROVE  IInv'
<1>1. TypeOK /\ SoleWriters
  BY IInvBySlot
<1>2. /\ t_fb' \in [Slots -> SlotType]
      /\ OneSlotEach' /\ \A i \in Slots : SlotOK(i)'
  BY DropKeeps
<1>3. TypeOK'
  BY <1>1, <1>2 DEF TypeOK, SlotType
<1>4. SoleWriters'
  BY <1>1 DEF SoleWriters
<1> QED BY <1>2, <1>3, <1>4, IInvNext

(* READ-LINE gives its descriptor's slot a new value: the others stay sound. *)
LEMMA SlotSet ==
    ASSUME IInv, NEW fd \in Fds \ {0}, ~NoSlotLeft(fd), NEW v \in SlotType, v.fd = fd,
           t_fb' = [t_fb EXCEPT ![SlotOf(fd)] = v], desc' = desc,
           \A g \in Fds \ {fd} : off'[g] = off[g],
           \A f \in Files \ Pipes : content'[f] = content[f]
    PROVE  /\ t_fb' \in [Slots -> SlotType]
           /\ t_fb'[SlotOf(fd)] = v
           /\ OneSlotEach'
           /\ \A j \in Slots \ {SlotOf(fd)} : SlotOK(j)'
<1>1. TypeOK /\ OneSlotEach /\ \A i \in Slots : SlotOK(i)
  BY IInvBySlot
<1>2. t_fb \in [Slots -> SlotType]
  BY <1>1 DEF TypeOK, SlotType
<1>3. SlotOf(fd) \in Slots /\ t_fb[SlotOf(fd)].fd = IF HasSlot(fd) THEN fd ELSE 0
  BY SlotChosen DEF NoSlotLeft
<1>4. \A j \in Slots \ {SlotOf(fd)} : t_fb[j].fd # fd
  BY <1>1, <1>3 DEF OneSlotEach, HasSlot
<1>5. OneSlotEach'
  BY <1>1, <1>2, <1>3, <1>4 DEF OneSlotEach
<1>6. ASSUME NEW j \in Slots \ {SlotOf(fd)} PROVE SlotOK(j)'
  <2>1. t_fb'[j] = t_fb[j] /\ t_fb[j].fd \in Fds \ {fd}
    BY <1>2, <1>4 DEF SlotType
  <2>2. Ahead(j) > 0 => desc[t_fb[j].fd].file \in Files \ Pipes
    BY <1>1, <1>2 DEF SlotOK, Seekable
  <2> QED BY <1>1, <2>1, <2>2, SlotKept
<1> QED BY <1>2, <1>3, <1>5, <1>6

LEMMA SlotFound ==
    ASSUME IInv, NEW fd \in Fds \ {0}, ~NoSlotLeft(fd)
    PROVE  LET s == t_fslot(fd)
           IN  /\ s \in SlotType /\ s.fd = fd
               /\ s.raw \/ Seekable(fd)
               /\ s.raw => s.len = s.pos
               /\ s.pos <= s.len
               /\ ~HasSlot(fd) => s.len = s.pos
<1>1. TypeOK /\ \A i \in Slots : SlotOK(i)
  BY IInvBySlot
<1>2. CASE HasSlot(fd)
  <2>1. SlotOf(fd) \in Slots /\ t_fb[SlotOf(fd)].fd = fd
    BY <1>2, SlotChosen
  <2>2. t_fb[SlotOf(fd)] \in SlotType /\ t_fslot(fd) = t_fb[SlotOf(fd)]
    BY <1>1, <1>2, <2>1 DEF TypeOK, SlotType, t_fslot
  <2>3. SlotOK(SlotOf(fd))
    BY <1>1, <2>1
  <2> QED BY <1>2, <2>1, <2>2, <2>3 DEF SlotOK, Ahead, SlotType
<1>3. CASE ~HasSlot(fd)
  <2>1. t_fslot(fd) = [fd |-> fd, len |-> 0, pos |-> 0, raw |-> ~Seekable(fd), b |-> <<>>]
    BY <1>3 DEF t_fslot, Unused
  <2>2. CASE Seekable(fd)
    <3>1. t_fslot(fd) = [fd |-> fd, len |-> 0, pos |-> 0, raw |-> FALSE, b |-> <<>>]
      BY <2>1, <2>2
    <3> QED BY <2>2, <3>1, BufferAssumption DEF SlotType
  <2>3. CASE ~Seekable(fd)
    <3>1. t_fslot(fd) = [fd |-> fd, len |-> 0, pos |-> 0, raw |-> TRUE, b |-> <<>>]
      BY <2>1, <2>3
    <3> QED BY <3>1, BufferAssumption DEF SlotType
  <2> QED BY <2>2, <2>3
<1> QED BY <1>2, <1>3

LEMMA OpenFlags ==
    ASSUME NEW fam \in Fams
    PROVE  LET fl == open_flags[fam]
           IN  fl.rd \in BOOLEAN /\ fl.wr \in BOOLEAN /\ fl.app \in BOOLEAN /\ (fl.trunc => fl.wr)
<1> DEFINE rd == fam \in {"r", "r+", "w+"}
           wr == fam # "r"
           creat == fam \in {"w", "a", "w+"}
           trunc == fam \in {"w", "w+"}
           app == fam = "a"
<1>1. open_flags[fam] = [rd |-> rd, wr |-> wr, creat |-> creat, trunc |-> trunc, app |-> app]
  BY Zenon DEF open_flags
<1>2. rd \in BOOLEAN /\ wr \in BOOLEAN /\ app \in BOOLEAN /\ (trunc => wr)
  OBVIOUS
<1> HIDE DEF rd, wr, creat, trunc, app
<1> QED BY <1>1, <1>2

-----------------------------------------------------------------------------
(* One lemma an action. *)
LEMMA InitIInv == Init => IInv
<1> SUFFICES ASSUME Init PROVE IInv
  OBVIOUS
<1>1. t_fb \in [Slots -> SlotType] /\ \A i \in Slots : t_fb[i] = Unused
  BY UnusedType DEF Init
<1>2. PICK d \in Stdins : desc = [fd \in Fds |-> IF fd = 0 THEN d ELSE Closed]
  BY DEF Init, TableInit
<1>3. PICK f \in Files : d = [file |-> f, rd |-> TRUE, wr |-> FALSE, app |-> FALSE]
  BY DEF Stdins, Closed
<1>4. desc \in [Fds -> Descs] /\ \A fd \in Fds : ~desc[fd].wr
  BY <1>2, <1>3 DEF Descs, Closed
<1>5. TypeOK
  BY <1>1, <1>4, InputAssumption DEF Init, TableInit, TypeOK, SlotType
<1>6. OneSlotEach /\ SoleWriters /\ \A i \in Slots : SlotOK(i)
  BY <1>1, <1>4 DEF OneSlotEach, SoleWriters, SlotOK, Ahead, Unused
<1> QED BY <1>5, <1>6, IInvBySlot

LEMMA OpenFileIInv ==
    ASSUME IInv, NEW f \in Files, NEW fam \in FamsUsed, OpenFile(f, fam),
           UNCHANGED <<t_fb, t_seek0, rl>>
    PROVE  IInv'
<1>1. TypeOK /\ SoleWriters /\ \A i \in Slots : SlotOK(i)
  BY IInvBySlot
<1> DEFINE free == {fd \in Fds : desc[fd] = Closed}
           low  == CHOOSE fd \in free : \A g \in free : fd <= g
           fl   == open_flags[fam]
           d    == [file |-> f, rd |-> fl.rd, wr |-> fl.wr, app |-> fl.app]
<1>2. CASE UNCHANGED <<content, dir, desc, off>>
  <2>1. OneSlotEach' /\ \A i \in Slots : SlotOK(i)'
    BY <1>2, SlotsKept
  <2> QED BY <1>1, <1>2, <2>1, IInvNext DEF TypeOK, SoleWriters
<1>3. CASE ~UNCHANGED <<content, dir, desc, off>>
  <2>1. /\ free # {} /\ SoleWriter(f, fam)
        /\ f \notin dir => \A fd \in Fds : desc[fd].file # f
        /\ content' = IF fl.trunc \/ f \notin dir THEN [content EXCEPT ![f] = <<>>] ELSE content
        /\ dir' = dir \cup {f}
        /\ desc' = [desc EXCEPT ![low] = d]
        /\ off' = [off EXCEPT ![low] = 0]
    BY <1>3 DEF OpenFile
  <2>2. low \in free
    <3>1. free \in SUBSET Nat
      BY FdsAssumption
    <3> QED BY <2>1, <3>1, LeastNat
  <2>3. fl.rd \in BOOLEAN /\ fl.wr \in BOOLEAN /\ fl.app \in BOOLEAN /\ (fl.trunc => fl.wr)
    BY InputAssumption, OpenFlags
  <2> HIDE DEF low, fl
  <2>4. low \in Fds /\ desc[low] = Closed
    BY <2>2
  <2>5. d \in Descs
    BY <2>3 DEF Descs
  <2>6. TypeOK'
    <3>1. content' \in [Files -> Seq(Byte)]
      BY <1>1, <2>1, EmptySeq DEF TypeOK
    <3>2. desc' \in [Fds -> Descs] /\ off' \in [Fds -> Nat]
      BY <1>1, <2>1, <2>4, <2>5 DEF TypeOK
    <3> QED BY <1>1, <2>1, <3>1, <3>2 DEF TypeOK
  <2>7. \A g \in Fds \ {low} : desc'[g] = desc[g] /\ off'[g] = off[g]
    BY <1>1, <2>1, <2>4 DEF TypeOK
  <2>8. desc'[low] = d /\ off'[low] = 0
    BY <1>1, <2>1, <2>4 DEF TypeOK
  <2>9. SoleWriters'
    <3> SUFFICES ASSUME NEW fd \in Fds, NEW g \in Fds,
                        desc'[fd].wr, desc'[g].file = desc'[fd].file
                 PROVE  fd = g
      BY DEF SoleWriters
    <3>1. CASE fd = low /\ g # low
      BY <2>1, <2>7, <2>8, <3>1 DEF SoleWriter, fl
    <3>2. CASE fd # low /\ g = low
      BY <2>1, <2>7, <2>8, <3>2 DEF SoleWriter, fl
    <3>3. CASE fd # low /\ g # low
      BY <1>1, <2>7, <3>3 DEF SoleWriters, Closed
    <3> QED BY <3>1, <3>2, <3>3
  <2>10. ASSUME NEW g \in Fds, desc[g].file \in Files PROVE content'[desc[g].file] = content[desc[g].file]
    BY <1>1, <2>1, <2>3, <2>10 DEF SoleWriter, TypeOK, fl
  <2>11. OneSlotEach'
    BY IInvBySlot DEF OneSlotEach
  <2>12. ASSUME NEW i \in Slots PROVE SlotOK(i)'
    <3>1. t_fb[i] \in SlotType
      BY <1>1 DEF TypeOK, SlotType
    <3>2. Ahead(i) > 0 => desc[t_fb[i].fd].file \in Files
      BY <1>1 DEF SlotOK, Seekable
    <3>3. CASE t_fb[i].fd # low \/ t_fb[i].fd = 0
      <4>1. Ahead(i) > 0 => t_fb[i].fd # 0
        BY <1>1, <3>1 DEF SlotOK, Ahead, SlotType
      <4>2. Ahead(i) > 0 => content'[desc[t_fb[i].fd].file] = content[desc[t_fb[i].fd].file]
        BY <2>10, <3>1, <3>2 DEF SlotType
      <4>3. t_fb[i].fd # 0 => desc'[t_fb[i].fd] = desc[t_fb[i].fd] /\ off'[t_fb[i].fd] = off[t_fb[i].fd]
        BY <2>7, <3>1, <3>3 DEF SlotType
      <4> QED BY <1>1, <4>2, <4>3, SlotKept
    <3>4. CASE t_fb[i].fd = low /\ low # 0
      <4>1. ~Seekable(low)
        BY <2>4, FilesAssumption DEF Seekable, Closed
      <4>2. t_fb[i].raw /\ t_fb[i].len = t_fb[i].pos
        BY <1>1, <3>4, <4>1 DEF SlotOK
      <4> QED BY <3>1, <3>4, <4>2 DEF SlotOK, Ahead, SlotType
    <3> QED BY <3>3, <3>4
  <2> QED BY <2>6, <2>9, <2>11, <2>12, IInvNext
<1> QED BY <1>2, <1>3

LEMMA DeleteIInv ==
    ASSUME IInv, Delete
    PROVE  IInv'
<1>1. PICK f \in Files : DeleteFile(f) /\ UNCHANGED <<t_fb, t_seek0, rl>>
  BY DEF Delete
<1>2. TypeOK /\ SoleWriters
  BY IInvBySlot
<1>3. OneSlotEach' /\ \A i \in Slots : SlotOK(i)'
  BY <1>1, SlotsKept DEF DeleteFile
<1>4. TypeOK' /\ SoleWriters'
  BY <1>1, <1>2 DEF DeleteFile, TypeOK, SoleWriters
<1> QED BY <1>3, <1>4, IInvNext

LEMMA CloseFileIInv ==
    ASSUME IInv, NEW fd \in Fds, CloseFile(fd)
    PROVE  IInv'
<1>1. TypeOK /\ SoleWriters
  BY IInvBySlot
<1>2. desc' = [desc EXCEPT ![fd] = Closed] /\ off' = [off EXCEPT ![fd] = 0]
      /\ t_fdrop(fd) /\ UNCHANGED <<content, dir, t_seek0, rl>>
  BY DEF CloseFile
<1>3. \A g \in Fds \ {fd} : desc'[g] = desc[g] /\ off'[g] = off[g]
  BY <1>1, <1>2 DEF TypeOK
<1>4. /\ t_fb' \in [Slots -> SlotType]
      /\ OneSlotEach' /\ \A i \in Slots : SlotOK(i)'
  BY <1>2, <1>3, DropKeeps
<1>5. TypeOK'
  BY <1>1, <1>2, <1>4 DEF TypeOK, SlotType, Descs
<1>6. SoleWriters'
  BY <1>1, <1>2, SoleKept DEF TypeOK
<1> QED BY <1>4, <1>5, <1>6, IInvNext

LEMMA RedirectIInv ==
    ASSUME IInv, NEW old \in Fds, NEW new \in Fds, Redirect(old, new)
    PROVE  IInv'
<1>1. TypeOK /\ SoleWriters
  BY IInvBySlot
<1>2. /\ old # new /\ (new # 0 => ~HasSlot(new)) /\ t_fdrop(old)
      /\ desc' = [desc EXCEPT ![new] = desc[old], ![old] = Closed]
      /\ off' = [off EXCEPT ![new] = Honest(old), ![old] = 0]
      /\ UNCHANGED <<content, dir, t_seek0, rl>>
  BY DEF Redirect
<1>3. \A g \in Fds \ {old, new} : desc'[g] = desc[g] /\ off'[g] = off[g]
  BY <1>1, <1>2 DEF TypeOK
<1>4. /\ t_fb' \in [Slots -> SlotType]
      /\ OneSlotEach' /\ \A i \in Slots : SlotOK(i)'
  BY <1>2, <1>3, DropKeeps
<1>5. TypeOK'
  <2>1. desc' \in [Fds -> Descs]
    BY <1>1, <1>2 DEF TypeOK, Descs
  <2>2. off' \in [Fds -> Nat]
    BY <1>1, <1>2, HonestNat DEF TypeOK
  <2> QED BY <1>1, <1>2, <1>4, <2>1, <2>2 DEF TypeOK, SlotType
<1>6. SoleWriters'
  <2>1. desc'[new] = desc[old] /\ desc'[old] = Closed
    BY <1>1, <1>2 DEF TypeOK
  <2> SUFFICES ASSUME NEW fd \in Fds, NEW g \in Fds,
                      desc'[fd].wr, desc'[g].file = desc'[fd].file
               PROVE  fd = g
    BY DEF SoleWriters
  <2> DEFINE was(x) == IF x = new THEN old ELSE x
  <2>2. fd # old /\ desc'[fd] = desc[was(fd)]
    BY <1>3, <2>1 DEF Closed
  <2>3. desc[was(fd)].file \in Files /\ desc[was(fd)].wr /\ desc[was(fd)] # Closed
    BY <1>1, <2>2, DescRange DEF Closed
  <2>4. g # old
    BY <2>1, <2>2, <2>3, FilesAssumption DEF Closed
  <2>5. desc'[g] = desc[was(g)]
    BY <1>3, <2>1, <2>4
  <2>6. was(fd) = was(g)
    BY <1>1, <2>2, <2>3, <2>5 DEF SoleWriters
  <2> QED BY <2>2, <2>4, <2>6
<1> QED BY <1>4, <1>5, <1>6, IInvNext

-----------------------------------------------------------------------------
(* READ-LINE: what it has of its line is a sequence of bytes, ... *)
LineType == [fd : Fds, max : Nat, line : Seq(Byte)] \cup {NoLine}

LEMMA GotType ==
    ASSUME TypeOK, rl # NoLine, (\E c \in Byte : GotByte(c)) \/ (\E fail \in BOOLEAN : GotNone(fail))
    PROVE  rl' \in LineType
<1>1. rl \in [fd : Fds, max : Nat, line : Seq(Byte)]
  BY DEF TypeOK
<1>2. rl' = NoLine \/ \E c \in Byte : rl' = [rl EXCEPT !.line = Append(@, c)]
  BY DEF GotByte, GotNone, LineEnds
<1> QED BY <1>1, <1>2 DEF LineType

(* ... and its step is sound if its slot is and the others are. *)
LEMMA LineStep ==
    ASSUME IInv, rl' \in LineType, UNCHANGED <<dir, desc, t_seek0>>,
           off' \in [Fds -> Nat], content' \in [Files -> Seq(Byte)],
           t_fb' \in [Slots -> SlotType], OneSlotEach', \A i \in Slots : SlotOK(i)'
    PROVE  IInv'
<1>1. TypeOK /\ SoleWriters
  BY IInvBySlot
<1>2. TypeOK'
  BY <1>1 DEF TypeOK, LineType, SlotType
<1>3. SoleWriters'
  BY <1>1 DEF SoleWriters
<1> QED BY <1>2, <1>3, IInvNext

LEMMA ReadLineIInv ==
    ASSUME IInv, NEW fd \in Fds, NEW max \in Counts, ReadLine(fd, max)
    PROVE  IInv'
<1>1. TypeOK
  BY IInvBySlot
<1>2. UNCHANGED <<content, dir, desc, off, t_fb, t_seek0>>
  BY DEF ReadLine
<1>3. rl' \in LineType
  <2>1. CASE max = 0
    BY <2>1 DEF ReadLine, LineEnds, LineType
  <2>2. CASE max # 0
    <3>1. rl' = [fd |-> fd, max |-> max, line |-> <<>>] /\ max \in Nat
      BY <2>2, InputAssumption DEF ReadLine
    <3> QED BY <3>1, EmptySeq DEF LineType
  <2> QED BY <2>1, <2>2
<1>4. OneSlotEach' /\ \A i \in Slots : SlotOK(i)'
  BY <1>2, SlotsKept
<1> QED BY <1>1, <1>2, <1>3, <1>4, LineStep DEF TypeOK, SlotType

(* The slot of the line, with bytes still to take or with none. *)
LEMMA SlotNow ==
    ASSUME NEW n \in Slots, NEW v \in SlotType, NEW fd \in Fds \ {0},
           t_fb'[n] = v, v.fd = fd, desc' = desc, Seekable(fd),
           v.raw => v.len = v.pos, v.pos <= v.len,
           v.pos < v.len =>
               /\ desc[fd].rd /\ v.len - v.pos <= off'[fd] /\ Len(v.b) = v.len
               /\ off'[fd] <= Len(content'[desc[fd].file])
               /\ \A k \in (v.pos + 1)..v.len : v.b[k] = content'[desc[fd].file][off'[fd] - v.len + k]
    PROVE  SlotOK(n)'
<1>1. Ahead(n)' = v.len - v.pos /\ v.len \in Nat /\ v.pos \in Nat
  BY BufferAssumption DEF Ahead, SlotType
<1>2. Seekable(fd)'
  BY DEF Seekable
<1> QED BY <1>1, <1>2 DEF SlotOK, Seekable

LEMMA LineByteRawIInv ==
    ASSUME IInv, LineByteRaw, NEW fd \in Fds, fd = rl.fd, NEW n, n = SlotOf(fd)
    PROVE  IInv'
<1> DEFINE c == ReadBytes(fd, off[fd], 1)
<1>1. /\ TypeOK /\ rl # NoLine /\ fd \in Fds
  BY IInvBySlot DEF LineByteRaw, Idle, TypeOK
<1>2. /\ SysRead(fd, off[fd], Len(c)) /\ UNCHANGED <<dir, desc, t_seek0>>
      /\ fd = 0 \/ NoSlotLeft(fd) \/ t_fslot(fd).raw
      /\ t_fb' = IF fd = 0 \/ NoSlotLeft(fd) THEN t_fb ELSE [t_fb EXCEPT ![n] = t_fslot(fd)]
  BY DEF LineByteRaw
<1>3. off[fd] \in Nat
  BY <1>1 DEF TypeOK
<1>4. c \in Seq(Byte) /\ (Len(c) > 0 => desc[fd].file \in Files)
  BY <1>1, <1>3, ReadGives
<1>5. /\ off' \in [Fds -> Nat] /\ content' \in [Files -> Seq(Byte)]
      /\ \A g \in Fds \ {fd} : off'[g] = off[g]
      /\ \A f \in Files \ Pipes : content'[f] = content[f]
  BY <1>1, <1>2, <1>3, <1>4, ReadMoves, LenProperties
<1>6. rl' \in LineType
  <2>1. CASE c # <<>>
    BY <1>1, <1>4, <2>1, GotType DEF LineByteRaw
  <2>2. CASE c = <<>>
    BY <1>1, <2>2, GotType DEF LineByteRaw
  <2> QED BY <2>1, <2>2
<1>7. CASE fd = 0 \/ NoSlotLeft(fd)
  <2>1. t_fb' = t_fb
    BY <1>2, <1>7
  <2>2. \A g \in Fds \ {0} : HasSlot(g) => g # fd
    BY <1>7 DEF NoSlotLeft
  <2>3. OneSlotEach' /\ \A i \in Slots : SlotOK(i)'
    BY <1>2, <1>5, <2>1, <2>2, SlotsKept DEF Seekable
  <2> QED BY <1>1, <1>2, <1>5, <1>6, <2>1, <2>3, LineStep DEF TypeOK, SlotType
<1>8. CASE ~(fd = 0 \/ NoSlotLeft(fd))
  <2>1. fd \in Fds \ {0} /\ ~NoSlotLeft(fd) /\ t_fslot(fd).raw
    BY <1>1, <1>2, <1>8
  <2> DEFINE w == t_fslot(fd)
  <2>2. w \in SlotType /\ w.fd = fd /\ w.len = w.pos
    BY <2>1, SlotFound, Zenon
  <2>3. t_fb' = [t_fb EXCEPT ![n] = w]
    BY <1>2, <1>8
  <2> HIDE DEF w
  <2>4. /\ t_fb' \in [Slots -> SlotType] /\ t_fb'[n] = w
        /\ OneSlotEach' /\ \A j \in Slots \ {n} : SlotOK(j)'
    BY <1>2, <1>5, <2>1, <2>2, <2>3, SlotSet
  <2>5. SlotOK(n)'
    <3>1. Ahead(n)' = w.len - w.pos /\ w.len \in Nat /\ w.pos \in Nat
      BY <2>2, <2>4, BufferAssumption DEF Ahead, SlotType
    <3>2. w.raw
      BY <2>1 DEF w
    <3> QED BY <2>1, <2>2, <2>4, <3>1, <3>2 DEF SlotOK
  <2> QED BY <1>2, <1>5, <1>6, <2>4, <2>5, LineStep
<1> QED BY <1>7, <1>8

LEMMA LineByteFillIInv ==
    ASSUME IInv, LineByteFill, NEW fd \in Fds, fd = rl.fd, NEW n, n = SlotOf(fd)
    PROVE  IInv'
<1> DEFINE b == ReadBytes(fd, off[fd], FBUFSZ)
           s == t_fslot(fd)
           v == IF b = <<>> THEN s ELSE [s EXCEPT !.len = Len(b), !.pos = 1, !.b = b]
<1>1. TypeOK /\ rl # NoLine /\ fd \in Fds \ {0} /\ ~NoSlotLeft(fd)
  BY IInvBySlot DEF LineByteFill, Idle, TypeOK
<1>2. /\ ~s.raw /\ s.pos >= s.len
      /\ t_fb' = [t_fb EXCEPT ![n] = v]
      /\ SysRead(fd, off[fd], Len(b)) /\ UNCHANGED <<dir, desc, t_seek0>>
  BY DEF LineByteFill
<1>3. off[fd] \in Nat
  BY <1>1 DEF TypeOK
<1>4. s \in SlotType /\ s.fd = fd /\ Seekable(fd) /\ s.pos = s.len
  <2>1. s \in SlotType /\ s.fd = fd /\ (s.raw \/ Seekable(fd)) /\ s.pos <= s.len
    BY <1>1, SlotFound
  <2> QED BY <1>2, <2>1, BufferAssumption DEF SlotType
<1>5. /\ b \in Seq(Byte) /\ Len(b) <= FBUFSZ
      /\ Len(b) > 0 => desc[fd].rd /\ desc[fd].file \in Files
      /\ Len(b) > 0 => off[fd] + Len(b) <= Len(content[desc[fd].file])
                       /\ \A k \in 1..Len(b) : b[k] = content[desc[fd].file][off[fd] + k]
  <2>1. TypeOK /\ fd \in Fds /\ FBUFSZ \in Nat
    BY <1>1, BufferAssumption
  <2> HIDE DEF s, v
  <2>2. /\ b \in Seq(Byte) /\ Len(b) <= FBUFSZ
        /\ Len(b) > 0 => desc[fd].rd /\ desc[fd].file \in Files
        /\ Len(b) > 0 /\ Seekable(fd) =>
               off[fd] + Len(b) <= Len(content[desc[fd].file])
               /\ \A k \in 1..Len(b) : b[k] = content[desc[fd].file][off[fd] + k]
    BY <1>3, <2>1, ReadGives, ZenonT(60)
  <2> QED BY <1>4, <2>2, Zenon
<1>6. /\ off' \in [Fds -> Nat] /\ content' \in [Files -> Seq(Byte)]
      /\ \A g \in Fds \ {fd} : off'[g] = off[g]
      /\ off'[fd] = off[fd] + Len(b)
      /\ \A f \in Files \ Pipes : content'[f] = content[f]
  BY <1>1, <1>2, <1>3, <1>4, <1>5, ReadMoves, LenProperties
<1>7. rl' \in LineType
  <2>1. CASE b # <<>>
    <3>1. b[1] \in Byte /\ GotByte(b[1])
      BY <1>5, <2>1 DEF LineByteFill
    <3> QED BY <1>1, <3>1, GotType
  <2>2. CASE b = <<>>
    BY <1>1, <2>2, GotType DEF LineByteFill
  <2> QED BY <2>1, <2>2
<1> HIDE DEF b, s
<1>8. /\ v \in SlotType /\ v.fd = fd /\ v.raw = s.raw
      /\ b = <<>> => v.len = s.len /\ v.pos = s.pos
      /\ b # <<>> => v.len = Len(b) /\ v.pos = 1 /\ v.b = b /\ Len(b) \in Nat \ {0}
  <2>1. b # <<>> => Len(b) \in 1..FBUFSZ /\ 1 \in 0..FBUFSZ
    BY <1>5, BufferAssumption
  <2>2. CASE b = <<>>
    <3>1. v = s
      BY <2>2
    <3> QED BY <1>4, <2>2, <3>1
  <2>3. CASE b # <<>>
    <3>1. v = [fd |-> fd, len |-> Len(b), pos |-> 1, raw |-> s.raw, b |-> b]
      BY <1>4, <2>3 DEF SlotType
    <3>2. s.raw \in BOOLEAN
      BY <1>4 DEF SlotType
    <3> HIDE DEF v
    <3> QED BY <1>5, <2>1, <2>3, <3>1, <3>2 DEF SlotType
  <2> QED BY <2>2, <2>3
<1> HIDE DEF v
<1>9. /\ t_fb' \in [Slots -> SlotType] /\ t_fb'[n] = v
      /\ OneSlotEach' /\ \A j \in Slots \ {n} : SlotOK(j)'
  <2>1. desc' = desc /\ t_fb' = [t_fb EXCEPT ![SlotOf(fd)] = v]
    BY <1>2
  <2>2. /\ t_fb' \in [Slots -> SlotType] /\ t_fb'[SlotOf(fd)] = v
        /\ OneSlotEach' /\ \A j \in Slots \ {SlotOf(fd)} : SlotOK(j)'
    BY <1>1, <1>6, <1>8, <2>1, SlotSet, Zenon
  <2> QED BY <2>2
<1>10. n \in Slots
  BY <1>1, SlotChosen DEF NoSlotLeft
<1>11. SlotOK(n)'
  <2>1. content'[desc[fd].file] = content[desc[fd].file] /\ s.len \in Nat /\ s.pos \in Nat
    BY <1>4, <1>6, BufferAssumption DEF Seekable, SlotType
  <2>2. v.pos <= v.len /\ (v.raw => v.len = v.pos)
    BY <1>2, <1>4, <1>8, <2>1
  <2>3. CASE b = <<>>
    BY <1>1, <1>2, <1>4, <1>8, <1>9, <1>10, <2>1, <2>2, <2>3, SlotNow
  <2>4. CASE b # <<>>
    <3>1. Len(b) \in Nat \ {0} /\ Len(content[desc[fd].file]) \in Nat
      BY <1>1, <1>5, <1>8, <2>4, DescRange, LenProperties
    <3>2. /\ v.len - v.pos <= off'[fd] /\ Len(v.b) = v.len
          /\ off'[fd] <= Len(content'[desc[fd].file])
          /\ \A k \in (v.pos + 1)..v.len : v.b[k] = content'[desc[fd].file][off'[fd] - v.len + k]
      <4>1. \A k \in 2..Len(b) : off'[fd] - Len(b) + k = off[fd] + k
        BY <1>3, <1>6, <3>1
      <4>2. 1 + 1 = 2 /\ 2..Len(b) \subseteq 1..Len(b)
        BY <3>1
      <4>3. \A k \in 2..Len(b) : b[k] = content'[desc[fd].file][off'[fd] - Len(b) + k]
        BY <1>5, <2>1, <3>1, <4>1, <4>2
      <4>4. \A k \in (v.pos + 1)..v.len : v.b[k] = content'[desc[fd].file][off'[fd] - v.len + k]
        BY <1>8, <2>4, <4>2, <4>3
      <4>5. Len(b) > 0 /\ Len(b) - 1 <= off[fd] + Len(b)
        BY <1>3, <3>1
      <4> QED BY <1>5, <1>6, <1>8, <2>1, <2>4, <4>4, <4>5
    <3>3. desc[fd].rd /\ fd # 0 /\ desc' = desc
      BY <1>1, <1>2, <1>5, <3>1
    <3> QED BY <1>1, <1>4, <1>8, <1>9, <1>10, <2>2, <3>2, <3>3, SlotNow, Zenon
  <2> QED BY <2>3, <2>4
<1> QED BY <1>2, <1>6, <1>7, <1>9, <1>11, LineStep

(* What a slot with bytes read ahead says of its descriptor. *)
FreshAt(s, fd) ==
    /\ Seekable(fd) /\ desc[fd].rd /\ s.len - s.pos <= off[fd] /\ Len(s.b) = s.len
    /\ off[fd] <= Len(content[desc[fd].file])
    /\ \A k \in (s.pos + 1)..s.len : s.b[k] = content[desc[fd].file][off[fd] - s.len + k]

LEMMA SlotAhead ==
    ASSUME NEW i, SlotOK(i), t_fb[i].len - t_fb[i].pos > 0
    PROVE  FreshAt(t_fb[i], t_fb[i].fd)
BY DEF SlotOK, Ahead, FreshAt

LEMMA LineByteAheadIInv ==
    ASSUME IInv, LineByteAhead, NEW fd \in Fds, fd = rl.fd, NEW n, n = SlotOf(fd)
    PROVE  IInv'
<1> DEFINE s == t_fb[n]
<1>1. TypeOK /\ rl # NoLine /\ fd \in Fds \ {0} /\ HasSlot(fd) /\ SlotOK(n)
  BY IInvBySlot, SlotChosen DEF LineByteAhead, Idle, TypeOK
<1>2. n \in Slots /\ s.fd = fd /\ t_fslot(fd) = s
  BY <1>1, SlotChosen DEF t_fslot
<1>3. /\ s.pos < s.len /\ UNCHANGED <<content, dir, desc, off, t_seek0>>
      /\ t_fb' = [t_fb EXCEPT ![n].pos = @ + 1]
      /\ GotByte(s.b[s.pos + 1])
  BY <1>2 DEF LineByteAhead
<1>4. s \in SlotType
  BY <1>1, <1>2 DEF TypeOK, SlotType
<1> DEFINE v == [s EXCEPT !.pos = @ + 1]
<1>5. /\ v \in SlotType /\ v.fd = fd /\ t_fb' = [t_fb EXCEPT ![n] = v]
      /\ v.pos = s.pos + 1 /\ v.len = s.len /\ v.b = s.b /\ v.raw = s.raw
  <2>1. v = [fd |-> s.fd, len |-> s.len, pos |-> s.pos + 1, raw |-> s.raw, b |-> s.b]
    BY <1>4 DEF SlotType
  <2>2. t_fb' = [t_fb EXCEPT ![n] = v]
    BY <1>3
  <2>3. s.pos + 1 \in 0..FBUFSZ
    BY <1>3, <1>4, BufferAssumption DEF SlotType
  <2> HIDE DEF s, v
  <2> QED BY <1>2, <1>4, <2>1, <2>2, <2>3 DEF SlotType
<1>6. /\ s.raw = FALSE /\ Seekable(fd) /\ desc[fd].rd /\ s.len - s.pos <= off[fd] /\ Len(s.b) = s.len
      /\ off[fd] <= Len(content[desc[fd].file])
      /\ \A k \in (s.pos + 1)..s.len : s.b[k] = content[desc[fd].file][off[fd] - s.len + k]
  <2>1. s.len - s.pos > 0
    BY <1>3, <1>4 DEF SlotType
  <2>2. s.raw = FALSE
    <3>1. s.raw => s.len = s.pos
      BY <1>1, Zenon DEF SlotOK
    <3>2. s.len # s.pos
      BY <1>3, <1>4 DEF SlotType
    <3>3. s.raw \in BOOLEAN
      BY <1>4 DEF SlotType
    <3> QED BY <3>1, <3>2, <3>3, Zenon
  <2>3. /\ Seekable(fd) /\ desc[fd].rd /\ s.len - s.pos <= off[fd] /\ Len(s.b) = s.len
        /\ off[fd] <= Len(content[desc[fd].file])
        /\ \A k \in (s.pos + 1)..s.len : s.b[k] = content[desc[fd].file][off[fd] - s.len + k]
    <3>1. FreshAt(s, s.fd)
      BY <1>1, <2>1, SlotAhead
    <3> HIDE DEF s
    <3>2. FreshAt(s, fd)
      BY <1>2, <3>1
    <3> QED BY <3>2, Zenon DEF FreshAt
  <2> QED BY <2>2, <2>3, Zenon
<1>7. rl' \in LineType
  <2> HIDE DEF s
  <2>1. s.b \in Seq(Byte) /\ s.pos + 1 \in 1 .. Len(s.b)
    <3>1. s.b \in Seq(Byte) /\ s.pos \in 0 .. FBUFSZ /\ s.len \in 0 .. FBUFSZ
      BY <1>4 DEF SlotType
    <3>2. s.pos \in Nat /\ s.len \in Nat /\ Len(s.b) = s.len
      BY <1>6, <3>1, BufferAssumption
    <3>3. s.pos < s.len
      BY <1>3
    <3>4. s.pos + 1 \in 1 .. s.len
      BY <3>2, <3>3
    <3> QED BY <3>1, <3>2, <3>4, Zenon
  <2>2. s.b[s.pos + 1] \in Byte
    BY <2>1, ElementOfSeq
  <2> QED BY <1>1, <1>3, <2>2, GotType, ZenonT(60)
<1> HIDE DEF s, v
<1>8. ~NoSlotLeft(fd)
  BY <1>1 DEF NoSlotLeft
<1>9. /\ t_fb' \in [Slots -> SlotType] /\ t_fb'[n] = v
      /\ OneSlotEach' /\ \A j \in Slots \ {n} : SlotOK(j)'
  BY <1>1, <1>3, <1>5, <1>8, SlotSet
<1>10. SlotOK(n)'
  <2>1. /\ v.pos \in Nat /\ v.len \in Nat /\ v.len - v.pos >= 0 /\ v.len - v.pos <= off[fd]
        /\ off[fd] \in Nat
    BY <1>1, <1>3, <1>4, <1>5, <1>6 DEF SlotType, TypeOK
  <2>2. \A k \in (v.pos + 1)..v.len : v.b[k] = content[desc[fd].file][off[fd] - v.len + k]
    <3>1. s.pos \in Nat /\ s.len \in Nat
      BY <1>4, BufferAssumption DEF SlotType
    <3> QED BY <1>5, <1>6, <3>1
  <2>3. v.pos <= v.len /\ (v.raw => v.len = v.pos) /\ desc' = desc
    BY <1>3, <1>5, <1>6, <2>1
  <2>4. /\ v.len - v.pos <= off'[fd] /\ Len(v.b) = v.len
        /\ off'[fd] <= Len(content'[desc[fd].file])
        /\ \A k \in (v.pos + 1)..v.len : v.b[k] = content'[desc[fd].file][off'[fd] - v.len + k]
    BY <1>3, <1>5, <1>6, <2>1, <2>2
  <2> QED BY <1>1, <1>2, <1>5, <1>6, <1>9, <2>3, <2>4, SlotNow, Zenon
<1>11. off' \in [Fds -> Nat] /\ content' \in [Files -> Seq(Byte)]
  BY <1>1, <1>3 DEF TypeOK
<1> QED BY <1>3, <1>7, <1>9, <1>10, <1>11, LineStep

-----------------------------------------------------------------------------
LEMMA ReadIInv ==
    ASSUME IInv, NEW u \in Counts, Read(u)
    PROVE  IInv'
<1> DEFINE can == IF t_seek0 = -1 THEN Seekable(0) ELSE t_seek0 = 1
           blk == ReadBytes(0, off[0], u)
           k   == UptoFirst(blk, T_EDIT)
<1>1. TypeOK /\ SoleWriters /\ 0 \in Fds /\ off[0] \in Nat /\ u \in Nat
  BY IInvBySlot, FdsAssumption, InputAssumption DEF TypeOK
<1>2. blk \in Seq(Byte) /\ (Len(blk) > 0 => desc[0].file \in Files)
  BY <1>1, ReadGives, Zenon
<1>3. Len(blk) \in Nat /\ k \in 0..Len(blk)
  BY <1>2, UptoFirstInRange, LenProperties
<1>4. /\ t_seek0' \in {-1, 0, 1} /\ UNCHANGED <<dir, desc, t_fb, rl>>
  BY <1>1 DEF Read, TypeOK
<1>5. /\ off' \in [Fds -> Nat] /\ content' \in [Files -> Seq(Byte)]
      /\ \A g \in Fds \ {0} : off'[g] = off[g]
      /\ \A f \in Files \ Pipes : content'[f] = content[f]
  <2>1. CASE ~can
    <3>1. SysRead(0, off[0], k) /\ (k > 0 => desc[0].file \in Files) /\ k \in Nat
      BY <1>2, <1>3, <2>1 DEF Read
    <3> QED BY <1>1, <3>1, ReadMoves
  <2>2. CASE can
    <3> HIDE DEF can, blk, k
    <3>1. /\ content' = IF Seekable(0) \/ blk = <<>> THEN content
                        ELSE [content EXCEPT ![desc[0].file] = Past(@, Len(blk))]
          /\ off' = [off EXCEPT ![0] = IF Seekable(0) THEN Lseek(0, @ + Len(blk), k - Len(blk)) ELSE @]
      BY <2>2 DEF Read, can, blk, k
    <3>2. off' \in [Fds -> Nat] /\ \A g \in Fds \ {0} : off'[g] = off[g]
      <4>1. Lseek(0, off[0] + Len(blk), k - Len(blk)) \in Nat
        BY <1>1, <1>3 DEF Lseek
      <4> QED BY <1>1, <3>1, <4>1 DEF TypeOK
    <3>3. CASE Seekable(0) \/ blk = <<>>
      BY <1>1, <3>1, <3>2, <3>3 DEF TypeOK
    <3>4. CASE ~(Seekable(0) \/ blk = <<>>)
      <4>1. desc[0].file \in Files /\ desc[0].file \in Pipes
        BY <1>2, <3>4 DEF Seekable
      <4>2. Past(content[desc[0].file], Len(blk)) \in Seq(Byte)
        BY <1>1, <1>3, <4>1, PastProperties DEF TypeOK
      <4> QED BY <1>1, <3>1, <3>2, <3>4, <4>1, <4>2 DEF TypeOK
    <3> QED BY <3>3, <3>4
  <2> QED BY <2>1, <2>2
<1>6. OneSlotEach' /\ \A i \in Slots : SlotOK(i)'
  BY <1>4, <1>5, SlotsKept DEF Seekable
<1>7. TypeOK' /\ SoleWriters'
  BY <1>1, <1>4, <1>5 DEF TypeOK, SoleWriters
<1> QED BY <1>6, <1>7, IInvNext

LEMMA ReadFileIInv ==
    ASSUME IInv, NEW fd \in Fds, NEW u \in Counts, ReadFile(fd, u)
    PROVE  IInv'
<1> DEFINE b == ReadBytes(fd, Honest(fd), u)
<1>1. TypeOK /\ Honest(fd) \in Nat /\ u \in Nat
  BY IInvBySlot, HonestNat, InputAssumption
<1>2. b \in Seq(Byte) /\ (Len(b) > 0 => desc[fd].file \in Files)
  BY <1>1, ReadGives, Zenon
<1>3. t_fdrop(fd) /\ SysRead(fd, Honest(fd), Len(b)) /\ UNCHANGED <<dir, desc, t_seek0, rl>>
  BY DEF ReadFile
<1>4. /\ off' \in [Fds -> Nat] /\ content' \in [Files -> Seq(Byte)]
      /\ \A g \in Fds \ {fd} : off'[g] = off[g]
      /\ \A f \in Files \ Pipes : content'[f] = content[f]
  BY <1>1, <1>2, <1>3, ReadMoves, LenProperties
<1> QED BY <1>3, <1>4, DropStep DEF Seekable

(* Nobody else has the file a word writes: SoleWriters. *)
LEMMA WriteTextIInv ==
    ASSUME IInv, NEW op, NEW fd \in Fds, NEW text \in Seq(Byte), WriteText(op, fd, text)
    PROVE  IInv'
<1>1. TypeOK /\ SoleWriters /\ Honest(fd) \in Nat
  BY IInvBySlot, HonestNat
<1>2. PICK k \in IF desc[fd].wr THEN 0..Len(text) ELSE {0} :
        LET f == desc[fd].file
            o == IF desc[fd].app /\ k > 0 THEN Len(content[f]) ELSE Honest(fd)
        IN  /\ t_fdrop(fd)
            /\ content' = IF k = 0 THEN content ELSE [content EXCEPT ![f] = Put(@, o, Upto(text, k))]
            /\ off' = [off EXCEPT ![fd] = o + k]
            /\ UNCHANGED <<dir, desc, t_seek0, rl>>
  BY Zenon DEF WriteText
<1> DEFINE f == desc[fd].file
           o == IF desc[fd].app /\ k > 0 THEN Len(content[f]) ELSE Honest(fd)
<1>3. k \in Nat /\ (k > 0 => desc[fd].wr /\ f \in Files /\ content[f] \in Seq(Byte))
  BY <1>1, DescRange, LenProperties
<1>4. o \in Nat
  BY <1>1, <1>3, LenProperties
<1>5. off' \in [Fds -> Nat] /\ \A g \in Fds \ {fd} : off'[g] = off[g]
  <2> HIDE DEF o
  <2>1. off' = [off EXCEPT ![fd] = o + k] /\ o + k \in Nat
    BY <1>2, <1>3, <1>4 DEF o
  <2> QED BY <1>1, <2>1 DEF TypeOK
<1>6. /\ content' \in [Files -> Seq(Byte)]
      /\ \A g \in Fds \ {fd} : Seekable(g) /\ desc[g].rd => content'[desc[g].file] = content[desc[g].file]
  <2>1. CASE k = 0
    BY <1>1, <1>2, <2>1 DEF TypeOK
  <2>2. CASE k > 0
    <3> HIDE DEF o
    <3>1. content' = [content EXCEPT ![f] = Put(content[f], o, Upto(text, k))]
      BY <1>2, <2>2 DEF o
    <3>2. Upto(text, k) \in Seq(Byte)
      BY <1>3, UptoProperties
    <3>3. Put(content[f], o, Upto(text, k)) \in Seq(Byte)
      BY <1>3, <1>4, <2>2, <3>2, PutType
    <3>4. \A g \in Fds \ {fd} : Seekable(g) => desc[g].file # f
      <4>1. desc[fd] # Closed
        BY <1>3, <2>2 DEF Closed
      <4> QED BY <1>1, <1>3, <2>2, <4>1 DEF SoleWriters
    <3> QED BY <1>1, <1>3, <2>2, <3>1, <3>3, <3>4, DescRange DEF TypeOK
  <2> QED BY <1>3, <2>1, <2>2
<1>7. t_fdrop(fd) /\ UNCHANGED <<dir, desc, t_seek0, rl>>
  BY <1>2
<1> QED BY <1>5, <1>6, <1>7, DropStep

LEMMA WriteIInv ==
    ASSUME IInv, NEW fd \in Fds, NEW t \in Texts, WriteLine(fd, t) \/ WriteFile(fd, t)
    PROVE  IInv'
<1>1. t \in Seq(Byte) /\ Append(t, LF) \in Seq(Byte)
  BY InputAssumption DEF Byte
<1>2. CASE WriteLine(fd, t)
  BY <1>1, <1>2, WriteTextIInv, Zenon DEF WriteLine
<1>3. CASE WriteFile(fd, t)
  BY <1>1, <1>3, WriteTextIInv, Zenon DEF WriteFile
<1> QED BY <1>2, <1>3

LEMMA PositionIInv ==
    ASSUME IInv, NEW fd \in Fds,
           (\E p \in Offsets : RepositionFile(fd, p)) \/ FilePosition(fd) \/ FileSize(fd)
    PROVE  IInv'
<1>1. TypeOK /\ Honest(fd) \in Nat
  BY IInvBySlot, HonestNat
<1>2. t_fdrop(fd) /\ UNCHANGED <<content, dir, desc, t_seek0, rl>>
  BY DEF RepositionFile, FilePosition, FileSize
<1>3. \E o \in Nat : off' = [off EXCEPT ![fd] = o]
  <2>1. CASE \E p \in Offsets : RepositionFile(fd, p)
    BY <1>1, <2>1, InputAssumption DEF RepositionFile, TypeOK
  <2>2. CASE FilePosition(fd) \/ FileSize(fd)
    BY <1>1, <2>2 DEF FilePosition, FileSize
  <2> QED BY <2>1, <2>2
<1>4. off' \in [Fds -> Nat] /\ \A g \in Fds \ {fd} : off'[g] = off[g]
  BY <1>1, <1>3 DEF TypeOK
<1>5. content' \in [Files -> Seq(Byte)]
  BY <1>1, <1>2 DEF TypeOK
<1> QED BY <1>2, <1>4, <1>5, DropStep

-----------------------------------------------------------------------------
LEMMA NextIInv ==
    ASSUME IInv, [Next]_vars
    PROVE  IInv'
<1>1. CASE Open
  BY <1>1, OpenFileIInv DEF Open
<1>2. CASE Delete
  BY <1>2, DeleteIInv
<1>3. CASE LineByteRaw \/ LineByteFill \/ LineByteAhead
  <2>1. TypeOK /\ rl # NoLine
    BY <1>3, IInvBySlot DEF LineByteRaw, LineByteFill, LineByteAhead, Idle
  <2>2. rl.fd \in Fds
    BY <2>1 DEF TypeOK
  <2> QED BY <1>3, <2>2, LineByteRawIInv, LineByteFillIInv, LineByteAheadIInv, Zenon
<1>4. CASE \E old, new \in Fds : Redirect(old, new)
  BY <1>4, RedirectIInv
<1>5. CASE \E u \in Counts : Read(u)
  BY <1>5, ReadIInv
<1>6. ASSUME NEW fd \in Fds, CloseFile(fd) \/ FilePosition(fd) \/ FileSize(fd)
      PROVE  IInv'
  BY <1>6, CloseFileIInv, PositionIInv
<1>7. ASSUME NEW fd \in Fds, NEW u \in Counts, ReadLine(fd, u) \/ ReadFile(fd, u)
      PROVE  IInv'
  BY <1>7, ReadLineIInv, ReadFileIInv
<1>8. ASSUME NEW fd \in Fds, NEW t \in Texts, WriteLine(fd, t) \/ WriteFile(fd, t)
      PROVE  IInv'
  BY <1>8, WriteIInv
<1>9. ASSUME NEW fd \in Fds, NEW p \in Offsets, RepositionFile(fd, p)
      PROVE  IInv'
  BY <1>9, PositionIInv
<1>10. CASE UNCHANGED vars
  <2>1. UNCHANGED <<content, dir, desc, off, t_fb, t_seek0, rl>>
    BY <1>10 DEF vars
  <2>2. OneSlotEach' /\ \A i \in Slots : SlotOK(i)'
    BY <2>1, SlotsKept
  <2>3. TypeOK' /\ SoleWriters'
    BY <2>1, IInvBySlot DEF TypeOK, SoleWriters
  <2> QED BY <2>2, <2>3, IInvNext
<1> QED BY <1>1, <1>2, <1>3, <1>4, <1>5, <1>6, <1>7, <1>8, <1>9, <1>10, Zenon DEF Next

(* Every reachable state of the file words satisfies IInv.                  *)
THEOREM Inductive == Spec => []IInv
<1>1. Init => IInv
  BY InitIInv
<1>2. IInv /\ [Next]_vars => IInv'
  BY NextIInv
<1> QED BY <1>1, <1>2, PTL DEF Spec

(* The slots, the descriptor table, offsets and contents keep their types:  *)
(* no offset goes below zero and no slot's pos or len leaves its buffer,    *)
(* whatever the program calls (t_fb, t_fgetc and t_fdrop in vm-lab.c).      *)
THEOREM TypeCorrect == Spec => []TypeOK
<1>1. IInv => TypeOK
  BY DEF IInv
<1> QED BY <1>1, Inductive, PTL

(* t_fslot never gives a descriptor a second slot, so t_fdrop, which clears *)
(* every slot of its number, seeks back over all that was read ahead.       *)
THEOREM OneSlotAlways == Spec => []OneSlotEach
<1>1. IInv => OneSlotEach
  BY DEF IInv
<1> QED BY <1>1, Inductive, PTL

(* t_fdrop(0) matches the unused slots, fd 0 being their mark: none of them *)
(* ever holds anything, so stdin is not moved by what another file left.    *)
THEOREM UnusedNeverMovesStdin == Spec => []UnusedHoldsNothing
<1>1. IInv => UnusedHoldsNothing
  BY DEF IInv
<1> QED BY <1>1, Inductive, PTL

(* What READ-LINE reads ahead can be given back whenever t_fdrop is called: *)
(* the slot's descriptor is open, can seek, and is that far into its file.  *)
THEOREM AheadAlwaysGoesBack == Spec => []AheadCanGoBack
<1>1. IInv => AheadCanGoBack
  BY DEF IInv
<1> QED BY <1>1, Inductive, PTL

(* What READ-LINE read ahead is what the file still holds there: no word    *)
(* writes a file or moves a descriptor behind a slot's back, as relf.c's    *)
(* WRITE-LINE did before Iter. 225.                                         *)
THEOREM AheadAlwaysFresh == Spec => []AheadIsFresh
<1>1. IInv => AheadIsFresh
  BY DEF IInv
<1> QED BY <1>1, Inductive, PTL

-----------------------------------------------------------------------------
(***************************************************************************)
(* The refinement of LogicalFile.  The abstract offset is the descriptor's *)
(* less what its slot holds and what the READ-LINE in progress has taken.  *)
(***************************************************************************)
(* What the slots fb hold for fd. *)
UnreadIn(fb, fd) ==
    IF \E i \in Slots : fb[i].fd = fd
    THEN LET n == CHOOSE i \in Slots : fb[i].fd = fd IN fb[n].len - fb[n].pos
    ELSE 0

LEMMA UnreadIs == \A fd : Unread(fd) = UnreadIn(t_fb, fd)
<1> SUFFICES ASSUME NEW fd PROVE Unread(fd) = UnreadIn(t_fb, fd)
  OBVIOUS
<1>1. CASE HasSlot(fd)
  <2>1. (IF HasSlot(fd) THEN fd ELSE 0) = fd
    BY <1>1
  <2>2. SlotOf(fd) = CHOOSE i \in Slots : t_fb[i].fd = fd
    BY ONLY <2>1, Zenon DEF SlotOf
  <2>3. Unread(fd) = t_fb[SlotOf(fd)].len - t_fb[SlotOf(fd)].pos
    BY <1>1 DEF Unread
  <2>4. \E i \in Slots : t_fb[i].fd = fd
    BY <1>1 DEF HasSlot
  <2> QED BY ONLY <2>2, <2>3, <2>4, Zenon DEF UnreadIn
<1>2. CASE ~HasSlot(fd)
  BY <1>2, Zenon DEF Unread, UnreadIn, HasSlot
<1> QED BY <1>1, <1>2

LEMMA UnreadOfNone ==
    ASSUME NEW fb \in [Slots -> SlotType], NEW fd, \A i \in Slots : fb[i].fd = fd => fb[i].len = fb[i].pos
    PROVE  UnreadIn(fb, fd) = 0
<1>1. CASE \E i \in Slots : fb[i].fd = fd
  <2>1. PICK n : n = CHOOSE i \in Slots : fb[i].fd = fd
    OBVIOUS
  <2>2. n \in Slots /\ fb[n].fd = fd
    BY <1>1, <2>1
  <2>3. fb[n].len = fb[n].pos /\ fb[n].len \in Int
    BY <2>2, BufferAssumption DEF SlotType
  <2> QED BY <1>1, <2>1, <2>3 DEF UnreadIn
<1>2. CASE ~\E i \in Slots : fb[i].fd = fd
  BY <1>2 DEF UnreadIn
<1> QED BY <1>1, <1>2

LEMMA UnreadOfSlot ==
    ASSUME NEW fb, NEW n \in Slots, NEW fd, fb[n].fd = fd,
           \A i \in Slots : fb[i].fd = fd => i = n
    PROVE  UnreadIn(fb, fd) = fb[n].len - fb[n].pos
<1>1. n = CHOOSE i \in Slots : fb[i].fd = fd
  OBVIOUS
<1> QED BY <1>1 DEF UnreadIn

(* The position no slot hides: the offset less what its slot holds. *)
HonestAt(fd) ==
    /\ Unread(fd) \in Nat /\ Unread(fd) <= off[fd]
    /\ Honest(fd) = off[fd] - Unread(fd)
    /\ Unread(fd) > 0 => fd # 0 /\ Seekable(fd) /\ desc[fd].rd

LEMMA HonestIs == IInv => \A fd \in Fds : HonestAt(fd)
<1> SUFFICES ASSUME IInv, NEW fd \in Fds PROVE HonestAt(fd)
  OBVIOUS
<1>1. TypeOK /\ (\A i \in Slots : SlotOK(i)) /\ off[fd] \in Nat /\ t_fb \in [Slots -> SlotType]
  BY IInvBySlot DEF TypeOK, SlotType
<1>2. CASE \A i \in Slots : t_fb[i].fd = fd => t_fb[i].len = t_fb[i].pos
  <2>1. Unread(fd) = 0
    BY <1>1, <1>2, UnreadIs, UnreadOfNone
  <2> QED BY <1>1, <2>1 DEF Honest, HonestAt
<1>3. ASSUME NEW n \in Slots, t_fb[n].fd = fd, t_fb[n].len # t_fb[n].pos
      PROVE  HonestAt(fd)
  <2>1. t_fb[n] \in SlotType /\ SlotOK(n)
    BY <1>1
  <2>2. Ahead(n) \in Nat \ {0} /\ fd # 0
    BY <1>3, <2>1, BufferAssumption DEF Ahead, SlotOK, SlotType
  <2>3. Unread(fd) = Ahead(n)
    <3>1. \A i \in Slots : t_fb[i].fd = fd => i = n
      BY <1>3, <2>2, IInvBySlot DEF OneSlotEach
    <3> QED BY <1>3, <3>1, UnreadIs, UnreadOfSlot DEF Ahead
  <2>4. Seekable(fd) /\ desc[fd].rd /\ Ahead(n) <= off[fd]
    BY <1>3, <2>1, <2>2 DEF SlotOK
  <2>5. Honest(fd) = off[fd] - Unread(fd)
    BY <1>1, <2>2, <2>3, <2>4 DEF Honest, Lseek
  <2> QED BY <2>2, <2>3, <2>4, <2>5 DEF HonestAt
<1> QED BY <1>2, <1>3

LEMMA HonestNext == IInv' => \A fd \in Fds : HonestAt(fd)'
<1>1. IInv' => (\A fd \in Fds : HonestAt(fd))'
  BY HonestIs, PTL
<1> QED BY <1>1

LEMMA UnreadNext == \A fd : Unread(fd)' = UnreadIn(t_fb', fd)
<1>1. (\A fd : Unread(fd) = UnreadIn(t_fb, fd))'
  BY UnreadIs, PTL
<1> QED BY <1>1

(* fd's slot dropped: it stands at its offset, and every other where it did. *)
LEMMA DropHonest ==
    ASSUME IInv, IInv', NEW fd \in Fds, t_fdrop(fd)
    PROVE  /\ Honest(fd)' = off'[fd]
           /\ \A g \in Fds \ {fd} : off'[g] = off[g] => Honest(g)' = Honest(g)
           /\ \A g \in Fds \ {fd} : ~HasSlot(g) => Honest(g)' = off'[g]
<1>1. (\A g \in Fds : HonestAt(g)) /\ \A g \in Fds : HonestAt(g)'
  BY HonestIs, HonestNext
<1>2. /\ t_fb \in [Slots -> SlotType] /\ t_fb' \in [Slots -> SlotType]
      /\ OneSlotEach /\ off \in [Fds -> Nat] /\ off' \in [Fds -> Nat]
  BY DEF IInv, TypeOK, SlotType
<1>3. t_fb' = [i \in Slots |-> IF t_fb[i].fd = fd THEN Unused ELSE t_fb[i]]
  BY DEF t_fdrop
<1>4. \A g : Unread(g)' = UnreadIn(t_fb', g)
  BY UnreadNext
<1>5. Unread(fd)' = 0
  <2>1. \A i \in Slots : t_fb'[i].fd = fd => t_fb'[i].len = t_fb'[i].pos
    BY <1>3 DEF Unused
  <2> QED BY <1>2, <1>4, <2>1, UnreadOfNone
<1>6. ASSUME NEW g \in Fds \ {fd} PROVE Unread(g)' = Unread(g)
  <2>1. CASE \A i \in Slots : t_fb[i].fd = g => t_fb[i].len = t_fb[i].pos
    <3>1. Unread(g) = 0
      BY <1>2, <2>1, UnreadIs, UnreadOfNone
    <3>2. \A i \in Slots : t_fb'[i].fd = g => t_fb'[i].len = t_fb'[i].pos
      BY <1>3, <2>1 DEF Unused
    <3> QED BY <1>2, <1>4, <3>1, <3>2, UnreadOfNone
  <2>2. ASSUME NEW n \in Slots, t_fb[n].fd = g, t_fb[n].len # t_fb[n].pos
        PROVE  Unread(g)' = Unread(g)
    <3>1. g # 0
      BY <2>2 DEF IInv, UnusedHoldsNothing
    <3>2. \A i \in Slots : t_fb[i].fd = g => i = n
      BY <1>2, <2>2, <3>1 DEF OneSlotEach
    <3>3. t_fb'[n] = t_fb[n] /\ \A i \in Slots : t_fb'[i].fd = g => i = n
      BY <1>3, <2>2, <3>1, <3>2 DEF Unused
    <3>4. UnreadIn(t_fb, g) = t_fb[n].len - t_fb[n].pos
      BY <2>2, <3>2, UnreadOfSlot
    <3>5. UnreadIn(t_fb', g) = t_fb'[n].len - t_fb'[n].pos
      BY <2>2, <3>3, UnreadOfSlot
    <3> QED BY <1>4, <3>3, <3>4, <3>5, UnreadIs
  <2> QED BY <2>1, <2>2
<1>7. ASSUME NEW g \in Fds \ {fd}, ~HasSlot(g) PROVE Unread(g)' = 0
  BY <1>6, <1>7 DEF Unread
<1> QED BY <1>1, <1>2, <1>5, <1>6, <1>7 DEF HonestAt

(* No slot and no offset changes: nor does a position. *)
LEMMA SameHonest ==
    ASSUME IInv, IInv', t_fb' = t_fb
    PROVE  \A g \in Fds : /\ off'[g] = off[g] => Honest(g)' = Honest(g)
                          /\ ~HasSlot(g) \/ g = 0 \/ ~Seekable(g) => Honest(g)' = off'[g]
<1>1. (\A g \in Fds : HonestAt(g)) /\ \A g \in Fds : HonestAt(g)'
  BY HonestIs, HonestNext
<1>2. off \in [Fds -> Nat] /\ off' \in [Fds -> Nat]
  BY DEF IInv, TypeOK
<1>3. \A g : Unread(g)' = Unread(g)
  BY UnreadIs, UnreadNext
<1>4. ASSUME NEW g \in Fds, ~HasSlot(g) \/ g = 0 \/ ~Seekable(g) PROVE Unread(g) = 0
  BY <1>1, <1>4 DEF Unread, HonestAt
<1> QED BY <1>1, <1>2, <1>3, <1>4 DEF HonestAt
-----------------------------------------------------------------------------
(* What a word takes of a sequence: the first n, up to an LF or the end. *)
LEMMA UptoFirstIs ==
    ASSUME NEW s \in Seq(Byte), NEW C, NEW k \in 1..Len(s), s[k] \in C,
           \A j \in 1..Len(s) : j < k => s[j] \notin C
    PROVE  UptoFirst(s, C) = k
<1>1. k \in Where(s, C) /\ \A j \in Where(s, C) : k <= j
  BY DEF Where
<1>2. \A i \in Where(s, C) : (\A j \in Where(s, C) : i <= j) => i = k
  BY <1>1 DEF Where
<1> QED BY <1>1, <1>2 DEF UptoFirst

LEMMA UptoFirstOfNone ==
    ASSUME NEW s \in Seq(Byte), NEW C, \A j \in 1..Len(s) : s[j] \notin C
    PROVE  UptoFirst(s, C) = Len(s)
  BY DEF UptoFirst, Where

LEMMA UptoTake ==
    ASSUME NEW s \in Seq(Byte), NEW n \in Nat \ {0}
    PROVE  /\ Upto(s, n) = <<>> <=> s = <<>>
           /\ s # <<>> => Upto(s, n)[1] = s[1] /\ Len(Upto(s, n)) > 0 /\ s[1] \in Byte
           /\ n = 1 /\ s # <<>> => Len(Upto(s, n)) = 1
<1>1. /\ Upto(s, n) \in Seq(Byte) /\ Len(Upto(s, n)) = Least(n, Len(s))
      /\ \A k \in 1..Len(Upto(s, n)) : Upto(s, n)[k] = s[k]
  BY UptoProperties
<1>2. Len(s) \in Nat /\ (Len(s) = 0 <=> s = <<>>) /\ (Len(Upto(s, n)) = 0 <=> Upto(s, n) = <<>>)
  BY <1>1, EmptySeq
<1>3. s # <<>> => s[1] \in Byte
  BY <1>2
<1> QED BY <1>1, <1>2, <1>3 DEF Least

LEMMA PastPast ==
    ASSUME NEW s \in Seq(Byte), NEW m \in Nat, NEW n \in Nat
    PROVE  Past(Past(s, m), n) = Past(s, m + n)
<1>1. /\ Past(s, m) \in Seq(Byte)
      /\ Len(Past(s, m)) = IF m <= Len(s) THEN Len(s) - m ELSE 0
      /\ \A k \in 1..Len(Past(s, m)) : Past(s, m)[k] = s[m + k]
  BY PastProperties
<1>2. /\ Past(Past(s, m), n) \in Seq(Byte)
      /\ Len(Past(Past(s, m), n)) = IF n <= Len(Past(s, m)) THEN Len(Past(s, m)) - n ELSE 0
      /\ \A k \in 1..Len(Past(Past(s, m), n)) : Past(Past(s, m), n)[k] = Past(s, m)[n + k]
  BY <1>1, PastProperties
<1>3. /\ Past(s, m + n) \in Seq(Byte)
      /\ Len(Past(s, m + n)) = IF m + n <= Len(s) THEN Len(s) - (m + n) ELSE 0
      /\ \A k \in 1..Len(Past(s, m + n)) : Past(s, m + n)[k] = s[m + n + k]
  BY PastProperties
<1>4. Len(s) \in Nat
  BY LenProperties
<1>5. Len(Past(Past(s, m), n)) = Len(Past(s, m + n))
  BY <1>1, <1>2, <1>3, <1>4
<1>6. ASSUME NEW k \in 1..Len(Past(Past(s, m), n)) PROVE Past(Past(s, m), n)[k] = Past(s, m + n)[k]
  <2>1. k \in 1..Len(Past(s, m + n)) /\ n + k \in 1..Len(Past(s, m))
    BY <1>1, <1>2, <1>4, <1>5, <1>6
  <2>2. m + (n + k) = m + n + k
    BY <1>6, <2>1
  <2> QED BY <1>1, <1>2, <1>3, <1>6, <2>1, <2>2
<1> QED BY <1>2, <1>3, <1>5, <1>6, SeqEqual

LEMMA PastNone == ASSUME NEW s \in Seq(Byte) PROVE Past(s, 0) = s
<1>1. /\ Past(s, 0) \in Seq(Byte) /\ Len(Past(s, 0)) = Len(s)
      /\ \A k \in 1..Len(Past(s, 0)) : Past(s, 0)[k] = s[k]
  <2>1. Len(s) \in Nat /\ \A k \in 1..Len(s) : 0 + k = k
    BY LenProperties
  <2> QED BY <2>1, PastProperties
<1> QED BY <1>1, SeqEqual

LEMMA PastFirst ==
    ASSUME NEW s \in Seq(Byte), NEW t \in Seq(Byte)
    PROVE  Past(s \o t, Len(s)) = t
<1>1. s \o t \in Seq(Byte) /\ Len(s \o t) = Len(s) + Len(t) /\ Len(s) \in Nat /\ Len(t) \in Nat
      /\ \A k \in 1..Len(t) : (s \o t)[Len(s) + k] = t[k]
  BY ConcatProperties, LenProperties
<1>2. /\ Past(s \o t, Len(s)) \in Seq(Byte)
      /\ Len(Past(s \o t, Len(s))) = Len(t)
      /\ \A k \in 1..Len(Past(s \o t, Len(s))) : Past(s \o t, Len(s))[k] = (s \o t)[Len(s) + k]
  <2>1. Len(s) <= Len(s \o t) /\ Len(s \o t) - Len(s) = Len(t)
    BY <1>1
  <2> HIDE DEF Past
  <2> QED BY ONLY <1>1, <2>1, PastProperties
<1> QED BY <1>1, <1>2, SeqEqual

LEMMA TakeOne ==
    ASSUME NEW s \in Seq(Byte), NEW t \in Seq(Byte), t # <<>>
    PROVE  /\ Append(s, t[1]) \o Past(t, 1) = s \o t
           /\ t[1] \in Byte /\ Append(s, t[1]) \in Seq(Byte) /\ Len(Append(s, t[1])) = Len(s) + 1
<1>1. Len(t) \in Nat \ {0} /\ Len(s) \in Nat /\ t[1] \in Byte
  BY EmptySeq, LenProperties
<1>2. /\ Append(s, t[1]) \in Seq(Byte) /\ Len(Append(s, t[1])) = Len(s) + 1
      /\ \A k \in 1..Len(s) : Append(s, t[1])[k] = s[k]
      /\ Append(s, t[1])[Len(s) + 1] = t[1]
  BY <1>1, AppendProperties
<1>3. /\ Past(t, 1) \in Seq(Byte) /\ Len(Past(t, 1)) = Len(t) - 1
      /\ \A k \in 1..Len(Past(t, 1)) : Past(t, 1)[k] = t[1 + k]
  BY <1>1, PastProperties
<1> DEFINE a == Append(s, t[1])
           r == Past(t, 1)
<1> HIDE DEF a, r
<1>4. /\ a \o r \in Seq(Byte) /\ Len(a \o r) = Len(a) + Len(r)
      /\ \A k \in 1..Len(a) + Len(r) : (a \o r)[k] = IF k <= Len(a) THEN a[k] ELSE r[k - Len(a)]
  BY <1>2, <1>3, ConcatProperties DEF a, r
<1>5. /\ s \o t \in Seq(Byte) /\ Len(s \o t) = Len(s) + Len(t)
      /\ \A k \in 1..Len(s) + Len(t) : (s \o t)[k] = IF k <= Len(s) THEN s[k] ELSE t[k - Len(s)]
  BY ConcatProperties
<1>6. Len(a) = Len(s) + 1 /\ Len(r) = Len(t) - 1
  BY <1>2, <1>3 DEF a, r
<1>7. Len(a \o r) = Len(s \o t)
  BY <1>1, <1>4, <1>5, <1>6
<1>8. ASSUME NEW k \in 1..Len(a \o r) PROVE (a \o r)[k] = (s \o t)[k]
  <2>1. k \in 1..Len(s) + Len(t) /\ k \in 1..Len(a) + Len(r)
    BY <1>1, <1>4, <1>6, <1>8
  <2>2. CASE k <= Len(s)
    <3>1. k <= Len(a) /\ k \in 1..Len(s)
      BY <1>1, <1>6, <2>1, <2>2
    <3> QED BY <1>2, <1>4, <1>5, <2>1, <2>2, <3>1 DEF a
  <2>3. CASE k = Len(s) + 1
    <3>1. k <= Len(a) /\ ~(k <= Len(s)) /\ k - Len(s) = 1
      BY <1>1, <1>6, <2>3
    <3> QED BY <1>2, <1>4, <1>5, <2>1, <2>3, <3>1 DEF a
  <2>4. CASE k > Len(s) + 1
    <3>1. ~(k <= Len(a)) /\ ~(k <= Len(s)) /\ k - Len(a) \in 1..Len(r) /\ 1 + (k - Len(a)) = k - Len(s)
      BY <1>1, <1>6, <2>1, <2>4
    <3> QED BY <1>3, <1>4, <1>5, <2>1, <3>1 DEF r
  <2> QED BY <1>1, <2>1, <2>2, <2>3, <2>4
<1>9. a \o r = s \o t
  BY <1>4, <1>5, <1>7, <1>8, SeqEqual
<1> QED BY <1>1, <1>2, <1>9 DEF a, r

(* READ-LINE of a file whose next bytes are line and then rest. *)
NoLF(line) == \A k \in 1..Len(line) : line[k] # LF
Taken(line, rest, max, w, k) ==
    /\ rest = <<>> => w = line /\ k = Len(line) /\ ~(k > 0 /\ w[k] = LF)
    /\ rest # <<>> /\ rest[1] = LF =>
           k = Len(line) + 1 /\ k > 0 /\ w[k] = LF /\ Upto(w, k - 1) = line /\ w # <<>>
    /\ rest # <<>> /\ rest[1] # LF /\ Len(line) + 1 = max =>
           k = Len(line) + 1 /\ w[k] # LF /\ w = Append(line, rest[1]) /\ w # <<>>

LEMMA LineTaken ==
    ASSUME NEW line \in Seq(Byte), NEW rest \in Seq(Byte), NEW max \in Nat, Len(line) < max, NoLF(line),
           NEW w, w = Upto(line \o rest, max), NEW k, k = UptoFirst(w, {LF})
    PROVE  Taken(line, rest, max, w, k)
<1> USE DEF NoLF, Taken
<1> DEFINE all == line \o rest
<1>1. Len(line) \in Nat /\ Len(rest) \in Nat
  BY LenProperties
<1>2. /\ all \in Seq(Byte) /\ Len(all) = Len(line) + Len(rest)
      /\ \A i \in 1..Len(line) + Len(rest) : all[i] = IF i <= Len(line) THEN line[i] ELSE rest[i - Len(line)]
  BY ConcatProperties
<1>w. w = Upto(all, max)
  OBVIOUS
<1> HIDE DEF all
<1>3. /\ w \in Seq(Byte) /\ Len(w) = Least(max, Len(all))
      /\ \A i \in 1..Len(w) : w[i] = all[i]
  BY ONLY <1>2, <1>w, max \in Nat, UptoProperties
<1>4. CASE rest = <<>>
  <2>1. Len(rest) = 0
    BY <1>4
  <2>2. Len(w) = Len(line)
    BY <1>1, <1>2, <1>3, <2>1 DEF Least
  <2>3. \A i \in 1..Len(line) : w[i] = line[i]
    BY <1>1, <1>2, <1>3, <2>1, <2>2
  <2>4. w = line
    BY <1>3, <2>2, <2>3, SeqEqual
  <2>5. k = Len(line)
    BY <2>4, UptoFirstOfNone
  <2>6. ~(k > 0 /\ w[k] = LF)
    <3>1. k > 0 => k \in 1..Len(line)
      BY <1>1, <2>5
    <3> QED BY <2>4, <3>1
  <2> QED BY <1>4, <2>4, <2>5, <2>6
<1>5. CASE rest # <<>>
  <2>1. Len(rest) \in Nat \ {0} /\ rest[1] \in Byte
    BY <1>1, <1>5, EmptySeq
  <2>2. Len(w) > Len(line) /\ Len(w) \in Nat /\ Len(w) <= max
    BY <1>1, <1>2, <1>3, <2>1 DEF Least
  <2>3. \A i \in 1..Len(line) : w[i] = line[i]
    BY <1>1, <1>2, <1>3, <2>2
  <2>4. w[Len(line) + 1] = rest[1]
    <3>1. Len(line) + 1 \in 1..Len(w) /\ Len(line) + 1 \in 1..Len(line) + Len(rest)
          /\ ~(Len(line) + 1 <= Len(line)) /\ Len(line) + 1 - Len(line) = 1
      BY <1>1, <2>1, <2>2
    <3> QED BY <1>2, <1>3, <3>1
  <2>5. w # <<>>
    BY <1>1, <2>2
  <2>6. CASE rest[1] = LF
    <3>1. k = Len(line) + 1
      <4>1. Len(line) + 1 \in 1..Len(w) /\ w[Len(line) + 1] \in {LF}
        BY <1>1, <2>2, <2>4, <2>6
      <4>2. \A j \in 1..Len(w) : j < Len(line) + 1 => w[j] \notin {LF}
        BY <1>1, <2>3
      <4> QED BY <1>3, <4>1, <4>2, UptoFirstIs
    <3>2. Upto(w, Len(line)) = line
      <4>1. /\ Upto(w, Len(line)) \in Seq(Byte) /\ Len(Upto(w, Len(line))) = Least(Len(line), Len(w))
            /\ \A i \in 1..Len(Upto(w, Len(line))) : Upto(w, Len(line))[i] = w[i]
        BY <1>1, <1>3, UptoProperties
      <4>2. Len(Upto(w, Len(line))) = Len(line)
        BY <1>1, <2>2, <4>1 DEF Least
      <4> QED BY <2>3, <4>1, <4>2, SeqEqual
    <3>3. k > 0 /\ k - 1 = Len(line)
      BY <1>1, <3>1
    <3> QED BY <1>5, <2>4, <2>5, <2>6, <3>1, <3>2, <3>3
  <2>7. CASE rest[1] # LF /\ Len(line) + 1 = max
    <3>1. Len(w) = Len(line) + 1
      BY <1>1, <2>2, <2>7
    <3>2. /\ Append(line, rest[1]) \in Seq(Byte) /\ Len(Append(line, rest[1])) = Len(line) + 1
          /\ \A i \in 1..Len(line) : Append(line, rest[1])[i] = line[i]
          /\ Append(line, rest[1])[Len(line) + 1] = rest[1]
      BY <2>1, AppendProperties
    <3>3. \A i \in 1..Len(w) : w[i] = Append(line, rest[1])[i]
      BY <1>1, <2>3, <2>4, <3>1, <3>2
    <3>4. w = Append(line, rest[1])
      BY <1>3, <3>1, <3>2, <3>3, SeqEqual
    <3>5. \A j \in 1..Len(w) : w[j] \notin {LF}
      BY <1>1, <2>3, <2>4, <2>7, <3>1
    <3>6. k = Len(line) + 1 /\ w[k] # LF
      BY <1>1, <1>3, <2>4, <2>7, <3>1, <3>5, UptoFirstOfNone
    <3> QED BY <1>5, <2>5, <2>7, <3>4, <3>6
  <2> QED BY <1>5, <2>6, <2>7
<1> QED BY <1>4, <1>5
-----------------------------------------------------------------------------
(* What fd has still to give, past its slot and past the line. *)
Rest(fd) ==
    IF ~desc[fd].rd THEN <<>>
    ELSE IF Seekable(fd) THEN Past(content[desc[fd].file], Honest(fd))
    ELSE content[desc[fd].file]

LEMMA RestType == ASSUME TypeOK, NEW fd \in Fds PROVE Rest(fd) \in Seq(Byte)
<1>1. CASE ~desc[fd].rd
  BY <1>1, EmptySeq DEF Rest
<1>2. CASE desc[fd].rd
  BY <1>2, DescRange, HonestNat, PastProperties DEF Rest
<1> QED BY <1>1, <1>2

LEMMA RestRead ==
    ASSUME TypeOK, NEW fd \in Fds, NEW n \in Nat
    PROVE  ReadBytes(fd, Honest(fd), n) = Upto(Rest(fd), n)
<1>1. CASE ~desc[fd].rd
  <2>1. Upto(<<>>, n) = <<>>
    BY DEF Upto, Least
  <2> QED BY <1>1, <2>1 DEF ReadBytes, Rest
<1>2. CASE desc[fd].rd
  BY <1>2 DEF ReadBytes, Rest
<1> QED BY <1>1, <1>2

(* A READ-LINE's step takes the next byte there is, or finds none, wherever *)
(* the byte comes from; and moves its own descriptor, and shortens a pipe.  *)
Took(fd) ==
    /\ UNCHANGED <<dir, desc, t_seek0>>
    /\ \A g \in Fds \ {fd} : Honest(g)' = Honest(g)
    /\ \/ /\ Rest(fd) = <<>> /\ content' = content /\ Honest(fd)' = Honest(fd)
          /\ GotNone(fd # 0 /\ ~desc[fd].rd)
       \/ /\ Rest(fd) # <<>> /\ GotByte(Rest(fd)[1])
          /\ content' = IF Seekable(fd) THEN content ELSE [content EXCEPT ![desc[fd].file] = Past(@, 1)]
          /\ Honest(fd)' = IF Seekable(fd) THEN Honest(fd) + 1 ELSE Honest(fd)

(* fd's slot is given: the other descriptors stand where they did. *)
LEMMA SetHonest ==
    ASSUME IInv, IInv', NEW fd \in Fds \ {0}, ~NoSlotLeft(fd), NEW v \in SlotType, v.fd = fd,
           t_fb' = [t_fb EXCEPT ![SlotOf(fd)] = v],
           \A g \in Fds \ {fd} : off'[g] = off[g]
    PROVE  /\ Honest(fd)' = off'[fd] - (v.len - v.pos)
           /\ \A g \in Fds \ {fd} : Honest(g)' = Honest(g)
<1>1. (\A g \in Fds : HonestAt(g)) /\ \A g \in Fds : HonestAt(g)'
  BY HonestIs, HonestNext
<1>2. /\ t_fb \in [Slots -> SlotType] /\ t_fb' \in [Slots -> SlotType]
      /\ OneSlotEach /\ OneSlotEach' /\ UnusedHoldsNothing
      /\ off \in [Fds -> Nat] /\ off' \in [Fds -> Nat]
  BY DEF IInv, TypeOK, SlotType
<1>3. PICK n : n = SlotOf(fd)
  OBVIOUS
<1>4. n \in Slots /\ (t_fb[n].fd = fd \/ t_fb[n].fd = 0) /\ t_fb'[n] = v
      /\ \A i \in Slots \ {n} : t_fb'[i] = t_fb[i]
  <2>1. n \in Slots /\ t_fb[n].fd = IF HasSlot(fd) THEN fd ELSE 0
    BY <1>3, SlotChosen DEF NoSlotLeft
  <2> QED BY <1>2, <1>3, <2>1
<1>5. Unread(fd)' = v.len - v.pos
  <2>1. \A i \in Slots : t_fb'[i].fd = fd => i = n
    BY <1>2, <1>4 DEF OneSlotEach
  <2>2. UnreadIn(t_fb', fd) = t_fb'[n].len - t_fb'[n].pos
    <3>1. t_fb'[n].fd = fd /\ n \in Slots
      BY <1>4
    <3> QED BY ONLY <2>1, <3>1, UnreadOfSlot, Zenon
  <2> QED BY <1>4, <2>2, UnreadNext
<1>6. ASSUME NEW g \in Fds \ {fd} PROVE Unread(g)' = Unread(g)
  <2>1. CASE \A i \in Slots : t_fb[i].fd = g => t_fb[i].len = t_fb[i].pos
    <3>1. Unread(g) = 0
      BY <1>2, <2>1, UnreadIs, UnreadOfNone
    <3>2. \A i \in Slots : t_fb'[i].fd = g => t_fb'[i].len = t_fb'[i].pos
      BY <1>4, <2>1
    <3> QED BY <1>2, <3>1, <3>2, UnreadNext, UnreadOfNone
  <2>2. ASSUME NEW m \in Slots, t_fb[m].fd = g, t_fb[m].len # t_fb[m].pos
        PROVE  Unread(g)' = Unread(g)
    <3>1. g # 0 /\ m # n
      BY <1>2, <1>4, <2>2 DEF UnusedHoldsNothing
    <3>2. \A i \in Slots : t_fb[i].fd = g => i = m
      BY <1>2, <2>2, <3>1 DEF OneSlotEach
    <3>3. t_fb'[m] = t_fb[m] /\ \A i \in Slots : t_fb'[i].fd = g => i = m
      BY <1>4, <2>2, <3>1, <3>2
    <3>4. UnreadIn(t_fb, g) = t_fb[m].len - t_fb[m].pos
      BY <2>2, <3>2, UnreadOfSlot
    <3>5. UnreadIn(t_fb', g) = t_fb'[m].len - t_fb'[m].pos
      <4>1. t_fb'[m].fd = g /\ m \in Slots
        BY <2>2, <3>3
      <4> QED BY ONLY <3>3, <4>1, UnreadOfSlot, Zenon
    <3> QED BY <3>3, <3>4, <3>5, UnreadIs, UnreadNext
  <2> QED BY <2>1, <2>2
<1>7. Honest(fd)' = off'[fd] - Unread(fd)'
  BY <1>1 DEF HonestAt
<1>8. ASSUME NEW g \in Fds \ {fd} PROVE Honest(g)' = Honest(g)
  BY <1>1, <1>6 DEF HonestAt
<1> QED BY <1>5, <1>7, <1>8

(* A slot used up, or not there, hides nothing. *)
LEMMA UsedUp ==
    ASSUME IInv, NEW fd \in Fds,
           fd = 0 \/ NoSlotLeft(fd) \/ t_fslot(fd).raw \/ t_fslot(fd).pos >= t_fslot(fd).len
    PROVE  Unread(fd) = 0 /\ Honest(fd) = off[fd]
<1>1. HonestAt(fd) /\ off[fd] \in Nat
  BY HonestIs DEF IInv, TypeOK
<1>2. Unread(fd) = 0
  <2>1. CASE fd = 0 \/ ~HasSlot(fd)
    BY <1>1, <2>1 DEF HonestAt, Unread
  <2>2. CASE fd # 0 /\ HasSlot(fd)
    <3>1. ~NoSlotLeft(fd) /\ t_fslot(fd) = t_fb[SlotOf(fd)]
      BY <2>2 DEF NoSlotLeft, t_fslot
    <3>2. t_fslot(fd) \in SlotType /\ (t_fslot(fd).raw => t_fslot(fd).len = t_fslot(fd).pos)
          /\ t_fslot(fd).pos <= t_fslot(fd).len
      BY <2>2, <3>1, SlotFound, Zenon
    <3>3. t_fb[SlotOf(fd)].len \in Nat /\ t_fb[SlotOf(fd)].pos \in Nat
      BY <3>1, <3>2, BufferAssumption DEF SlotType
    <3>4. t_fb[SlotOf(fd)].len = t_fb[SlotOf(fd)].pos
      BY <2>2, <3>1, <3>2, <3>3
    <3> QED BY <2>2, <3>3, <3>4 DEF Unread
  <2> QED BY <2>1, <2>2
<1> QED BY <1>1, <1>2 DEF HonestAt

LEMMA RawTook ==
    ASSUME IInv, IInv', LineByteRaw, NEW fd \in Fds, fd = rl.fd
    PROVE  Took(fd)
<1> DEFINE c == ReadBytes(fd, off[fd], 1)
<1>1. TypeOK /\ off[fd] \in Nat /\ off \in [Fds -> Nat] /\ off' \in [Fds -> Nat]
  BY DEF IInv, TypeOK
<1>2. /\ SysRead(fd, off[fd], Len(c)) /\ UNCHANGED <<dir, desc, t_seek0>>
      /\ fd = 0 \/ NoSlotLeft(fd) \/ t_fslot(fd).raw
      /\ t_fb' = IF fd = 0 \/ NoSlotLeft(fd) THEN t_fb ELSE [t_fb EXCEPT ![SlotOf(fd)] = t_fslot(fd)]
      /\ IF c # <<>> THEN GotByte(c[1]) ELSE GotNone(fd # 0 /\ ~desc[fd].rd)
  BY DEF LineByteRaw
<1>3. Unread(fd) = 0 /\ Honest(fd) = off[fd]
  BY <1>2, UsedUp
<1>4. c = Upto(Rest(fd), 1) /\ Rest(fd) \in Seq(Byte)
  BY <1>1, <1>3, RestRead, RestType
<1>5. /\ c = <<>> <=> Rest(fd) = <<>>
      /\ Rest(fd) # <<>> => c[1] = Rest(fd)[1] /\ Len(c) = 1
      /\ c = <<>> => Len(c) = 0
  BY <1>4, UptoTake, EmptySeq
<1>6. \A g \in Fds \ {fd} : off'[g] = off[g]
  BY <1>1, <1>2 DEF SysRead
<1>7. off'[fd] = (IF Seekable(fd) THEN off[fd] + Len(c) ELSE off[fd])
  BY <1>1, <1>2 DEF SysRead
<1>8. Honest(fd)' = off'[fd] /\ \A g \in Fds \ {fd} : Honest(g)' = Honest(g)
  <2>1. CASE fd = 0 \/ NoSlotLeft(fd)
    <3>1. t_fb' = t_fb /\ (~HasSlot(fd) \/ fd = 0)
      BY <1>2, <2>1 DEF NoSlotLeft
    <3> QED BY <1>6, <3>1, SameHonest
  <2>2. CASE ~(fd = 0 \/ NoSlotLeft(fd))
    <3>1. fd \in Fds \ {0} /\ ~NoSlotLeft(fd) /\ t_fb' = [t_fb EXCEPT ![SlotOf(fd)] = t_fslot(fd)]
          /\ t_fslot(fd).raw
      BY <1>2, <2>2
    <3>2. t_fslot(fd) \in SlotType /\ t_fslot(fd).fd = fd /\ t_fslot(fd).len = t_fslot(fd).pos
      BY <3>1, SlotFound, Zenon
    <3>3. /\ Honest(fd)' = off'[fd] - (t_fslot(fd).len - t_fslot(fd).pos)
          /\ \A g \in Fds \ {fd} : Honest(g)' = Honest(g)
      BY <1>6, <3>1, <3>2, SetHonest, Zenon
    <3>4. t_fslot(fd).len - t_fslot(fd).pos = 0 /\ off'[fd] \in Nat
      BY <1>1, <3>2, BufferAssumption DEF SlotType
    <3> QED BY <3>3, <3>4
  <2> QED BY <2>1, <2>2
<1> HIDE DEF c
<1>9. CASE Rest(fd) = <<>>
  <2>1. content' = content /\ Honest(fd)' = Honest(fd)
    BY <1>1, <1>2, <1>3, <1>5, <1>7, <1>8, <1>9 DEF SysRead
  <2> QED BY <1>2, <1>5, <1>8, <1>9, <2>1, Zenon DEF Took
<1>10. CASE Rest(fd) # <<>>
  <2>1. content' = IF Seekable(fd) THEN content ELSE [content EXCEPT ![desc[fd].file] = Past(@, 1)]
    <3>1. Len(c) = 1
      BY <1>5, <1>10
    <3>2. content' = IF Seekable(fd) \/ Len(c) = 0 THEN content
                     ELSE [content EXCEPT ![desc[fd].file] = Past(@, Len(c))]
      BY <1>2, Zenon DEF SysRead
    <3> QED BY ONLY <3>1, <3>2
  <2>2. Honest(fd)' = IF Seekable(fd) THEN Honest(fd) + 1 ELSE Honest(fd)
    BY <1>3, <1>5, <1>7, <1>8, <1>10
  <2>3. GotByte(Rest(fd)[1])
    BY <1>2, <1>5, <1>10
  <2> QED BY <1>2, <1>8, <1>10, <2>1, <2>2, <2>3, Zenon DEF Took
<1> QED BY <1>9, <1>10

LEMMA FillTook ==
    ASSUME IInv, IInv', LineByteFill, NEW fd \in Fds, fd = rl.fd
    PROVE  Took(fd)
<1> DEFINE b == ReadBytes(fd, off[fd], FBUFSZ)
           s == t_fslot(fd)
           v == IF b = <<>> THEN s ELSE [s EXCEPT !.len = Len(b), !.pos = 1, !.b = b]
<1>1. TypeOK /\ off[fd] \in Nat /\ off \in [Fds -> Nat] /\ off' \in [Fds -> Nat]
  BY DEF IInv, TypeOK
<1>2. /\ fd \in Fds \ {0} /\ ~NoSlotLeft(fd) /\ ~s.raw /\ s.pos >= s.len
      /\ t_fb' = [t_fb EXCEPT ![SlotOf(fd)] = v]
      /\ SysRead(fd, off[fd], Len(b)) /\ UNCHANGED <<dir, desc, t_seek0>>
      /\ IF b # <<>> THEN GotByte(b[1]) ELSE GotNone(~desc[fd].rd)
  BY DEF LineByteFill
<1>3. Unread(fd) = 0 /\ Honest(fd) = off[fd]
  BY <1>2, UsedUp
<1>4. b = Upto(Rest(fd), FBUFSZ) /\ Rest(fd) \in Seq(Byte) /\ FBUFSZ \in Nat \ {0}
  BY <1>1, <1>3, RestRead, RestType, BufferAssumption
<1>5. /\ b = <<>> <=> Rest(fd) = <<>>
      /\ Rest(fd) # <<>> => b[1] = Rest(fd)[1]
      /\ b = <<>> => Len(b) = 0
      /\ b \in Seq(Byte) /\ Len(b) \in 0..FBUFSZ /\ (b # <<>> => Len(b) > 0)
  <2>1. b \in Seq(Byte) /\ Len(b) = Least(FBUFSZ, Len(Rest(fd)))
    BY <1>4, UptoProperties
  <2>2. Len(b) \in 0..FBUFSZ
    BY <1>4, <2>1, LenProperties DEF Least
  <2>3. /\ b = <<>> <=> Rest(fd) = <<>>
        /\ Rest(fd) # <<>> => b[1] = Rest(fd)[1] /\ Len(b) > 0
    <3> HIDE DEF b
    <3> QED BY <1>4, UptoTake
  <2> QED BY <2>1, <2>2, <2>3, EmptySeq
<1>6. s \in SlotType /\ s.fd = fd /\ Seekable(fd) /\ s.pos = s.len
  <2>1. s \in SlotType /\ s.fd = fd /\ (s.raw \/ Seekable(fd)) /\ s.pos <= s.len
    BY <1>2, SlotFound
  <2> QED BY <1>2, <2>1, BufferAssumption DEF SlotType
<1>7. /\ \A g \in Fds \ {fd} : off'[g] = off[g]
      /\ off'[fd] = off[fd] + Len(b) /\ content' = content
  BY <1>1, <1>2, <1>6 DEF SysRead
<1> HIDE DEF b, s
<1>8. /\ v \in SlotType /\ v.fd = fd
      /\ v.len - v.pos = IF b = <<>> THEN 0 ELSE Len(b) - 1
  <2>1. CASE b = <<>>
    BY <1>6, <2>1, BufferAssumption DEF SlotType
  <2>2. CASE b # <<>>
    <3>1. v = [fd |-> fd, len |-> Len(b), pos |-> 1, raw |-> s.raw, b |-> b]
      BY <1>6, <2>2 DEF SlotType
    <3>2. s.raw \in BOOLEAN /\ 1 \in 0..FBUFSZ
      BY <1>4, <1>6 DEF SlotType
    <3> HIDE DEF v
    <3> QED BY <1>5, <2>2, <3>1, <3>2 DEF SlotType
  <2> QED BY <2>1, <2>2
<1> HIDE DEF v
<1>9. /\ Honest(fd)' = off'[fd] - (v.len - v.pos)
      /\ \A g \in Fds \ {fd} : Honest(g)' = Honest(g)
  BY <1>2, <1>7, <1>8, SetHonest
<1>10. CASE Rest(fd) = <<>>
  <2>1. Honest(fd)' = Honest(fd)
    BY <1>1, <1>3, <1>5, <1>7, <1>8, <1>9, <1>10
  <2>2. GotNone(fd # 0 /\ ~desc[fd].rd)
    <3>1. (fd # 0 /\ ~desc[fd].rd) <=> ~desc[fd].rd
      BY <1>2
    <3>2. GotNone(~desc[fd].rd)
      BY <1>2, <1>5, <1>10
    <3> QED BY <3>1, <3>2 DEF GotNone
  <2> QED BY <1>2, <1>7, <1>9, <1>10, <2>1, <2>2, Zenon DEF Took
<1>11. CASE Rest(fd) # <<>>
  <2>1. Honest(fd)' = Honest(fd) + 1
    BY <1>1, <1>3, <1>5, <1>7, <1>8, <1>9, <1>11
  <2>2. GotByte(Rest(fd)[1])
    BY <1>2, <1>5, <1>11
  <2> QED BY <1>2, <1>6, <1>7, <1>9, <1>11, <2>1, <2>2, Zenon DEF Took
<1> QED BY <1>10, <1>11

LEMMA AheadTook ==
    ASSUME IInv, IInv', LineByteAhead, NEW fd \in Fds, fd = rl.fd
    PROVE  Took(fd)
<1>1. PICK n : n = SlotOf(fd)
  OBVIOUS
<1> DEFINE s == t_fb[n]
<1>2. TypeOK /\ fd \in Fds \ {0} /\ HasSlot(fd) /\ ~NoSlotLeft(fd)
  BY DEF LineByteAhead, IInv, NoSlotLeft
<1>3. n \in Slots /\ s.fd = fd /\ t_fslot(fd) = s /\ s \in SlotType
  BY <1>1, <1>2, SlotChosen DEF t_fslot, TypeOK, SlotType
<1>4. /\ s.pos < s.len /\ UNCHANGED <<content, dir, desc, off, t_seek0>>
      /\ t_fb' = [t_fb EXCEPT ![n].pos = @ + 1]
      /\ GotByte(s.b[s.pos + 1])
  BY <1>1, <1>3 DEF LineByteAhead
<1>5. s.pos \in 0..FBUFSZ /\ s.len \in 0..FBUFSZ /\ FBUFSZ \in Nat
  BY <1>3, BufferAssumption DEF SlotType
<1>6. /\ Seekable(fd) /\ desc[fd].rd /\ s.len - s.pos <= off[fd]
      /\ off[fd] <= Len(content[desc[fd].file])
      /\ \A k \in (s.pos + 1)..s.len : s.b[k] = content[desc[fd].file][off[fd] - s.len + k]
  <2>1. SlotOK(n) /\ s.len - s.pos > 0
    BY <1>3, <1>4, <1>5, IInvBySlot
  <2>2. FreshAt(s, s.fd)
    BY <2>1, SlotAhead
  <2>3. s.fd = fd
    BY <1>3
  <2> HIDE DEF s
  <2>4. FreshAt(s, fd)
    BY <2>2, <2>3
  <2> QED BY <2>4, Zenon DEF FreshAt
<1>7. Unread(fd) = s.len - s.pos /\ Honest(fd) = off[fd] - (s.len - s.pos) /\ off[fd] \in Nat
  <2>1. Unread(fd) = s.len - s.pos
    BY <1>1, <1>2 DEF Unread
  <2>2. HonestAt(fd) /\ off[fd] \in Nat
    BY HonestIs DEF IInv, TypeOK
  <2> QED BY <2>1, <2>2 DEF HonestAt
<1> DEFINE v == [s EXCEPT !.pos = @ + 1]
<1>8. v = [fd |-> s.fd, len |-> s.len, pos |-> s.pos + 1, raw |-> s.raw, b |-> s.b]
  BY <1>3 DEF SlotType
<1>9. t_fb' = [t_fb EXCEPT ![SlotOf(fd)] = v]
  BY <1>1, <1>4
<1> HIDE DEF s, v
<1>10. v \in SlotType /\ v.fd = fd /\ v.len - v.pos = s.len - s.pos - 1
  <2>1. s.pos + 1 \in 0..FBUFSZ /\ s.len - (s.pos + 1) = s.len - s.pos - 1
    BY <1>4, <1>5
  <2> QED BY <1>3, <1>8, <2>1 DEF SlotType
<1>11. /\ Honest(fd)' = off'[fd] - (v.len - v.pos)
       /\ \A g \in Fds \ {fd} : Honest(g)' = Honest(g)
  BY <1>2, <1>4, <1>9, <1>10, SetHonest
<1>12. Honest(fd)' = Honest(fd) + 1
  BY <1>4, <1>5, <1>7, <1>10, <1>11
<1>13. Rest(fd) # <<>> /\ Rest(fd)[1] = s.b[s.pos + 1]
  <2> DEFINE c == content[desc[fd].file]
  <2>1. c \in Seq(Byte)
    BY <1>2, <1>6, DescRange
  <2>2. Rest(fd) = Past(c, Honest(fd))
    BY <1>6 DEF Rest
  <2>3. Honest(fd) \in Nat /\ Honest(fd) < Len(c)
    <3>1. Honest(fd) < off[fd] /\ Len(c) \in Nat
      BY <1>4, <1>5, <1>7, <2>1, LenProperties
    <3> QED BY <1>2, <1>6, <1>7, <3>1, HonestNat
  <2> HIDE DEF c
  <2>4. Len(Past(c, Honest(fd))) > 0 /\ Past(c, Honest(fd))[1] = c[Honest(fd) + 1]
    <3>1. /\ Len(Past(c, Honest(fd))) = IF Honest(fd) <= Len(c) THEN Len(c) - Honest(fd) ELSE 0
          /\ \A k \in 1..Len(Past(c, Honest(fd))) : Past(c, Honest(fd))[k] = c[Honest(fd) + k]
      BY <2>1, <2>3, PastProperties
    <3>2. Len(Past(c, Honest(fd))) \in Nat \ {0}
      BY <2>1, <2>3, <3>1, LenProperties
    <3> QED BY <3>1, <3>2
  <2>5. Past(c, Honest(fd)) # <<>>
    BY <2>4
  <2>6. s.pos + 1 \in (s.pos + 1)..s.len /\ off[fd] - s.len + (s.pos + 1) = Honest(fd) + 1
    BY <1>4, <1>5, <1>7
  <2> QED BY <1>6, <2>2, <2>4, <2>5, <2>6 DEF c
<1>14. GotByte(Rest(fd)[1])
  BY <1>4, <1>13 DEF s
<1> QED BY <1>4, <1>6, <1>11, <1>12, <1>13, <1>14, Zenon DEF Took
-----------------------------------------------------------------------------
(* The abstract offsets and contents, as OnePosition's mapping gives them. *)
AbsOff == [fd \in Fds |-> Position(fd)]
AbsContent == [f \in Files |-> IF f \in Pipes /\ ~Idle /\ desc[rl.fd].file = f
                               THEN rl.line \o content[f] ELSE content[f]]

(* The abstract file uses the same operators. *)
LEMMA SameOps ==
    /\ \A s, n : Logical!Upto(s, n) = Upto(s, n)
    /\ \A s, n : Logical!Past(s, n) = Past(s, n)
    /\ \A s, C : Logical!UptoFirst(s, C) = UptoFirst(s, C)
    /\ \A c, o, t : Logical!Put(c, o, t) = Put(c, o, t)
    /\ \A s : Logical!ChopCR(s) = ChopCR(s)
    /\ \A op, bytes, n, ior : Logical!Answer(op, bytes, n, ior) = Answer(op, bytes, n, ior)
    /\ \A fd : Logical!Seekable(fd) = Seekable(fd)
    /\ Logical!Closed = Closed /\ Logical!LF = LF /\ Logical!T_EDIT = T_EDIT
<1>1. \A a, b : Logical!Least(a, b) = Least(a, b)
  BY DEF Logical!Least, Least
<1>2. \A s, n : Logical!Upto(s, n) = Upto(s, n)
  BY <1>1, Zenon DEF Logical!Upto, Upto
<1>3. \A s, n : Logical!Past(s, n) = Past(s, n)
  BY Zenon DEF Logical!Past, Past
<1>4. \A s, C : Logical!Where(s, C) = Where(s, C)
  BY Zenon DEF Logical!Where, Where
<1>5. \A s, C : Logical!UptoFirst(s, C) = UptoFirst(s, C)
  <2> SUFFICES ASSUME NEW s, NEW C PROVE Logical!UptoFirst(s, C) = UptoFirst(s, C)
    OBVIOUS
  <2> DEFINE F(W) == IF W = {} THEN Len(s) ELSE CHOOSE i \in W : \A j \in W : i <= j
  <2>1. Logical!UptoFirst(s, C) = F(Logical!Where(s, C)) /\ UptoFirst(s, C) = F(Where(s, C))
    BY Zenon DEF Logical!UptoFirst, UptoFirst
  <2> HIDE DEF F
  <2> QED BY <1>4, <2>1
<1>6. Logical!LF = LF /\ Logical!NUL = NUL /\ Logical!CR = CR /\ Logical!BS = BS
  BY DEF Logical!LF, LF, Logical!NUL, NUL, Logical!CR, CR, Logical!BS, BS
<1>7. \A c, o, t : Logical!Put(c, o, t) = Put(c, o, t)
  <2> SUFFICES ASSUME NEW c, NEW o, NEW t PROVE Logical!Put(c, o, t) = Put(c, o, t)
    OBVIOUS
  <2> DEFINE F(z) == IF t = <<>> THEN c
                     ELSE [i \in 1..(IF Len(c) >= o + Len(t) THEN Len(c) ELSE o + Len(t)) |->
                             IF i \in (o + 1)..(o + Len(t)) THEN t[i - o]
                             ELSE IF i <= Len(c) THEN c[i] ELSE z]
  <2>1. Logical!Put(c, o, t) = F(Logical!NUL) /\ Put(c, o, t) = F(NUL)
    BY Zenon DEF Logical!Put, Put
  <2> HIDE DEF F
  <2> QED BY <1>6, <2>1
<1>8. \A s : Logical!ChopCR(s) = ChopCR(s)
  BY <1>6, Zenon DEF Logical!ChopCR, ChopCR
<1>9. \A op, bytes, n, ior : Logical!Answer(op, bytes, n, ior) = Answer(op, bytes, n, ior)
  BY Zenon DEF Logical!Answer, Answer
<1>10. \A fd : Logical!Seekable(fd) = Seekable(fd)
  BY Zenon DEF Logical!Seekable, Seekable
<1>11. Logical!Closed = Closed /\ Logical!T_EDIT = T_EDIT
  BY <1>6, Zenon DEF Logical!Closed, Closed, Logical!T_EDIT, T_EDIT
<1> QED BY <1>2, <1>3, <1>5, <1>6, <1>7, <1>8, <1>9, <1>10, <1>11

AbsAhead(fd) ==
    IF ~desc[fd].rd THEN <<>>
    ELSE IF Seekable(fd) THEN Past(AbsContent[desc[fd].file], AbsOff[fd])
    ELSE AbsContent[desc[fd].file]

LEMMA AbsAheadIs == \A fd : Logical!Ahead(fd) = AbsAhead(fd)
<1> SUFFICES ASSUME NEW fd PROVE Logical!Ahead(fd) = AbsAhead(fd)
  OBVIOUS
<1>1. Logical!Ahead(fd) = IF ~desc[fd].rd THEN <<>>
                          ELSE IF Logical!Seekable(fd)
                               THEN Logical!Past(AbsContent[desc[fd].file], AbsOff[fd])
                          ELSE AbsContent[desc[fd].file]
  BY Zenon DEF Logical!Ahead, AbsContent, AbsOff
<1>2. Logical!Seekable(fd) = Seekable(fd)
      /\ Logical!Past(AbsContent[desc[fd].file], AbsOff[fd]) = Past(AbsContent[desc[fd].file], AbsOff[fd])
  BY SameOps
<1> QED BY <1>1, <1>2, Zenon DEF AbsAhead

(* With no READ-LINE in progress the mapping only gives back the slots. *)
Plain == AbsContent = content /\ AbsOff = [fd \in Fds |-> Honest(fd)]
LEMMA IdlePlain == TypeOK /\ rl = NoLine => Plain /\ \A fd \in Fds : AbsAhead(fd) = Rest(fd)
<1> SUFFICES ASSUME TypeOK, rl = NoLine PROVE Plain /\ \A fd \in Fds : AbsAhead(fd) = Rest(fd)
  OBVIOUS
<1>1. AbsContent = content
  BY DEF AbsContent, Idle, TypeOK
<1>2. ASSUME NEW fd \in Fds PROVE Position(fd) = Honest(fd)
  <2>1. rl.fd # fd
    BY FdsAssumption DEF NoLine
  <2>2. LineOf(fd) = <<>> /\ Len(<<>>) = 0
    BY <2>1, EmptySeq DEF LineOf
  <2> QED BY <2>2, HonestNat DEF Position
<1>3. AbsOff = [fd \in Fds |-> Honest(fd)]
  BY <1>2 DEF AbsOff
<1>4. ASSUME NEW fd \in Fds PROVE AbsAhead(fd) = Rest(fd)
  BY <1>1, <1>3 DEF AbsAhead, Rest
<1> QED BY <1>1, <1>3, <1>4 DEF Plain

LEMMA IdlePlainNext == TypeOK' /\ rl' = NoLine => Plain'
<1>1. (TypeOK /\ rl = NoLine => Plain /\ \A fd \in Fds : AbsAhead(fd) = Rest(fd))'
  BY IdlePlain, PTL
<1> QED BY <1>1

(* The strengthening: the abstract file still has before it what the line   *)
(* took, and a stdin taken to seek can.                                     *)
SeekInv == t_seek0 = 1 => Seekable(0)
LineInv ==
    rl # NoLine =>
        /\ rl.max \in Counts \ {0} /\ Len(rl.line) < rl.max
        /\ NoLF(rl.line)
        /\ \A fd \in Fds : fd = rl.fd =>
               Position(fd) \in Nat /\ AbsAhead(fd) = rl.line \o Rest(fd)

(* While fd's line is read, fd stands before it and every other where it is. *)
LEMMA LineMaps ==
    ASSUME TypeOK, rl # NoLine, NEW fd \in Fds, fd = rl.fd
    PROVE  /\ AbsContent = IF desc[fd].file \in Pipes
                           THEN [content EXCEPT ![desc[fd].file] = rl.line \o @] ELSE content
           /\ AbsOff \in [Fds -> Int]
           /\ AbsOff[fd] = Honest(fd) - (IF Seekable(fd) THEN Len(rl.line) ELSE 0)
           /\ \A g \in Fds \ {fd} : AbsOff[g] = Honest(g)
<1>1. rl.line \in Seq(Byte) /\ Len(rl.line) \in Nat
  BY LenProperties DEF TypeOK
<1>2. \A g \in Fds : Honest(g) \in Nat
  BY HonestNat
<1>3. Position(fd) = Honest(fd) - (IF Seekable(fd) THEN Len(rl.line) ELSE 0)
  BY DEF Position, LineOf
<1>4. ASSUME NEW g \in Fds \ {fd} PROVE Position(g) = Honest(g)
  <2>1. LineOf(g) = <<>> /\ Len(<<>>) = 0
    BY EmptySeq DEF LineOf
  <2> QED BY <1>2, <2>1 DEF Position
<1>5. AbsContent = IF desc[fd].file \in Pipes
                   THEN [content EXCEPT ![desc[fd].file] = rl.line \o @] ELSE content
  BY FilesAssumption DEF AbsContent, Idle, TypeOK
<1> QED BY <1>1, <1>2, <1>3, <1>4, <1>5 DEF AbsOff

LineMapped(fd) ==
    /\ AbsContent = IF desc[fd].file \in Pipes
                    THEN [content EXCEPT ![desc[fd].file] = rl.line \o @] ELSE content
    /\ AbsOff[fd] = Honest(fd) - (IF Seekable(fd) THEN Len(rl.line) ELSE 0)
    /\ \A g \in Fds \ {fd} : AbsOff[g] = Honest(g)

LEMMA LineMapsNext ==
    TypeOK' /\ rl' # NoLine => \A fd \in Fds : fd = rl'.fd => LineMapped(fd)'
<1>1. TypeOK /\ rl # NoLine => \A fd \in Fds : fd = rl.fd => LineMapped(fd)
  BY LineMaps DEF LineMapped
<1>2. (TypeOK /\ rl # NoLine => \A fd \in Fds : fd = rl.fd => LineMapped(fd))'
  BY <1>1, PTL
<1> QED BY <1>2

-----------------------------------------------------------------------------
(* The abstract words, in this module's operators. *)
AbsDeliver(fd, k) ==
    IF k > 0 /\ Seekable(fd)
    THEN AbsOff' = [AbsOff EXCEPT ![fd] = @ + k] /\ AbsContent' = AbsContent
    ELSE IF k > 0
    THEN AbsContent' = [AbsContent EXCEPT ![desc[fd].file] = Past(@, k)] /\ AbsOff' = AbsOff
    ELSE AbsContent' = AbsContent /\ AbsOff' = AbsOff

LEMMA DeliverIs == \A fd, k : AbsDeliver(fd, k) => Logical!Deliver(fd, k)
<1> SUFFICES ASSUME NEW fd, NEW k, AbsDeliver(fd, k) PROVE Logical!Deliver(fd, k)
  OBVIOUS
<1>1. Logical!Seekable(fd) = Seekable(fd)
  BY SameOps
<1>2. Logical!Past(AbsContent[desc[fd].file], k) = Past(AbsContent[desc[fd].file], k)
  BY SameOps
<1>3. CASE k > 0 /\ Seekable(fd)
  <2>1. AbsOff' = [AbsOff EXCEPT ![fd] = AbsOff[fd] + k] /\ AbsContent' = AbsContent
    BY <1>3 DEF AbsDeliver
  <2> QED BY <1>1, <1>3, <2>1, Zenon DEF Logical!Deliver, AbsOff, AbsContent
<1>4. CASE k > 0 /\ ~Seekable(fd)
  <2>1. AbsContent' = [AbsContent EXCEPT ![desc[fd].file] = Logical!Past(AbsContent[desc[fd].file], k)]
        /\ AbsOff' = AbsOff
    BY <1>2, <1>4 DEF AbsDeliver
  <2> QED BY <1>1, <1>4, <2>1, Zenon DEF Logical!Deliver, AbsOff, AbsContent
<1>5. CASE ~(k > 0)
  <2>1. AbsContent' = AbsContent /\ AbsOff' = AbsOff
    BY <1>5 DEF AbsDeliver
  <2> QED BY <1>5, <2>1, Zenon DEF Logical!Deliver, AbsOff, AbsContent
<1> QED BY <1>3, <1>4, <1>5

GivesLine(fd, max, w, k, line, flag, ior) ==
    /\ w = Upto(AbsAhead(fd), max) /\ k = UptoFirst(w, {LF})
    /\ line = IF k > 0 /\ w[k] = LF THEN Upto(w, k - 1) ELSE w
    /\ flag = IF max = 0 \/ w # <<>> THEN -1 ELSE 0
    /\ ior = IF max > 0 /\ fd # 0 /\ ~desc[fd].rd THEN -200 ELSE 0
    /\ AbsDeliver(fd, k) /\ dir' = dir /\ desc' = desc
    /\ res' = Answer("READ-LINE", ChopCR(line), flag, ior)

LEMMA ReadLineIs ==
    ASSUME NEW fd, NEW max, NEW w, NEW k, NEW line, NEW flag, NEW ior,
           GivesLine(fd, max, w, k, line, flag, ior)
    PROVE  Logical!ReadLine(fd, max)
<1> USE DEF GivesLine
<1>1. w = Logical!Upto(Logical!Ahead(fd), max)
  BY SameOps, AbsAheadIs
<1>2. k = Logical!UptoFirst(w, {Logical!LF})
  BY SameOps
<1>3. line = IF k > 0 /\ w[k] = Logical!LF THEN Logical!Upto(w, k - 1) ELSE w
  BY SameOps
<1>4. Logical!Deliver(fd, k)
  BY DeliverIs
<1>5. res' = Logical!Answer("READ-LINE", Logical!ChopCR(line), IF max = 0 \/ w # <<>> THEN -1 ELSE 0,
                            IF max > 0 /\ fd # 0 /\ ~desc[fd].rd THEN -200 ELSE 0)
  BY SameOps
<1>6. dir' = dir /\ desc' = desc
  OBVIOUS
<1> QED BY ONLY <1>1, <1>2, <1>3, <1>4, <1>5, <1>6, ZenonT(60) DEF Logical!ReadLine, Logical!Deliver

(* READ-LINE ends, j bytes after the line it had: the abstract file gives   *)
(* them all at once.                                                        *)
LEMMA EndDelivers ==
    ASSUME IInv, IInv', LineInv, rl # NoLine, rl' = NoLine, desc' = desc,
           NEW fd \in Fds, fd = rl.fd, NEW j \in {0, 1}, j = 1 => Rest(fd) # <<>>,
           content' = IF Seekable(fd) \/ j = 0 THEN content
                      ELSE [content EXCEPT ![desc[fd].file] = Past(@, 1)],
           Honest(fd)' = IF Seekable(fd) THEN Honest(fd) + j ELSE Honest(fd),
           \A g \in Fds \ {fd} : Honest(g)' = Honest(g)
    PROVE  AbsDeliver(fd, Len(rl.line) + j)
<1>1. TypeOK /\ TypeOK' /\ rl.line \in Seq(Byte) /\ Len(rl.line) \in Nat /\ Honest(fd) \in Nat
  BY HonestNat, LenProperties DEF IInv, TypeOK
<1>2. AbsContent' = content' /\ AbsOff' = [g \in Fds |-> Honest(g)']
  BY <1>1, IdlePlainNext DEF Plain
<1>3. /\ AbsContent = IF desc[fd].file \in Pipes
                      THEN [content EXCEPT ![desc[fd].file] = rl.line \o @] ELSE content
      /\ AbsOff \in [Fds -> Int]
      /\ AbsOff[fd] = Honest(fd) - (IF Seekable(fd) THEN Len(rl.line) ELSE 0)
      /\ \A g \in Fds \ {fd} : AbsOff[g] = Honest(g)
  BY <1>1, LineMaps
<1>4. AbsAhead(fd) = rl.line \o Rest(fd) /\ Rest(fd) \in Seq(Byte)
  BY <1>1, RestType DEF LineInv
<1>5. Len(rl.line) + j > 0 => desc[fd].rd /\ desc[fd].file \in Files
  <2>1. ASSUME ~desc[fd].rd PROVE rl.line = <<>> /\ Rest(fd) = <<>>
    <3>1. rl.line \o Rest(fd) = <<>>
      BY <1>4, <2>1 DEF AbsAhead
    <3>2. Len(rl.line \o Rest(fd)) = Len(rl.line) + Len(Rest(fd)) /\ Len(Rest(fd)) \in Nat
      BY <1>1, <1>4, ConcatProperties, LenProperties
    <3>3. Len(rl.line) = 0 /\ Len(Rest(fd)) = 0
      BY <1>1, <3>1, <3>2, EmptySeq
    <3> QED BY <1>1, <1>4, <3>3, EmptySeq
  <2>2. ~desc[fd].rd => Len(rl.line) + j = 0
    BY <2>1, EmptySeq
  <2> QED BY <1>1, <2>2, DescRange
<1>6. CASE Seekable(fd)
  <2>1. desc[fd].file \notin Pipes
    BY <1>6 DEF Seekable
  <2>2. AbsContent' = AbsContent
    BY <1>2, <1>3, <1>6, <2>1
  <2>3. AbsOff' = [AbsOff EXCEPT ![fd] = @ + (Len(rl.line) + j)]
    <3>1. Honest(fd)' = AbsOff[fd] + (Len(rl.line) + j)
      BY <1>1, <1>3, <1>6
    <3> QED BY <1>2, <1>3, <3>1
  <2>4. Len(rl.line) + j = 0 => AbsOff' = AbsOff
    <3>1. Len(rl.line) + j = 0 => AbsOff[fd] + (Len(rl.line) + j) = AbsOff[fd]
      BY <1>1, <1>3
    <3> QED BY <1>3, <2>3, <3>1
  <2>5. CASE Len(rl.line) + j > 0
    BY <1>6, <2>2, <2>3, <2>5 DEF AbsDeliver
  <2>6. CASE ~(Len(rl.line) + j > 0)
    BY <1>1, <2>2, <2>4, <2>6 DEF AbsDeliver
  <2> QED BY <2>5, <2>6
<1>7. CASE ~Seekable(fd)
  <2>1. AbsOff' = AbsOff
    BY <1>2, <1>3, <1>7, <1>1
  <2>2. CASE Len(rl.line) + j > 0
    <3> DEFINE f == desc[fd].file
    <3>1. f \in Pipes /\ f \in Files /\ content \in [Files -> Seq(Byte)]
      BY <1>1, <1>5, <1>7, <2>2 DEF Seekable, TypeOK
    <3>2. AbsContent = [content EXCEPT ![f] = rl.line \o @] /\ AbsContent[f] = rl.line \o content[f]
      BY <1>3, <3>1
    <3>3. Past(rl.line \o content[f], Len(rl.line) + j) = IF j = 0 THEN content[f] ELSE Past(content[f], 1)
      <4>1. Past(rl.line \o content[f], Len(rl.line)) = content[f]
        BY <1>1, <3>1, PastFirst
      <4>2. rl.line \o content[f] \in Seq(Byte)
        BY <1>1, <3>1, ConcatProperties
      <4>3. Past(Past(rl.line \o content[f], Len(rl.line)), j) = Past(rl.line \o content[f], Len(rl.line) + j)
        <5>1. j \in Nat
          OBVIOUS
        <5> QED BY ONLY <1>1, <4>2, <5>1, PastPast, Zenon
      <4>4. Past(content[f], 0) = content[f]
        BY <3>1, PastNone
      <4> QED BY <4>1, <4>3, <4>4
    <3>4. content' = [content EXCEPT ![f] = IF j = 0 THEN content[f] ELSE Past(content[f], 1)]
      BY <1>7, <3>1
    <3>5. AbsContent' = [AbsContent EXCEPT ![f] = Past(AbsContent[f], Len(rl.line) + j)]
      <4> HIDE DEF f
      <4>1. AbsContent' = content'
        BY <1>2
      <4> QED BY <3>1, <3>2, <3>3, <3>4, <4>1
    <3> QED BY <1>7, <2>1, <2>2, <3>5 DEF AbsDeliver
  <2>3. CASE ~(Len(rl.line) + j > 0)
    <3>1. j = 0 /\ rl.line = <<>>
      BY <1>1, <2>3, EmptySeq
    <3>2. \A f \in Files : rl.line \o content[f] = content[f]
      BY <1>1, <3>1 DEF TypeOK
    <3>3. AbsContent' = AbsContent
      BY <1>1, <1>2, <1>3, <3>1, <3>2, FilesAssumption DEF TypeOK
    <3> QED BY <2>1, <2>3, <3>3 DEF AbsDeliver
  <2> QED BY <2>2, <2>3
<1> QED BY <1>6, <1>7

(* A step of READ-LINE's loop goes on, or is the abstract READ-LINE. *)
AbsTable == <<AbsContent, dir, desc, AbsOff, res>>

LEMMA TookGoesOn ==
    ASSUME IInv, IInv', LineInv, rl # NoLine, NEW fd \in Fds, fd = rl.fd, desc' = desc,
           Rest(fd) # <<>>, NEW c, c = Rest(fd)[1], c # LF, Len(rl.line) + 1 # rl.max,
           rl' = [rl EXCEPT !.line = Append(@, c)],
           content' = IF Seekable(fd) THEN content ELSE [content EXCEPT ![desc[fd].file] = Past(@, 1)],
           Honest(fd)' = IF Seekable(fd) THEN Honest(fd) + 1 ELSE Honest(fd),
           \A g \in Fds \ {fd} : Honest(g)' = Honest(g)
    PROVE  AbsContent' = AbsContent /\ AbsOff' = AbsOff /\ LineInv'
<1> DEFINE f == desc[fd].file
           l2 == Append(rl.line, c)
<1>1. /\ TypeOK /\ TypeOK' /\ rl \in [fd : Fds, max : Nat, line : Seq(Byte)] /\ Honest(fd) \in Nat
      /\ rl.line \in Seq(Byte) /\ Len(rl.line) \in Nat
  BY HonestNat, LenProperties DEF IInv, TypeOK
<1>2. Rest(fd) \in Seq(Byte) /\ desc[fd].rd /\ f \in Files /\ content[f] \in Seq(Byte)
      /\ content \in [Files -> Seq(Byte)]
  BY <1>1, RestType, DescRange DEF Rest, TypeOK
<1>3. /\ l2 \o Past(Rest(fd), 1) = rl.line \o Rest(fd)
      /\ c \in Byte /\ l2 \in Seq(Byte) /\ Len(l2) = Len(rl.line) + 1
  BY <1>1, <1>2, TakeOne
<1>4. rl' = [fd |-> fd, max |-> rl.max, line |-> l2]
  BY <1>1
<1> HIDE DEF l2
<1>5. rl'.fd = fd /\ rl'.max = rl.max /\ rl'.line = l2 /\ rl' # NoLine
  <2>1. Len(l2) # 0 /\ Len(<<>>) = 0
    BY <1>1, <1>3, EmptySeq
  <2> QED BY <1>4, <2>1 DEF NoLine
<1>6. /\ AbsContent = IF f \in Pipes THEN [content EXCEPT ![f] = rl.line \o @] ELSE content
      /\ AbsOff \in [Fds -> Int]
      /\ AbsOff[fd] = Honest(fd) - (IF Seekable(fd) THEN Len(rl.line) ELSE 0)
      /\ \A g \in Fds \ {fd} : AbsOff[g] = Honest(g)
  BY <1>1, LineMaps
<1>7. /\ AbsContent' = IF f \in Pipes THEN [content' EXCEPT ![f] = l2 \o @] ELSE content'
      /\ AbsOff'[fd] = Honest(fd)' - (IF Seekable(fd) THEN Len(l2) ELSE 0)
      /\ \A g \in Fds \ {fd} : AbsOff'[g] = Honest(g)'
  <2>1. Seekable(fd)' = Seekable(fd)
    BY DEF Seekable
  <2>2. LineMapped(fd)'
    BY <1>1, <1>5, LineMapsNext
  <2>3. /\ AbsContent' = IF desc'[fd].file \in Pipes
                         THEN [content' EXCEPT ![desc'[fd].file] = rl'.line \o @] ELSE content'
        /\ AbsOff'[fd] = Honest(fd)' - (IF Seekable(fd)' THEN Len(rl'.line) ELSE 0)
        /\ \A g \in Fds \ {fd} : AbsOff'[g] = Honest(g)'
    BY <2>2, Zenon DEF LineMapped
  <2>4. rl'.line = l2 /\ desc' = desc
    BY <1>5
  <2> QED BY ONLY <2>1, <2>3, <2>4
<1>8. AbsOff' = AbsOff
  <2>1. AbsOff' = [g \in Fds |-> AbsOff'[g]] /\ AbsOff = [g \in Fds |-> AbsOff[g]]
    BY DEF AbsOff
  <2>2. AbsOff'[fd] = AbsOff[fd]
    <3>1. Honest(fd) + 1 - (Len(rl.line) + 1) = Honest(fd) - Len(rl.line)
      BY ONLY <1>1
    <3>2. CASE Seekable(fd)
      <4>1. Honest(fd)' = Honest(fd) + 1
        BY <3>2
      <4>2. Len(l2) = Len(rl.line) + 1
        BY <1>3
      <4>3. AbsOff[fd] = Honest(fd) - Len(rl.line)
        BY ONLY <1>6, <3>2
      <4>4. AbsOff'[fd] = Honest(fd)' - Len(l2)
        BY ONLY <1>7, <3>2
      <4>5. /\ Honest(fd) \in Nat /\ Len(rl.line) \in Nat
            /\ Honest(fd)' \in Nat /\ Len(l2) \in Nat
        BY ONLY <1>1, <4>1, <4>2
      <4>6. Honest(fd)' - Len(l2) = Honest(fd) - Len(rl.line)
        BY ONLY <4>1, <4>2, <4>5
      <4> QED BY ONLY <4>3, <4>4, <4>6
    <3>3. CASE ~Seekable(fd)
      <4>1. Honest(fd)' = Honest(fd)
        BY <3>3
      <4> QED BY ONLY <1>6, <1>7, <3>3, <4>1
    <3> QED BY ONLY <3>2, <3>3
  <2>3. \A g \in Fds : AbsOff'[g] = AbsOff[g]
    BY <1>6, <1>7, <2>2, Zenon
  <2> QED BY ONLY <2>1, <2>3
<1>9. AbsContent' = AbsContent
  <2>1. CASE f \in Pipes
    <3>1. ~Seekable(fd) /\ Rest(fd) = content[f]
      BY <1>2, <2>1 DEF Seekable, Rest
    <3>2. content' = [content EXCEPT ![f] = Past(content[f], 1)]
      BY <3>1
    <3>3. l2 \o Past(content[f], 1) = rl.line \o content[f]
      BY <1>3, <3>1
    <3> QED BY <1>2, <1>6, <1>7, <2>1, <3>2, <3>3
  <2>2. CASE f \notin Pipes
    <3>1. Seekable(fd)
      BY <1>2, <2>2 DEF Seekable
    <3> QED BY <1>6, <1>7, <2>2, <3>1
  <2> QED BY <2>1, <2>2
<1>10. AbsAhead(fd)' = AbsAhead(fd)
  BY <1>8, <1>9 DEF AbsAhead, Seekable
<1>11. Rest(fd)' = Past(Rest(fd), 1)
  <2>1. CASE Seekable(fd)
    <3>1. Rest(fd)' = Past(content[f], Honest(fd) + 1) /\ Rest(fd) = Past(content[f], Honest(fd))
      BY <1>2, <2>1 DEF Rest, Seekable
    <3>2. Honest(fd) \in Nat /\ 1 \in Nat /\ content[f] \in Seq(Byte)
      BY <1>1, <1>2
    <3>3. Past(Past(content[f], Honest(fd)), 1) = Past(content[f], Honest(fd) + 1)
      BY ONLY <3>2, PastPast, Zenon
    <3> QED BY <3>1, <3>3
  <2>2. CASE ~Seekable(fd)
    <3>1. Rest(fd)' = content'[f] /\ Rest(fd) = content[f]
      BY <1>2, <2>2 DEF Rest, Seekable
    <3> QED BY <1>2, <2>2, <3>1
  <2> QED BY <2>1, <2>2
<1>12. LineInv'
  <2>1. rl.max \in Counts \ {0} /\ Len(rl.line) < rl.max /\ rl.max \in Nat
        /\ NoLF(rl.line)
        /\ Position(fd) \in Nat /\ AbsAhead(fd) = rl.line \o Rest(fd)
    BY InputAssumption DEF LineInv
  <2>2. Len(l2) < rl.max
    BY <1>1, <1>3, <2>1
  <2>3. NoLF(l2)
    <3>1. \A k \in 1..Len(rl.line) : l2[k] = rl.line[k]
      BY <1>1, <1>3, AppendProperties DEF l2
    <3>2. l2[Len(rl.line) + 1] = c
      BY <1>1, <1>3, AppendProperties DEF l2
    <3>3. \A k \in 1..Len(l2) : k \in 1..Len(rl.line) \/ k = Len(rl.line) + 1
      BY <1>1, <1>3
    <3> QED BY <2>1, <3>1, <3>2, <3>3, Zenon DEF NoLF
  <2>4. Position(fd)' \in Nat
    <3>1. AbsOff'[fd] = Position(fd)' /\ AbsOff[fd] = Position(fd)
      BY DEF AbsOff
    <3> QED BY <1>8, <2>1, <3>1
  <2>5. AbsAhead(fd)' = l2 \o Rest(fd)'
    BY <1>3, <1>10, <1>11, <2>1
  <2> QED BY <1>5, <2>1, <2>2, <2>3, <2>4, <2>5 DEF LineInv
<1> QED BY <1>8, <1>9, <1>12

LEMMA TookIsReadLine ==
    ASSUME IInv, IInv', LineInv, rl # NoLine, NEW fd \in Fds, fd = rl.fd, Took(fd)
    PROVE  /\ LineInv' /\ UNCHANGED <<desc, t_seek0>>
           /\ AbsTable' = AbsTable \/ \E max \in Counts : Logical!ReadLine(fd, max)
<1>max. PICK max : max = rl.max
  OBVIOUS
<1>w. PICK w : w = Upto(AbsAhead(fd), max)
  OBVIOUS
<1>k. PICK k : k = UptoFirst(w, {LF})
  OBVIOUS
<1>1. TypeOK /\ rl.line \in Seq(Byte) /\ Len(rl.line) \in Nat /\ Rest(fd) \in Seq(Byte)
  BY RestType, LenProperties DEF IInv, TypeOK
<1>2. max \in Counts /\ max \in Nat /\ max > 0 /\ max # 0 /\ Len(rl.line) < max
      /\ NoLF(rl.line) /\ AbsAhead(fd) = rl.line \o Rest(fd)
  <2>1. max \in Counts \ {0} /\ Len(rl.line) < max
        /\ NoLF(rl.line) /\ AbsAhead(fd) = rl.line \o Rest(fd)
    BY <1>max, Zenon DEF LineInv
  <2>2. max \in Nat
    BY <2>1, InputAssumption
  <2> QED BY <2>1, <2>2
<1>3. /\ Rest(fd) = <<>> => w = rl.line /\ k = Len(rl.line) /\ ~(k > 0 /\ w[k] = LF)
      /\ Rest(fd) # <<>> /\ Rest(fd)[1] = LF =>
           k = Len(rl.line) + 1 /\ k > 0 /\ w[k] = LF /\ Upto(w, k - 1) = rl.line /\ w # <<>>
      /\ Rest(fd) # <<>> /\ Rest(fd)[1] # LF /\ Len(rl.line) + 1 = max =>
           k = Len(rl.line) + 1 /\ w[k] # LF /\ w = Append(rl.line, Rest(fd)[1]) /\ w # <<>>
  <2>1. w = Upto(rl.line \o Rest(fd), max) /\ k = UptoFirst(w, {LF})
    BY <1>2, <1>w, <1>k
  <2>2. Taken(rl.line, Rest(fd), max, w, k)
    BY ONLY <1>1, <1>2, <2>1, LineTaken, Zenon
  <2> QED BY <2>2, Zenon DEF Taken
<1>4. UNCHANGED <<dir, desc, t_seek0>> /\ \A g \in Fds \ {fd} : Honest(g)' = Honest(g)
  BY DEF Took
<1>flag. PICK flag : flag = IF max = 0 \/ w # <<>> THEN -1 ELSE 0
  OBVIOUS
<1>ior. PICK ior : ior = IF max > 0 /\ fd # 0 /\ ~desc[fd].rd THEN -200 ELSE 0
  OBVIOUS
<1>5. ASSUME rl' = NoLine, NEW j \in {0, 1}, NEW line, AbsDeliver(fd, Len(rl.line) + j), k = Len(rl.line) + j,
             line = IF k > 0 /\ w[k] = LF THEN Upto(w, k - 1) ELSE w,
             res' = Answer("READ-LINE", ChopCR(line), flag, ior)
      PROVE  LineInv' /\ \E m \in Counts : Logical!ReadLine(fd, m)
  <2>1. Logical!ReadLine(fd, max)
    <3>1. AbsDeliver(fd, k)
      BY <1>5 DEF AbsDeliver
    <3>2. w = Upto(AbsAhead(fd), max) /\ k = UptoFirst(w, {LF})
      BY <1>w, <1>k
    <3>3. dir' = dir /\ desc' = desc
      BY <1>4
    <3>4. GivesLine(fd, max, w, k, line, flag, ior)
      BY <1>flag, <1>ior, <1>5, <3>1, <3>2, <3>3, Zenon DEF GivesLine
    <3> QED BY ONLY <3>4, ReadLineIs, Zenon
  <2> QED BY <1>2, <1>5, <2>1 DEF LineInv
<1>6. CASE Rest(fd) = <<>>
  <2>1. /\ content' = content /\ Honest(fd)' = Honest(fd)
        /\ GotNone(fd # 0 /\ ~desc[fd].rd)
    BY <1>6 DEF Took
  <2>2. /\ rl' = NoLine
        /\ res' = Answer("READ-LINE", ChopCR(rl.line), flag, ior)
    BY <1>flag, <1>ior, <1>2, <1>3, <1>6, <2>1 DEF GotNone, LineEnds
  <2>3. AbsDeliver(fd, Len(rl.line) + 0)
    <3>1. Honest(fd)' = IF Seekable(fd) THEN Honest(fd) + 0 ELSE Honest(fd)
      BY <1>1, <2>1, HonestNat
    <3> QED BY <1>4, <2>1, <2>2, <3>1, EndDelivers
  <2>4. k = Len(rl.line) + 0 /\ rl.line = IF k > 0 /\ w[k] = LF THEN Upto(w, k - 1) ELSE w
    BY <1>1, <1>3, <1>6
  <2> QED BY <1>4, <1>5, <2>2, <2>3, <2>4
<1>7. CASE Rest(fd) # <<>>
  <2>1. /\ GotByte(Rest(fd)[1]) /\ desc[fd].rd
        /\ content' = IF Seekable(fd) THEN content ELSE [content EXCEPT ![desc[fd].file] = Past(@, 1)]
        /\ Honest(fd)' = IF Seekable(fd) THEN Honest(fd) + 1 ELSE Honest(fd)
    BY <1>7 DEF Took, Rest
  <2>2. rl' = NoLine => AbsDeliver(fd, Len(rl.line) + 1)
    BY <1>4, <1>7, <2>1, EndDelivers
  <2>3. CASE Rest(fd)[1] = LF
    <3>1. rl' = NoLine /\ res' = Answer("READ-LINE", ChopCR(rl.line), flag, ior)
      BY <1>flag, <1>ior, <1>3, <1>7, <2>1, <2>3 DEF GotByte, LineEnds
    <3>2. k = Len(rl.line) + 1 /\ rl.line = IF k > 0 /\ w[k] = LF THEN Upto(w, k - 1) ELSE w
      BY <1>3, <1>7, <2>3
    <3> QED BY <1>4, <1>5, <2>2, <3>1, <3>2
  <2>4. CASE Rest(fd)[1] # LF /\ Len(rl.line) + 1 = max
    <3>1. rl' = NoLine /\ res' = Answer("READ-LINE", ChopCR(Append(rl.line, Rest(fd)[1])), flag, ior)
      BY <1>max, <1>flag, <1>ior, <1>3, <1>7, <2>1, <2>4 DEF GotByte, LineEnds
    <3>2. k = Len(rl.line) + 1 /\ Append(rl.line, Rest(fd)[1]) = IF k > 0 /\ w[k] = LF THEN Upto(w, k - 1) ELSE w
      BY <1>3, <1>7, <2>4
    <3> QED BY <1>4, <1>5, <2>2, <3>1, <3>2
  <2>5. CASE Rest(fd)[1] # LF /\ Len(rl.line) + 1 # max
    <3>1. rl' = [rl EXCEPT !.line = Append(@, Rest(fd)[1])] /\ res' = res
      BY <1>max, <2>1, <2>5 DEF GotByte
    <3>2. AbsContent' = AbsContent /\ AbsOff' = AbsOff /\ LineInv'
      BY <1>max, <1>4, <1>7, <2>1, <2>5, <3>1, TookGoesOn
    <3> QED BY <1>4, <3>1, <3>2 DEF AbsTable
  <2> QED BY <2>3, <2>4, <2>5
<1> QED BY <1>6, <1>7

-----------------------------------------------------------------------------
(* The other words are one step here too. *)
LEMMA Moved ==
    ASSUME IInv, IInv', rl = NoLine, rl' = NoLine, NEW fd \in Fds, NEW o, Honest(fd)' = o,
           \A g \in Fds \ {fd} : Honest(g)' = Honest(g)
    PROVE  /\ AbsContent = content /\ AbsContent' = content'
           /\ AbsOff' = [AbsOff EXCEPT ![fd] = o] /\ AbsOff[fd] = Honest(fd)
           /\ o = Honest(fd) => AbsOff' = AbsOff
<1>1. /\ AbsContent = content /\ AbsContent' = content'
      /\ AbsOff = [g \in Fds |-> Honest(g)] /\ AbsOff' = [g \in Fds |-> Honest(g)']
  BY IdlePlain, IdlePlainNext DEF IInv, Plain
<1> QED BY <1>1

LEMMA StoodStill ==
    ASSUME IInv, IInv', rl = NoLine, rl' = NoLine, \A g \in Fds : Honest(g)' = Honest(g)
    PROVE  AbsContent = content /\ AbsContent' = content' /\ AbsOff' = AbsOff
<1>1. /\ AbsContent = content /\ AbsContent' = content'
      /\ AbsOff = [g \in Fds |-> Honest(g)] /\ AbsOff' = [g \in Fds |-> Honest(g)']
  BY IdlePlain, IdlePlainNext DEF IInv, Plain
<1> QED BY <1>1

LEMMA CloseFileMaps ==
    ASSUME IInv, IInv', NEW fd \in Fds, CloseFile(fd)
    PROVE  Logical!CloseFile(fd)
<1>1. /\ rl = NoLine /\ rl' = NoLine /\ fd # 0 /\ t_fdrop(fd)
      /\ res' = Answer("CLOSE-FILE", <<>>, 0, IF desc[fd] = Closed THEN -1 ELSE 0)
      /\ desc' = [desc EXCEPT ![fd] = Closed]
      /\ off' = [off EXCEPT ![fd] = 0] /\ content' = content /\ dir' = dir
  BY DEF CloseFile, Idle
<1>2. off'[fd] = 0 /\ \A g \in Fds \ {fd} : off'[g] = off[g]
  BY <1>1 DEF IInv, TypeOK
<1>3. Honest(fd)' = 0 /\ \A g \in Fds \ {fd} : Honest(g)' = Honest(g)
  BY <1>1, <1>2, DropHonest
<1>4. AbsContent' = AbsContent /\ AbsOff' = [AbsOff EXCEPT ![fd] = 0]
  BY <1>1, <1>3, Moved
<1>5. res' = Logical!Answer("CLOSE-FILE", <<>>, 0, IF desc[fd] = Logical!Closed THEN -1 ELSE 0)
      /\ desc' = [desc EXCEPT ![fd] = Logical!Closed]
  BY <1>1, SameOps
<1> QED BY ONLY <1>1, <1>4, <1>5, Zenon DEF Logical!CloseFile, AbsOff, AbsContent

LEMMA RedirectMaps ==
    ASSUME IInv, IInv', NEW old \in Fds, NEW new \in Fds, Redirect(old, new)
    PROVE  Logical!Redirect(old, new)
<1>1. /\ rl = NoLine /\ rl' = NoLine /\ old # 0 /\ old # new /\ desc[old] # Closed
      /\ new # 0 => ~HasSlot(new)
      /\ t_fdrop(old) /\ content' = content /\ dir' = dir
      /\ desc' = [desc EXCEPT ![new] = desc[old], ![old] = Closed]
      /\ off' = [off EXCEPT ![new] = Honest(old), ![old] = 0]
      /\ res' = Answer("DUP2", <<>>, 0, 0)
  BY DEF Redirect, Idle
<1>2. off'[old] = 0 /\ off'[new] = Honest(old) /\ \A g \in Fds \ {old, new} : off'[g] = off[g]
  BY <1>1 DEF IInv, TypeOK
<1>3. Honest(old)' = 0 /\ \A g \in Fds \ {old, new} : Honest(g)' = Honest(g)
  BY <1>1, <1>2, DropHonest
<1>4. Honest(new)' = Honest(old)
  <2>1. CASE new # 0
    BY <1>1, <1>2, <2>1, DropHonest
  <2>2. CASE new = 0
    <3>1. HonestAt(0)' /\ off'[0] \in Nat
      BY <2>2, HonestNext DEF IInv, TypeOK
    <3>2. Honest(0)' = off'[0]
      BY <3>1 DEF HonestAt
    <3> QED BY <1>2, <2>2, <3>2
  <2> QED BY <2>1, <2>2
<1>5. /\ AbsContent = content /\ AbsContent' = content'
      /\ AbsOff = [g \in Fds |-> Honest(g)] /\ AbsOff' = [g \in Fds |-> Honest(g)']
  BY <1>1, IdlePlain, IdlePlainNext DEF IInv, Plain
<1>6. AbsOff' = [AbsOff EXCEPT ![new] = AbsOff[old], ![old] = 0]
  BY <1>1, <1>3, <1>4, <1>5
<1>7. /\ res' = Logical!Answer("DUP2", <<>>, 0, 0) /\ desc[old] # Logical!Closed
      /\ desc' = [desc EXCEPT ![new] = desc[old], ![old] = Logical!Closed]
  BY <1>1, SameOps
<1>8. AbsContent' = AbsContent
  BY <1>1, <1>5
<1> QED BY ONLY <1>1, <1>6, <1>7, <1>8, Zenon DEF Logical!Redirect, AbsOff, AbsContent

LEMMA RepositionMaps ==
    ASSUME IInv, IInv', NEW fd \in Fds, NEW p \in Offsets, RepositionFile(fd, p)
    PROVE  Logical!RepositionFile(fd, p)
<1>1. /\ rl = NoLine /\ rl' = NoLine /\ t_fdrop(fd)
      /\ off' = [off EXCEPT ![fd] = IF Seekable(fd) THEN p ELSE off[fd]]
      /\ res' = Answer("REPOSITION-FILE", <<>>, 0, IF Seekable(fd) THEN 0 ELSE 200)
      /\ content' = content /\ dir' = dir /\ desc' = desc
  BY DEF RepositionFile, Idle
<1>2. off'[fd] = (IF Seekable(fd) THEN p ELSE off[fd]) /\ \A g \in Fds \ {fd} : off'[g] = off[g]
  BY <1>1 DEF IInv, TypeOK
<1>3. ~Seekable(fd) => Honest(fd) = off[fd]
  <2>1. HonestAt(fd) /\ off[fd] \in Nat
    BY HonestIs DEF IInv, TypeOK
  <2> QED BY <2>1 DEF HonestAt
<1>4. Honest(fd)' = (IF Seekable(fd) THEN p ELSE Honest(fd)) /\ \A g \in Fds \ {fd} : Honest(g)' = Honest(g)
  BY <1>1, <1>2, <1>3, DropHonest
<1>5. AbsContent' = AbsContent /\ AbsOff' = IF Seekable(fd) THEN [AbsOff EXCEPT ![fd] = p] ELSE AbsOff
  <2>1. CASE Seekable(fd)
    BY <1>1, <1>4, <2>1, Moved
  <2>2. CASE ~Seekable(fd)
    BY <1>1, <1>4, <2>2, StoodStill
  <2> QED BY <2>1, <2>2
<1>6. /\ Logical!Seekable(fd) = Seekable(fd)
      /\ res' = Logical!Answer("REPOSITION-FILE", <<>>, 0, IF Seekable(fd) THEN 0 ELSE 200)
  BY <1>1, SameOps
<1> QED BY ONLY <1>1, <1>5, <1>6, Zenon DEF Logical!RepositionFile, AbsOff, AbsContent

(* FILE-POSITION and FILE-SIZE drop the slot, and so move nothing. *)
LEMMA AsksOnly ==
    ASSUME IInv, IInv', NEW fd \in Fds, FilePosition(fd) \/ FileSize(fd)
    PROVE  /\ AbsContent' = AbsContent /\ AbsOff' = AbsOff /\ dir' = dir /\ desc' = desc
           /\ AbsContent = content /\ AbsOff[fd] = Honest(fd)
<1>1. /\ rl = NoLine /\ rl' = NoLine /\ t_fdrop(fd)
      /\ off' = [off EXCEPT ![fd] = Honest(fd)]
      /\ content' = content /\ dir' = dir /\ desc' = desc
  BY DEF FilePosition, FileSize, Idle
<1>2. off'[fd] = Honest(fd) /\ \A g \in Fds \ {fd} : off'[g] = off[g]
  BY <1>1 DEF IInv, TypeOK
<1>3. Honest(fd)' = Honest(fd) /\ \A g \in Fds \ {fd} : Honest(g)' = Honest(g)
  BY <1>1, <1>2, DropHonest
<1> QED BY <1>1, <1>3, Moved

LEMMA FilePositionMaps ==
    ASSUME IInv, IInv', NEW fd \in Fds, FilePosition(fd)
    PROVE  Logical!FilePosition(fd)
<1>1. /\ AbsContent' = AbsContent /\ AbsOff' = AbsOff /\ dir' = dir /\ desc' = desc
      /\ AbsOff[fd] = Honest(fd)
  BY AsksOnly
<1>2. res' = IF Seekable(fd) THEN Answer("FILE-POSITION", <<>>, Honest(fd), 0)
             ELSE Answer("FILE-POSITION", <<>>, 0, 200)
  BY DEF FilePosition
<1>3. res' = IF Logical!Seekable(fd) THEN Logical!Answer("FILE-POSITION", <<>>, AbsOff[fd], 0)
             ELSE Logical!Answer("FILE-POSITION", <<>>, 0, 200)
  BY <1>1, <1>2, SameOps
<1> QED BY ONLY <1>1, <1>3, Zenon DEF Logical!FilePosition, AbsOff, AbsContent

LEMMA FileSizeMaps ==
    ASSUME IInv, IInv', NEW fd \in Fds, FileSize(fd)
    PROVE  Logical!FileSize(fd)
<1>1. /\ AbsContent' = AbsContent /\ AbsOff' = AbsOff /\ dir' = dir /\ desc' = desc
      /\ AbsContent = content
  BY AsksOnly
<1>2. res' = IF Seekable(fd) THEN Answer("FILE-SIZE", <<>>, Len(content[desc[fd].file]), 0)
             ELSE Answer("FILE-SIZE", <<>>, 0, 200)
  BY DEF FileSize
<1>3. res' = IF Logical!Seekable(fd) THEN Logical!Answer("FILE-SIZE", <<>>, Len(AbsContent[desc[fd].file]), 0)
             ELSE Logical!Answer("FILE-SIZE", <<>>, 0, 200)
  BY <1>1, <1>2, SameOps
<1> QED BY ONLY <1>1, <1>3, Zenon DEF Logical!FileSize, AbsOff, AbsContent

LEMMA IdleDelivers ==
    ASSUME IInv, IInv', rl = NoLine, rl' = NoLine, NEW fd \in Fds, NEW k \in Nat,
           Honest(fd)' = IF Seekable(fd) THEN Honest(fd) + k ELSE Honest(fd),
           \A g \in Fds \ {fd} : Honest(g)' = Honest(g),
           content' = IF Seekable(fd) \/ k = 0 THEN content
                      ELSE [content EXCEPT ![desc[fd].file] = Past(@, k)]
    PROVE  AbsDeliver(fd, k)
<1>1. Honest(fd) \in Nat
  BY HonestNat DEF IInv
<1>2. CASE k > 0 /\ Seekable(fd)
  <2>1. Honest(fd)' = Honest(fd) + k /\ content' = content
    BY <1>2
  <2>2. AbsContent' = AbsContent /\ AbsOff' = [AbsOff EXCEPT ![fd] = AbsOff[fd] + k]
    BY <2>1, Moved
  <2> QED BY <1>2, <2>2 DEF AbsDeliver
<1>3. CASE k > 0 /\ ~Seekable(fd)
  <2>1. \A g \in Fds : Honest(g)' = Honest(g)
    BY <1>3
  <2>2. AbsContent = content /\ AbsContent' = content' /\ AbsOff' = AbsOff
    BY <2>1, StoodStill
  <2>3. AbsContent' = [AbsContent EXCEPT ![desc[fd].file] = Past(AbsContent[desc[fd].file], k)]
    BY <1>3, <2>2
  <2> QED BY <1>3, <2>2, <2>3 DEF AbsDeliver
<1>4. CASE ~(k > 0)
  <2>1. k = 0
    BY <1>4
  <2>2. (\A g \in Fds : Honest(g)' = Honest(g)) /\ content' = content
    BY <1>1, <2>1
  <2>3. AbsContent' = AbsContent /\ AbsOff' = AbsOff
    BY <2>2, StoodStill
  <2> QED BY <1>4, <2>3 DEF AbsDeliver
<1> QED BY <1>2, <1>3, <1>4

GivesFile(fd, u, w, n, ior) ==
    /\ w = Upto(AbsAhead(fd), u) /\ n = Len(w)
    /\ ior = IF u > 0 /\ ~desc[fd].rd THEN -200 ELSE 0
    /\ AbsDeliver(fd, n) /\ dir' = dir /\ desc' = desc
    /\ res' = Answer("READ-FILE", w, n, ior)

LEMMA ReadFileIs ==
    ASSUME NEW fd, NEW u, NEW w, NEW n, NEW ior, GivesFile(fd, u, w, n, ior)
    PROVE  Logical!ReadFile(fd, u)
<1> USE DEF GivesFile
<1>1. w = Logical!Upto(Logical!Ahead(fd), u) /\ n = Len(w)
  BY SameOps, AbsAheadIs
<1>2. Logical!Deliver(fd, n)
  BY DeliverIs
<1>3. res' = Logical!Answer("READ-FILE", w, n, IF u > 0 /\ ~desc[fd].rd THEN -200 ELSE 0)
  BY SameOps
<1>4. dir' = dir /\ desc' = desc
  OBVIOUS
<1> QED BY ONLY <1>1, <1>2, <1>3, <1>4, Zenon DEF Logical!ReadFile, Logical!Deliver

LEMMA ReadFileMaps ==
    ASSUME IInv, IInv', NEW fd \in Fds, NEW u \in Counts, ReadFile(fd, u)
    PROVE  Logical!ReadFile(fd, u)
<1>1. PICK b : b = ReadBytes(fd, Honest(fd), u)
  OBVIOUS
<1>2. PICK n : n = Len(b)
  OBVIOUS
<1>3. PICK ior : ior = IF u > 0 /\ ~desc[fd].rd THEN -200 ELSE 0
  OBVIOUS
<1>4. /\ rl = NoLine /\ rl' = NoLine /\ t_fdrop(fd)
      /\ off' = [off EXCEPT ![fd] = IF Seekable(fd) THEN Honest(fd) + n ELSE Honest(fd)]
      /\ content' = IF Seekable(fd) \/ n = 0 THEN content ELSE [content EXCEPT ![desc[fd].file] = Past(@, n)]
      /\ res' = Answer("READ-FILE", b, n, ior) /\ dir' = dir /\ desc' = desc
  BY <1>1, <1>2, <1>3 DEF ReadFile, Idle, SysRead
<1>5. TypeOK /\ u \in Nat /\ Rest(fd) \in Seq(Byte) /\ AbsAhead(fd) = Rest(fd)
  BY <1>4, InputAssumption, RestType, IdlePlain DEF IInv
<1>6. b = Upto(AbsAhead(fd), u) /\ n \in Nat
  BY <1>1, <1>2, <1>5, RestRead, UptoProperties, LenProperties
<1>7. off'[fd] = (IF Seekable(fd) THEN Honest(fd) + n ELSE Honest(fd)) /\ \A g \in Fds \ {fd} : off'[g] = off[g]
  BY <1>4 DEF IInv, TypeOK
<1>8. /\ Honest(fd)' = IF Seekable(fd) THEN Honest(fd) + n ELSE Honest(fd)
      /\ \A g \in Fds \ {fd} : Honest(g)' = Honest(g)
  BY <1>4, <1>7, DropHonest
<1>9. AbsDeliver(fd, n)
  BY <1>4, <1>6, <1>8, IdleDelivers
<1>10. GivesFile(fd, u, b, n, ior)
  BY <1>2, <1>3, <1>4, <1>6, <1>9, Zenon DEF GivesFile
<1> QED BY ONLY <1>10, ReadFileIs, Zenon

GivesRead(u, w, k) ==
    /\ w = Upto(AbsAhead(0), u) /\ k = UptoFirst(w, T_EDIT)
    /\ AbsDeliver(0, k) /\ dir' = dir /\ desc' = desc
    /\ res' = Answer("READ", Upto(w, k), k, 0)

LEMMA ReadIs ==
    ASSUME NEW u, NEW w, NEW k, GivesRead(u, w, k)
    PROVE  Logical!Read(u)
<1> USE DEF GivesRead
<1>1. w = Logical!Upto(Logical!Ahead(0), u)
  BY SameOps, AbsAheadIs
<1>2. k = Logical!UptoFirst(w, Logical!T_EDIT)
  BY SameOps
<1>3. Logical!Deliver(0, k)
  BY DeliverIs
<1>4. res' = Logical!Answer("READ", Logical!Upto(w, k), k, 0)
  BY SameOps
<1>5. dir' = dir /\ desc' = desc
  OBVIOUS
<1> QED BY ONLY <1>1, <1>2, <1>3, <1>4, <1>5, Zenon DEF Logical!Read, Logical!Deliver

LEMMA ReadMaps ==
    ASSUME IInv, IInv', SeekInv, NEW u \in Counts, Read(u)
    PROVE  Logical!Read(u) /\ SeekInv'
<1>1. PICK can : can = (IF t_seek0 = -1 THEN Seekable(0) ELSE t_seek0 = 1)
  OBVIOUS
<1>2. PICK blk : blk = ReadBytes(0, off[0], u)
  OBVIOUS
<1>3. PICK k : k = UptoFirst(blk, T_EDIT)
  OBVIOUS
<1>4. /\ rl = NoLine /\ rl' = NoLine /\ dir' = dir /\ desc' = desc /\ t_fb' = t_fb
      /\ t_seek0' = IF u = 0 THEN t_seek0 ELSE IF can THEN 1 ELSE 0
      /\ res' = Answer("READ", Upto(blk, k), k, 0)
  BY <1>1, <1>2, <1>3 DEF Read, Idle
<1>5. /\ can => /\ content' = IF Seekable(0) \/ blk = <<>> THEN content
                              ELSE [content EXCEPT ![desc[0].file] = Past(@, Len(blk))]
                /\ off' = [off EXCEPT ![0] = IF Seekable(0) THEN Lseek(0, off[0] + Len(blk), k - Len(blk))
                                             ELSE off[0]]
      /\ ~can => SysRead(0, off[0], k)
  BY <1>1, <1>2, <1>3 DEF Read
<1>6. can => Seekable(0)
  BY <1>1 DEF SeekInv
<1>7. SeekInv'
  BY <1>4, <1>6 DEF SeekInv, Seekable
<1>8. /\ TypeOK /\ u \in Nat /\ 0 \in Fds /\ Rest(0) \in Seq(Byte) /\ AbsAhead(0) = Rest(0)
      /\ off[0] \in Nat /\ off \in [Fds -> Nat] /\ off' \in [Fds -> Nat]
  BY <1>4, FdsAssumption, InputAssumption, RestType, IdlePlain DEF IInv, TypeOK
<1>9. Honest(0) = off[0]
  <2>1. HonestAt(0)
    BY <1>8, HonestIs
  <2> QED BY <1>8, <2>1 DEF HonestAt
<1>10. blk = Upto(AbsAhead(0), u) /\ blk \in Seq(Byte) /\ Len(blk) \in Nat /\ k \in 0..Len(blk) /\ k \in Nat
  <2>1. blk = Upto(AbsAhead(0), u) /\ blk \in Seq(Byte)
    BY <1>2, <1>8, <1>9, RestRead, UptoProperties
  <2> QED BY <1>3, <2>1, UptoFirstInRange, LenProperties
<1>11. /\ off'[0] = IF Seekable(0) THEN off[0] + k ELSE off[0]
       /\ \A g \in Fds \ {0} : off'[g] = off[g]
       /\ content' = IF Seekable(0) \/ k = 0 THEN content ELSE [content EXCEPT ![desc[0].file] = Past(@, k)]
  <2>1. CASE can
    <3>1. off[0] + Len(blk) + (k - Len(blk)) = off[0] + k /\ off[0] + k >= 0
      BY <1>8, <1>10
    <3>2. Lseek(0, off[0] + Len(blk), k - Len(blk)) = off[0] + k
      BY <1>6, <2>1, <3>1 DEF Lseek
    <3> QED BY <1>5, <1>6, <1>8, <2>1, <3>2
  <2>2. CASE ~can
    BY <1>5, <1>8, <2>2 DEF SysRead
  <2> QED BY <2>1, <2>2
<1>12. /\ Honest(0)' = IF Seekable(0) THEN Honest(0) + k ELSE Honest(0)
       /\ \A g \in Fds \ {0} : Honest(g)' = Honest(g)
  BY <1>4, <1>8, <1>9, <1>11, SameHonest
<1>13. AbsDeliver(0, k)
  BY <1>4, <1>8, <1>10, <1>11, <1>12, IdleDelivers
<1>14. GivesRead(u, blk, k)
  BY <1>3, <1>4, <1>10, <1>13, Zenon DEF GivesRead
<1> QED BY <1>7, <1>14, ReadIs, Zenon

LEMMA WriteTextMaps ==
    ASSUME IInv, IInv', NEW op, NEW fd \in Fds, NEW text \in Seq(Byte), WriteText(op, fd, text)
    PROVE  Logical!WriteText(op, fd, text)
<1>1. PICK k \in IF desc[fd].wr THEN 0..Len(text) ELSE {0} :
        LET f == desc[fd].file
            o == IF desc[fd].app /\ k > 0 THEN Len(content[f]) ELSE Honest(fd)
        IN  /\ Idle /\ (k > 0 => o + k <= MaxLen)
            /\ t_fdrop(fd)
            /\ content' = IF k = 0 THEN content ELSE [content EXCEPT ![f] = Put(@, o, Upto(text, k))]
            /\ off' = [off EXCEPT ![fd] = o + k]
            /\ res' = Answer(op, <<>>, 0, IF k = Len(text) THEN 0 ELSE -200)
            /\ UNCHANGED <<dir, desc, t_seek0, rl>>
  BY Zenon DEF WriteText
<1>2. PICK f : f = desc[fd].file
  OBVIOUS
<1>3. PICK o : o = IF desc[fd].app /\ k > 0 THEN Len(content[f]) ELSE Honest(fd)
  OBVIOUS
<1>4. /\ rl = NoLine /\ rl' = NoLine /\ (k > 0 => o + k <= MaxLen) /\ t_fdrop(fd)
      /\ content' = IF k = 0 THEN content ELSE [content EXCEPT ![f] = Put(content[f], o, Upto(text, k))]
      /\ off' = [off EXCEPT ![fd] = o + k]
      /\ res' = Answer(op, <<>>, 0, IF k = Len(text) THEN 0 ELSE -200)
      /\ dir' = dir /\ desc' = desc
  BY <1>1, <1>2, <1>3 DEF Idle
<1>5. k \in Nat /\ Honest(fd) \in Nat
  BY HonestNat, LenProperties DEF IInv
<1>6. off'[fd] = o + k /\ \A g \in Fds \ {fd} : off'[g] = off[g]
  BY <1>4 DEF IInv, TypeOK
<1>7. Honest(fd)' = o + k /\ \A g \in Fds \ {fd} : Honest(g)' = Honest(g)
  BY <1>4, <1>6, DropHonest
<1>8. AbsContent = content /\ AbsContent' = content' /\ AbsOff' = [AbsOff EXCEPT ![fd] = o + k]
      /\ AbsOff[fd] = Honest(fd)
  BY <1>4, <1>7, Moved
<1>9. k = 0 => AbsContent' = AbsContent /\ AbsOff' = AbsOff
  <2>1. k = 0 => o + k = Honest(fd) /\ content' = content
    BY <1>3, <1>4, <1>5
  <2>2. o + k = Honest(fd) => AbsOff' = AbsOff
    BY <1>4, <1>7, Moved
  <2> QED BY <1>8, <2>1, <2>2
<1>10. k > 0 => /\ o = IF desc[fd].app THEN Len(AbsContent[f]) ELSE AbsOff[fd]
                /\ AbsContent' = [AbsContent EXCEPT ![f] = Logical!Put(AbsContent[f], o, Logical!Upto(text, k))]
  <2>1. k > 0 => o = IF desc[fd].app THEN Len(AbsContent[f]) ELSE AbsOff[fd]
    BY <1>3, <1>8
  <2>2. Logical!Put(AbsContent[f], o, Logical!Upto(text, k)) = Put(AbsContent[f], o, Upto(text, k))
    BY SameOps
  <2> QED BY <1>4, <1>8, <2>1, <2>2
<1>11. res' = Logical!Answer(op, <<>>, 0, IF k = Len(text) THEN 0 ELSE -200)
  BY <1>4, SameOps
<1>12. k # 0 => k > 0
  BY <1>5
<1>13. /\ k \in (IF desc[fd].wr THEN 0..Len(text) ELSE {0}) /\ dir' = dir /\ desc' = desc
       /\ k > 0 => o + k <= MaxLen
  BY <1>4
<1>14. CASE k = 0
  <2>1. ~(k > 0)
    BY <1>14
  <2>2. AbsContent' = AbsContent /\ AbsOff' = AbsOff
    BY <1>9, <1>14
  <2> QED BY ONLY <1>11, <1>13, <1>14, <2>1, <2>2, Zenon DEF Logical!WriteText, AbsOff, AbsContent
<1>15. CASE k # 0
  <2>1. /\ o = (IF desc[fd].app THEN Len(AbsContent[desc[fd].file]) ELSE AbsOff[fd]) /\ o + k <= MaxLen
        /\ AbsContent' = [AbsContent EXCEPT ![desc[fd].file] =
                             Logical!Put(AbsContent[desc[fd].file], o, Logical!Upto(text, k))]
        /\ AbsOff' = [AbsOff EXCEPT ![fd] = o + k]
    BY <1>2, <1>8, <1>10, <1>12, <1>13, <1>15
  <2> QED BY ONLY <1>11, <1>13, <1>15, <2>1, Zenon DEF Logical!WriteText, AbsOff, AbsContent
<1> QED BY <1>14, <1>15

LEMMA WriteMaps ==
    ASSUME IInv, IInv', NEW fd \in Fds, NEW t \in Texts
    PROVE  /\ WriteLine(fd, t) => Logical!WriteLine(fd, t)
           /\ WriteFile(fd, t) => Logical!WriteFile(fd, t)
<1>1. t \in Seq(Byte) /\ Append(t, LF) \in Seq(Byte)
  BY InputAssumption DEF Byte
<1>2. PICK tl : tl = Append(t, LF)
  OBVIOUS
<1>3. tl = Append(t, Logical!LF)
  BY <1>2, SameOps
<1>4. ASSUME WriteLine(fd, t) PROVE Logical!WriteLine(fd, t)
  <2>1. WriteText("WRITE-LINE", fd, tl)
    BY <1>2, <1>4, Zenon DEF WriteLine, WriteText
  <2>2. Logical!WriteText("WRITE-LINE", fd, tl)
    BY <1>1, <1>2, <2>1, WriteTextMaps, Zenon
  <2> QED BY <1>3, <2>2, Zenon DEF Logical!WriteLine, Logical!WriteText
<1>5. ASSUME WriteFile(fd, t) PROVE Logical!WriteFile(fd, t)
  BY <1>1, <1>5, WriteTextMaps, Zenon DEF WriteFile, Logical!WriteFile
<1> QED BY <1>4, <1>5

LEMMA SameTable ==
    /\ Logical!open_flags = open_flags
    /\ \A f, fam : Logical!SoleWriter(f, fam) <=> SoleWriter(f, fam)
<1>1. Logical!open_flags = open_flags
  BY Zenon DEF Logical!open_flags, open_flags, Logical!Fams, Fams
<1>2. ASSUME NEW f, NEW fam PROVE Logical!SoleWriter(f, fam) <=> SoleWriter(f, fam)
  BY <1>1, Zenon DEF Logical!SoleWriter, SoleWriter
<1> QED BY <1>1, <1>2

LEMMA OpenFileMaps ==
    ASSUME IInv, IInv', SeekInv, NEW f \in Files, NEW fam \in FamsUsed, OpenFile(f, fam), Idle,
           UNCHANGED <<t_fb, t_seek0, rl>>
    PROVE  Logical!OpenFile(f, fam) /\ SeekInv'
<1> DEFINE Free(cl) == {fd \in Fds : desc[fd] = cl}
           Low(cl) == CHOOSE fd \in Free(cl) : \A g \in Free(cl) : fd <= g
<1>1. PICK low : low = Low(Closed)
  OBVIOUS
<1>2. PICK fl : fl = open_flags[fam]
  OBVIOUS
<1>3. Free(Logical!Closed) = Free(Closed) /\ low = Low(Logical!Closed) /\ fl = Logical!open_flags[fam]
  <2> HIDE DEF Free, Low
  <2>1. Logical!Closed = Closed /\ Logical!open_flags = open_flags
    BY SameOps, SameTable
  <2> QED BY <1>1, <1>2, <2>1
<1>4. rl = NoLine /\ rl' = NoLine /\ t_fb' = t_fb /\ t_seek0' = t_seek0 /\ (f \in Pipes => fam = "r")
  BY DEF Idle, OpenFile
<1>5. ASSUME Free(Closed) = {} \/ (f \notin dir /\ ~fl.creat),
             res' = Answer("OPEN-FILE", <<>>, -1, 200),
             content' = content, dir' = dir, desc' = desc, off' = off
      PROVE  Logical!OpenFile(f, fam) /\ SeekInv'
  <2>1. AbsContent' = AbsContent /\ AbsOff' = AbsOff
    BY <1>4, <1>5, SameHonest, StoodStill
  <2>2. res' = Logical!Answer("OPEN-FILE", <<>>, -1, 200)
    BY <1>5, SameOps
  <2>3. Free(Logical!Closed) = {} \/ (f \notin dir /\ ~Logical!open_flags[fam].creat)
    BY <1>3, <1>5
  <2>4. SeekInv'
    BY <1>4, <1>5 DEF SeekInv, Seekable
  <2>5. Logical!OpenFile(f, fam)
    BY ONLY <1>4, <1>5, <2>1, <2>2, <2>3, Zenon DEF Logical!OpenFile, AbsOff, AbsContent
  <2> QED BY <2>4, <2>5
<1>6. ASSUME Free(Closed) # {}, f \in dir \/ fl.creat, SoleWriter(f, fam),
             f \notin dir => \A fd \in Fds : desc[fd].file # f,
             content' = IF fl.trunc \/ f \notin dir THEN [content EXCEPT ![f] = <<>>] ELSE content,
             dir' = dir \cup {f},
             desc' = [desc EXCEPT ![low] = [file |-> f, rd |-> fl.rd, wr |-> fl.wr, app |-> fl.app]],
             off' = [off EXCEPT ![low] = 0],
             res' = Answer("OPEN-FILE", <<>>, low, 0)
      PROVE  Logical!OpenFile(f, fam) /\ SeekInv'
  <2>1. low \in Free(Closed)
    <3>1. Free(Closed) \in SUBSET Nat
      BY FdsAssumption
    <3> QED BY <1>1, <1>6, <3>1, LeastNat
  <2>2. low \in Fds /\ desc[low] = Closed /\ ~Seekable(low)
    BY <2>1, FilesAssumption DEF Seekable, Closed
  <2>3. off'[low] = 0 /\ \A g \in Fds \ {low} : off'[g] = off[g]
    BY <1>6, <2>2 DEF IInv, TypeOK
  <2>4. Honest(low)' = 0 /\ \A g \in Fds \ {low} : Honest(g)' = Honest(g)
    BY <1>4, <2>2, <2>3, SameHonest
  <2>5. AbsContent = content /\ AbsContent' = content' /\ AbsOff' = [AbsOff EXCEPT ![low] = 0]
    BY <1>4, <2>2, <2>4, Moved
  <2>6. SeekInv'
    <3>1. ASSUME t_seek0 = 1 PROVE Seekable(0)'
      <4>1. Seekable(0) /\ low # 0
        BY <2>2, <3>1 DEF SeekInv
      <4>2. desc'[0] = desc[0]
        BY <1>6, <4>1
      <4> QED BY <4>1, <4>2 DEF Seekable
    <3> QED BY <1>4, <3>1 DEF SeekInv
  <2>7. /\ Free(Logical!Closed) # {} /\ (f \in dir \/ Logical!open_flags[fam].creat)
        /\ Logical!SoleWriter(f, fam)
    BY <1>3, <1>6, SameTable
  <2>8. AbsContent' = IF Logical!open_flags[fam].trunc \/ f \notin dir THEN [AbsContent EXCEPT ![f] = <<>>]
                      ELSE AbsContent
    BY <1>3, <1>6, <2>5
  <2>9. /\ desc' = [desc EXCEPT ![Low(Logical!Closed)] =
                      [file |-> f, rd |-> Logical!open_flags[fam].rd, wr |-> Logical!open_flags[fam].wr,
                       app |-> Logical!open_flags[fam].app]]
        /\ AbsOff' = [AbsOff EXCEPT ![Low(Logical!Closed)] = 0]
        /\ res' = Logical!Answer("OPEN-FILE", <<>>, Low(Logical!Closed), 0)
    <3> HIDE DEF Low
    <3>1. res' = Logical!Answer("OPEN-FILE", <<>>, low, 0)
      BY <1>6, SameOps
    <3> QED BY <1>3, <1>6, <2>5, <3>1
  <2>10. Logical!OpenFile(f, fam)
    <3>1. f \notin dir => \A fd \in Fds : desc[fd].file # f
      BY <1>6
    <3>2. dir' = dir \cup {f}
      BY <1>6
    <3> QED BY ONLY <1>4, <2>7, <2>8, <2>9, <3>1, <3>2, Zenon DEF Logical!OpenFile, AbsOff, AbsContent
  <2> QED BY <2>6, <2>10
<1>7. \/ /\ Free(Closed) = {} \/ (f \notin dir /\ ~fl.creat)
         /\ res' = Answer("OPEN-FILE", <<>>, -1, 200)
         /\ content' = content /\ dir' = dir /\ desc' = desc /\ off' = off
      \/ /\ Free(Closed) # {} /\ (f \in dir \/ fl.creat)
         /\ SoleWriter(f, fam)
         /\ f \notin dir => \A fd \in Fds : desc[fd].file # f
         /\ content' = IF fl.trunc \/ f \notin dir THEN [content EXCEPT ![f] = <<>>] ELSE content
         /\ dir' = dir \cup {f}
         /\ desc' = [desc EXCEPT ![low] = [file |-> f, rd |-> fl.rd, wr |-> fl.wr, app |-> fl.app]]
         /\ off' = [off EXCEPT ![low] = 0]
         /\ res' = Answer("OPEN-FILE", <<>>, low, 0)
  BY <1>1, <1>2, Zenon DEF OpenFile
<1> HIDE DEF Free, Low
<1> QED BY <1>5, <1>6, <1>7

LEMMA DeleteMaps ==
    ASSUME IInv, IInv', NEW f \in Files, DeleteFile(f), Idle, UNCHANGED <<t_fb, t_seek0, rl>>
    PROVE  Logical!DeleteFile(f)
<1>1. /\ rl = NoLine /\ rl' = NoLine /\ f \notin Pipes /\ dir' = dir \ {f}
      /\ res' = Answer("DELETE-FILE", <<>>, 0, IF f \in dir THEN 0 ELSE -1)
      /\ content' = content /\ desc' = desc /\ off' = off /\ t_fb' = t_fb
  BY DEF DeleteFile, Idle
<1>2. AbsContent' = AbsContent /\ AbsOff' = AbsOff
  BY <1>1, SameHonest, StoodStill
<1>3. res' = Logical!Answer("DELETE-FILE", <<>>, 0, IF f \in dir THEN 0 ELSE -1)
  BY <1>1, SameOps
<1> QED BY ONLY <1>1, <1>2, <1>3, Zenon DEF Logical!DeleteFile, AbsOff, AbsContent

(* READ-LINE of no byte is the abstract one; any other only begins. *)
LEMMA ReadLineMaps ==
    ASSUME IInv, IInv', NEW fd \in Fds, NEW max \in Counts, ReadLine(fd, max)
    PROVE  LineInv' /\ (AbsTable' = AbsTable \/ Logical!ReadLine(fd, max))
<1>1. /\ rl = NoLine /\ content' = content /\ dir' = dir /\ desc' = desc /\ off' = off /\ t_fb' = t_fb
      /\ TypeOK /\ TypeOK' /\ max \in Nat
  BY InputAssumption DEF ReadLine, Idle, IInv
<1>2. (\A g \in Fds : Honest(g)' = Honest(g)) /\ \A g \in Fds : Honest(g) \in Nat
  BY <1>1, SameHonest, HonestNat
<1>3. CASE max = 0
  <2>1. rl' = NoLine /\ res' = Answer("READ-LINE", ChopCR(<<>>), -1, 0)
    BY <1>3 DEF ReadLine, LineEnds
  <2>2. AbsContent' = AbsContent /\ AbsOff' = AbsOff
    BY <1>1, <1>2, <2>1, StoodStill
  <2>3. Upto(AbsAhead(fd), 0) = <<>> /\ UptoFirst(<<>>, {LF}) = 0
    <3>1. AbsAhead(fd) \in Seq(Byte)
      BY <1>1, IdlePlain, RestType
    <3>2. Len(Upto(AbsAhead(fd), 0)) = 0 /\ Upto(AbsAhead(fd), 0) \in Seq(Byte)
      BY <3>1, UptoProperties, LenProperties DEF Least
    <3>3. <<>> \in Seq(Byte) /\ Len(<<>>) = 0
      BY EmptySeq
    <3> QED BY <3>2, <3>3, EmptySeq, UptoFirstOfNone
  <2>4. AbsDeliver(fd, 0)
    BY <2>2 DEF AbsDeliver
  <2>5. GivesLine(fd, 0, <<>>, 0, <<>>, -1, 0)
    <3>1. 0 = (IF 0 > 0 /\ fd # 0 /\ ~desc[fd].rd THEN -200 ELSE 0)
          /\ -1 = (IF 0 = 0 \/ <<>> # <<>> THEN -1 ELSE 0)
          /\ <<>> = (IF 0 > 0 /\ <<>>[0] = LF THEN Upto(<<>>, 0 - 1) ELSE <<>>)
      OBVIOUS
    <3> QED BY <1>1, <2>1, <2>3, <2>4, <3>1, Zenon DEF GivesLine
  <2>6. Logical!ReadLine(fd, max)
    BY <1>3, <2>5, ReadLineIs, Zenon
  <2> QED BY <2>1, <2>6 DEF LineInv
<1>4. CASE max # 0
  <2>1. rl' = [fd |-> fd, max |-> max, line |-> <<>>] /\ res' = res
    BY <1>4 DEF ReadLine
  <2>2. rl' # NoLine /\ rl'.fd = fd /\ rl'.max = max /\ rl'.line = <<>> /\ Len(<<>>) = 0 /\ <<>> \in Seq(Byte)
    BY <2>1, EmptySeq, FdsAssumption DEF NoLine
  <2>3. LineMapped(fd)'
    BY <1>1, <2>2, LineMapsNext
  <2>4. AbsContent = content /\ AbsOff = [g \in Fds |-> Honest(g)]
    BY <1>1, IdlePlain DEF Plain
  <2>5. AbsContent' = content
    <3>1. \A f \in Files : <<>> \o content[f] = content[f]
      BY <1>1 DEF TypeOK
    <3>2. content \in [Files -> Seq(Byte)] /\ Pipes \subseteq Files
      BY <1>1, FilesAssumption DEF TypeOK
    <3> QED BY <1>1, <2>2, <2>3, <3>1, <3>2 DEF LineMapped
  <2>6. AbsOff' = AbsOff
    <3>1. AbsOff' = [g \in Fds |-> AbsOff'[g]]
      BY DEF AbsOff
    <3>2. AbsOff'[fd] = Honest(fd)
      BY <1>2, <2>2, <2>3 DEF LineMapped
    <3>3. \A g \in Fds \ {fd} : AbsOff'[g] = Honest(g)
      BY <1>2, <2>3 DEF LineMapped
    <3> QED BY <2>4, <3>1, <3>2, <3>3
  <2>7. LineInv'
    <3>1. Position(fd)' \in Nat
      <4>1. AbsOff'[fd] = Position(fd)'
        BY DEF AbsOff
      <4> QED BY <1>2, <2>4, <2>6, <4>1
    <3>2. Rest(fd)' = Rest(fd) /\ AbsAhead(fd)' = AbsAhead(fd)
      BY <1>1, <1>2, <2>4, <2>5, <2>6 DEF Rest, AbsAhead, Seekable
    <3>3. AbsAhead(fd)' = <<>> \o Rest(fd)'
      <4>1. Rest(fd) \in Seq(Byte) /\ AbsAhead(fd) = Rest(fd)
        BY <1>1, RestType, IdlePlain
      <4> QED BY <3>2, <4>1
    <3>4. max \in Counts \ {0} /\ 0 < max /\ NoLF(<<>>)
      BY <1>1, <1>4, <2>2 DEF NoLF
    <3> QED BY <2>2, <3>1, <3>3, <3>4 DEF LineInv
  <2> QED BY <1>1, <2>1, <2>4, <2>5, <2>6, <2>7 DEF AbsTable
<1> QED BY <1>3, <1>4

-----------------------------------------------------------------------------
LEMMA InitMaps == Init => Logical!TableInit /\ LineInv /\ SeekInv
<1> SUFFICES ASSUME Init PROVE Logical!TableInit /\ LineInv /\ SeekInv
  OBVIOUS
<1>1. IInv /\ rl = NoLine /\ t_seek0 = -1
  BY InitIInv DEF Init
<1>2. AbsContent = content /\ AbsOff = [g \in Fds |-> Honest(g)]
  BY <1>1, IdlePlain DEF IInv, Plain
<1>3. content \in InitContent /\ dir = Files /\ off = [fd \in Fds |-> 0] /\ res = Answer("boot", <<>>, 0, 0)
      /\ \E d \in Stdins : desc = [fd \in Fds |-> IF fd = 0 THEN d ELSE Closed]
  BY Zenon DEF Init, TableInit
<1>4. AbsOff = [fd \in Fds |-> 0]
  <2>1. \A g \in Fds : Honest(g) = 0
    <3>1. \A g \in Fds : HonestAt(g) /\ off[g] = 0
      BY <1>1, <1>3, HonestIs
    <3> QED BY <3>1 DEF HonestAt
  <2> QED BY <1>2, <2>1
<1>5. res = Logical!Answer("boot", <<>>, 0, 0) /\ Logical!Closed = Closed
  BY <1>3, SameOps
<1>6. Logical!Stdins = Stdins
  BY <1>5, Zenon DEF Logical!Stdins, Stdins
<1>7. \E d \in Logical!Stdins : desc = [fd \in Fds |-> IF fd = 0 THEN d ELSE Logical!Closed]
  BY <1>3, <1>5, <1>6
<1>8. AbsContent \in InitContent
  BY <1>2, <1>3
<1>9. Logical!TableInit
  BY ONLY <1>3, <1>4, <1>5, <1>7, <1>8, Zenon DEF Logical!TableInit, AbsOff, AbsContent
<1> QED BY <1>1, <1>9 DEF LineInv, SeekInv

LEMMA StillMaps ==
    ASSUME AbsTable' = AbsTable
    PROVE  UNCHANGED Logical!table
  BY Zenon DEF AbsTable, Logical!table, AbsOff, AbsContent

LEMMA NextMaps ==
    ASSUME RedirectAnyKind = FALSE, IInv, IInv', LineInv, SeekInv, [Next]_vars
    PROVE  LineInv' /\ SeekInv' /\ [Logical!Next]_(Logical!table)
<1>1. CASE Open
  <2>1. PICK f \in Files, fam \in FamsUsed : OpenFile(f, fam) /\ Idle /\ UNCHANGED <<t_fb, t_seek0, rl>>
    BY <1>1 DEF Open
  <2>2. Logical!OpenFile(f, fam) /\ SeekInv'
    BY <2>1, OpenFileMaps
  <2>3. LineInv'
    BY <2>1 DEF LineInv, Idle
  <2> QED BY <2>2, <2>3, Zenon DEF Logical!Next
<1>2. CASE Delete
  <2>1. PICK f \in Files : DeleteFile(f) /\ Idle /\ UNCHANGED <<t_fb, t_seek0, rl>>
    BY <1>2 DEF Delete
  <2>2. Logical!DeleteFile(f)
    BY <2>1, DeleteMaps
  <2>3. LineInv' /\ SeekInv'
    BY <2>1 DEF LineInv, SeekInv, Idle, DeleteFile, Seekable
  <2> QED BY <2>2, <2>3, Zenon DEF Logical!Next
<1>3. CASE LineByteRaw \/ LineByteFill \/ LineByteAhead
  <2>1. rl # NoLine /\ TypeOK
    BY <1>3 DEF LineByteRaw, LineByteFill, LineByteAhead, Idle, IInv
  <2>2. PICK fd \in Fds : fd = rl.fd
    BY <2>1 DEF TypeOK
  <2>3. Took(fd)
    BY <1>3, <2>2, RawTook, FillTook, AheadTook
  <2>4. /\ LineInv' /\ UNCHANGED <<desc, t_seek0>>
        /\ AbsTable' = AbsTable \/ \E max \in Counts : Logical!ReadLine(fd, max)
    BY <2>1, <2>2, <2>3, TookIsReadLine
  <2>5. SeekInv'
    BY <2>4 DEF SeekInv, Seekable
  <2>6. [Logical!Next]_(Logical!table)
    <3>1. CASE AbsTable' = AbsTable
      BY <3>1, StillMaps
    <3>2. CASE \E max \in Counts : Logical!ReadLine(fd, max)
      BY <3>2, Zenon DEF Logical!Next
    <3> QED BY <2>4, <3>1, <3>2
  <2> QED BY <2>4, <2>5, <2>6
<1>4. ASSUME NEW old \in Fds, NEW new \in Fds, Redirect(old, new)
      PROVE  LineInv' /\ SeekInv' /\ [Logical!Next]_(Logical!table)
  <2>1. Logical!Redirect(old, new)
    BY <1>4, RedirectMaps
  <2>2. LineInv'
    BY <1>4 DEF LineInv, Redirect, Idle
  <2>3. SeekInv'
    <3> SUFFICES ASSUME t_seek0' = 1 PROVE Seekable(0)'
      BY DEF SeekInv
    <3>1. /\ t_seek0 = 1 /\ old # 0 /\ old # new
          /\ desc' = [desc EXCEPT ![new] = desc[old], ![old] = Closed]
          /\ new = 0 => Seekable(old)
      BY <1>4 DEF Redirect
    <3>2. desc \in [Fds -> Descs] /\ 0 \in Fds
      BY FdsAssumption DEF IInv, TypeOK
    <3>3. desc'[0] = IF new = 0 THEN desc[old] ELSE desc[0]
      BY <3>1, <3>2
    <3> QED BY <3>1, <3>3 DEF SeekInv, Seekable
  <2> QED BY <2>1, <2>2, <2>3, Zenon DEF Logical!Next
<1>5. ASSUME NEW u \in Counts, Read(u)
      PROVE  LineInv' /\ SeekInv' /\ [Logical!Next]_(Logical!table)
  <2>1. Logical!Read(u) /\ SeekInv'
    BY <1>5, ReadMaps
  <2>2. LineInv'
    BY <1>5 DEF LineInv, Read, Idle
  <2> QED BY <2>1, <2>2, Zenon DEF Logical!Next
<1>6. ASSUME NEW fd \in Fds, CloseFile(fd)
      PROVE  LineInv' /\ SeekInv' /\ [Logical!Next]_(Logical!table)
  <2>1. Logical!CloseFile(fd)
    BY <1>6, CloseFileMaps
  <2>2. LineInv'
    BY <1>6 DEF LineInv, CloseFile, Idle
  <2>3. SeekInv'
    <3>1. t_seek0' = t_seek0 /\ fd # 0 /\ desc' = [desc EXCEPT ![fd] = Closed]
      BY <1>6 DEF CloseFile
    <3>2. desc \in [Fds -> Descs] /\ 0 \in Fds
      BY FdsAssumption DEF IInv, TypeOK
    <3>3. desc'[0] = desc[0]
      BY <3>1, <3>2
    <3> QED BY <3>1, <3>3 DEF SeekInv, Seekable
  <2> QED BY <2>1, <2>2, <2>3, Zenon DEF Logical!Next
<1>7. ASSUME NEW fd \in Fds, FilePosition(fd) \/ FileSize(fd)
      PROVE  LineInv' /\ SeekInv' /\ [Logical!Next]_(Logical!table)
  <2>1. Logical!FilePosition(fd) \/ Logical!FileSize(fd)
    BY <1>7, FilePositionMaps, FileSizeMaps
  <2>2. LineInv' /\ SeekInv'
    BY <1>7 DEF LineInv, SeekInv, FilePosition, FileSize, Idle, Seekable
  <2> QED BY <2>1, <2>2, Zenon DEF Logical!Next
<1>8. ASSUME NEW fd \in Fds, NEW u \in Counts, ReadLine(fd, u)
      PROVE  LineInv' /\ SeekInv' /\ [Logical!Next]_(Logical!table)
  <2>1. LineInv' /\ (AbsTable' = AbsTable \/ Logical!ReadLine(fd, u))
    BY <1>8, ReadLineMaps
  <2>2. SeekInv'
    BY <1>8 DEF ReadLine, SeekInv, Seekable
  <2>3. CASE AbsTable' = AbsTable
    BY <2>1, <2>2, <2>3, StillMaps
  <2>4. CASE Logical!ReadLine(fd, u)
    BY <2>1, <2>2, <2>4, Zenon DEF Logical!Next
  <2> QED BY <2>1, <2>3, <2>4
<1>9. ASSUME NEW fd \in Fds, NEW u \in Counts, ReadFile(fd, u)
      PROVE  LineInv' /\ SeekInv' /\ [Logical!Next]_(Logical!table)
  <2>1. Logical!ReadFile(fd, u)
    BY <1>9, ReadFileMaps
  <2>2. LineInv' /\ SeekInv'
    BY <1>9 DEF LineInv, SeekInv, ReadFile, Idle, Seekable
  <2> QED BY <2>1, <2>2, Zenon DEF Logical!Next
<1>10. ASSUME NEW fd \in Fds, NEW t \in Texts, WriteLine(fd, t) \/ WriteFile(fd, t)
       PROVE  LineInv' /\ SeekInv' /\ [Logical!Next]_(Logical!table)
  <2>1. Logical!WriteLine(fd, t) \/ Logical!WriteFile(fd, t)
    BY <1>10, WriteMaps
  <2>2. rl = NoLine /\ UNCHANGED <<desc, t_seek0, rl>>
    BY <1>10, Zenon DEF WriteLine, WriteFile, WriteText, Idle
  <2>3. LineInv' /\ SeekInv'
    BY <2>2 DEF LineInv, SeekInv, Seekable
  <2> QED BY <2>1, <2>3, Zenon DEF Logical!Next
<1>11. ASSUME NEW fd \in Fds, NEW p \in Offsets, RepositionFile(fd, p)
       PROVE  LineInv' /\ SeekInv' /\ [Logical!Next]_(Logical!table)
  <2>1. Logical!RepositionFile(fd, p)
    BY <1>11, RepositionMaps
  <2>2. LineInv' /\ SeekInv'
    BY <1>11 DEF LineInv, SeekInv, RepositionFile, Idle, Seekable
  <2> QED BY <2>1, <2>2, Zenon DEF Logical!Next
<1>12. CASE UNCHANGED vars
  <2>1. /\ UNCHANGED <<content, dir, desc, off, res, t_fb, t_seek0>> /\ rl' = rl
    BY <1>12 DEF vars
  <2>2. AbsContent' = AbsContent /\ AbsOff' = AbsOff /\ (\A fd : AbsAhead(fd)' = AbsAhead(fd))
        /\ (\A fd : Rest(fd)' = Rest(fd)) /\ (\A fd : Position(fd)' = Position(fd))
    BY <2>1 DEF AbsContent, AbsOff, AbsAhead, Rest, Position, Honest, Unread, HasSlot, SlotOf,
                LineOf, Seekable, Idle, Lseek
  <2>3. LineInv' /\ SeekInv'
    BY <2>1, <2>2 DEF LineInv, SeekInv, Seekable
  <2> QED BY <2>1, <2>2, <2>3, StillMaps DEF AbsTable
<1> QED BY <1>1, <1>2, <1>3, <1>4, <1>5, <1>6, <1>7, <1>8, <1>9, <1>10, <1>11, <1>12, Zenon DEF Next

(* Whatever READ-LINE reads ahead, and whenever it is dropped, every word   *)
(* works at the one position of its file: each byte is delivered once and   *)
(* in order, also where words are mixed, and a pipe loses none to a word    *)
(* that did not deliver it (t_fslot, t_fgetc, t_fdrop and the words of      *)
(* vm-lab.c), if a stdin READ found seekable is replaced by a seekable one. *)
THEOREM OnePositionAlways ==
    ASSUME RedirectAnyKind = FALSE
    PROVE  Spec => OnePosition
<1>1. Init => Logical!TableInit /\ LineInv /\ SeekInv
  BY InitMaps
<1>2. IInv /\ IInv' /\ LineInv /\ SeekInv /\ [Next]_vars =>
        LineInv' /\ SeekInv' /\ [Logical!Next]_(Logical!table)
  BY NextMaps
<1> QED BY <1>1, <1>2, Inductive, PTL DEF Spec, OnePosition, Logical!Spec
=============================================================================

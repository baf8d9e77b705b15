---------------------------- MODULE Image_proofs ----------------------------
(***************************************************************************)
(* What led to something of the dump leads to it in the image, and a name  *)
(* finds the word it found: whatever the dump, the design's options, the   *)
(* hash and the reach of a link.                                           *)
(***************************************************************************)
EXTENDS Image, FiniteSetTheorems, WellFoundedInduction, TLAPS

DictSpec == DictInit /\ [][DictNext]_dictVars

Lt == {p \in Nat \X Nat : p[1] < p[2]}

LEMMA LeastOf ==
    ASSUME NEW T \in SUBSET Nat, T # {}
    PROVE  \E x \in T : \A y \in T : x <= y
<1>1. Lt = OpToRel(<, Nat)
  BY Zenon DEF Lt, OpToRel
<1>2. IsWellFoundedOn(Lt, Nat)
  BY <1>1, NatLessThanWellFounded, Zenon
<1>3. PICK x \in T : \A y \in T : ~(<<y, x>> \in Lt)
  BY <1>2, WFMin, Zenon
<1>4. \A y \in T : ~(y < x)
  BY <1>3 DEF Lt
<1> QED
  BY <1>4

LEMMA MaxIs ==
    ASSUME NEW n \in Nat, NEW K \in SUBSET (1 .. n), K # {}
    PROVE  Max(K) \in K /\ Max(K) \in Nat /\ \A k \in K : k <= Max(K)
<1> DEFINE T == {n - k : k \in K}
<1>1. \A k \in K : n - k \in Nat /\ k \in Nat
  OBVIOUS
<1>2. PICK d \in T : \A e \in T : d <= e
  <2>1. T \in SUBSET Nat /\ T # {}
    BY <1>1
  <2> QED
    BY <2>1, LeastOf
<1>3. PICK x \in K : d = n - x
  OBVIOUS
<1>4. \A k \in K : x >= k
  <2>1. TAKE k \in K
  <2>2. n - x <= n - k
    BY <1>2, <1>3
  <2> QED
    BY <1>1, <2>2
<1>5. Max(K) \in K /\ \A k \in K : Max(K) >= k
  BY <1>4, Zenon DEF Max
<1> QED
  BY <1>1, <1>5

LEMMA MinIs ==
    ASSUME NEW K \in SUBSET Nat, K # {}
    PROVE  Min(K) \in K /\ \A k \in K : Min(K) <= k
<1>1. PICK x \in K : \A k \in K : x <= k
  BY LeastOf
<1>2. \A k \in K : x =< k
  BY <1>1
<1> QED
  BY <1>2, Zenon DEF Min

-----------------------------------------------------------------------------
(* ---- Cells ---- *)

Up(n, o) == ((o + n - 1) \div n) * n

LEMMA UpIs ==
    ASSUME NEW n \in {4, 8}, NEW o \in Nat
    PROVE  Up(n, o) \in Nat /\ o <= Up(n, o) /\ Up(n, o) < o + n /\ Up(n, o) % n = 0
<1>1. CASE n = 4
  BY <1>1 DEF Up
<1>2. CASE n = 8
  BY <1>2 DEF Up
<1> QED
  BY <1>1, <1>2

LEMMA CellIs == CELL \in {4, 8} /\ CELL \in Nat /\ CELL > 0
  BY CellAssumption

LEMMA UpToCellIs ==
    ASSUME NEW o \in Nat
    PROVE  UpToCell(o) \in Nat /\ o <= UpToCell(o) /\ UpToCell(o) % CELL = 0
  BY CellAssumption, UpIs DEF UpToCell, Up

LEMMA UpToCellOn ==
    ASSUME NEW a \in Nat, NEW o \in Nat, a % CELL = 0
    PROVE  UpToCell(a + o) = a + UpToCell(o)
<1>1. CASE CELL = 4
  BY <1>1 DEF UpToCell
<1>2. CASE CELL = 8
  BY <1>2 DEF UpToCell
<1> QED
  BY <1>1, <1>2, CellAssumption

LEMMA SumOfCells ==
    ASSUME NEW a \in Nat, NEW b \in Nat, a % CELL = 0, b % CELL = 0
    PROVE  (a + b) % CELL = 0
<1>1. CASE CELL = 4
  BY <1>1
<1>2. CASE CELL = 8
  BY <1>2
<1> QED
  BY <1>1, <1>2, CellAssumption

LEMMA TimesCell ==
    ASSUME NEW a \in Nat
    PROVE  a * CELL \in Nat /\ (a * CELL) % CELL = 0
<1>1. CASE CELL = 4
  BY <1>1
<1>2. CASE CELL = 8
  BY <1>2
<1> QED
  BY <1>1, <1>2, CellAssumption

-----------------------------------------------------------------------------
(* ---- The dump ---- *)

LEMMA IdsAre ==
    ASSUME lay \in Layouts
    PROVE  /\ Len(lay.dump) \in Nat /\ Ids = 1 .. Len(lay.dump) /\ IsFiniteSet(Ids)
           /\ \A w \in Ids : w \in Nat /\ w # 0
<1>1. lay.dump \in Seq(Range(lay.dump))
  BY LayoutsAssumption DEF DumpOK
<1>2. Len(lay.dump) \in Nat /\ Ids = 1 .. Len(lay.dump)
  BY <1>1 DEF Ids
<1> QED
  BY <1>2, FS_Interval

LEMMA WordIs ==
    ASSUME lay \in Layouts, NEW w \in Ids
    PROVE  /\ W(w).name \in DOMAIN NameLen /\ NameLen[W(w).name] \in Nat /\ Hash[W(w).name] \in Nat
           /\ W(w).kind \in {"code", "data"} /\ W(w).size \in Nat \ {0} /\ W(w).align \in BOOLEAN
           /\ Len(W(w).cells) \in Nat /\ DOMAIN W(w).cells = 1 .. Len(W(w).cells)
           /\ Len(W(w).tail) \in Nat /\ DOMAIN W(w).tail = 1 .. Len(W(w).tail)
           /\ (W(w).op \/ W(w).tail # <<>>) => W(w).kind = "code"
           /\ W(w).name \in {"FORTH-WORDLIST", "DP", "BUILTIN-LIST"} =>
                 /\ W(w).kind = "data" /\ W(w).behind = 0 /\ Len(W(w).cells) > 0
                 /\ \A u \in Ids : W(u).name = W(w).name => u = w
<1>1. WordOK(lay.dump, w)
  BY LayoutsAssumption DEF DumpOK, Ids
<1>2. W(w) = lay.dump[w] /\ \A u \in Ids : W(u) = lay.dump[u]
  BY DEF W
<1>3. /\ W(w).name \in DOMAIN NameLen /\ W(w).kind \in {"code", "data"} /\ W(w).size \in Nat \ {0}
      /\ W(w).align \in BOOLEAN
      /\ W(w).cells \in Seq(Range(W(w).cells)) /\ W(w).tail \in Seq(Range(W(w).tail))
      /\ (W(w).op \/ W(w).tail # <<>>) => W(w).kind = "code"
      /\ W(w).name \in {"FORTH-WORDLIST", "DP", "BUILTIN-LIST"} =>
            /\ W(w).kind = "data" /\ W(w).behind = 0 /\ W(w).cells # <<>>
            /\ \A u \in Ids \ {w} : W(u).name # W(w).name
  BY <1>1, <1>2 DEF WordOK, Ids
<1>4. NameLen[W(w).name] \in Nat /\ Hash[W(w).name] \in Nat
  BY <1>3, ImageAssumption
<1>5. Len(W(w).cells) \in Nat /\ DOMAIN W(w).cells = 1 .. Len(W(w).cells) /\ (W(w).cells # <<>> => Len(W(w).cells) > 0)
  BY <1>3
<1>6. Len(W(w).tail) \in Nat /\ DOMAIN W(w).tail = 1 .. Len(W(w).tail)
  BY <1>3
<1> QED
  BY <1>3, <1>4, <1>5, <1>6

LEMMA RefIs ==
    ASSUME lay \in Layouts, NEW w \in Ids, NEW j \in DOMAIN W(w).refs
    PROVE  /\ W(w).refs[j].k \in {"C", "XT", "LIT", "VAR"} => W(w).refs[j].to \in Ids
           /\ W(w).refs[j].k = "VAR" => W(w).refs[j].to < w /\ W(W(w).refs[j].to).kind = "data"
<1>1. WordOK(lay.dump, w)
  BY LayoutsAssumption DEF DumpOK, Ids
<1>2. W(w).refs[j] \in Range(lay.dump[w].refs)
  BY DEF W, Range
<1>3. RefOK(lay.dump, w, W(w).refs[j])
  BY <1>1, <1>2 DEF WordOK
<1> QED
  BY <1>3 DEF RefOK, W, Ids

LEMMA CellsAre ==
    ASSUME lay \in Layouts, NEW w \in Ids, NEW j \in DOMAIN W(w).cells
    PROVE  CellOK(lay.dump, w, j)
<1>1. WordOK(lay.dump, w)
  BY LayoutsAssumption DEF DumpOK, Ids
<1> QED
  BY <1>1 DEF WordOK, W

LEMMA DesignIs ==
    ASSUME lay \in Layouts
    PROVE  /\ G.bytehdr \in BOOLEAN /\ G.tag \in BOOLEAN /\ G.scale \in {1, 2, 4, 8} /\ G.threads \in Nat
           /\ G.varslot \in BOOLEAN
           /\ G.bytehdr => \A w \in Ids : W(w).tail = <<>>
  BY LayoutsAssumption DEF DesignOK, G, Ids, W

(* A compiler's word is code, and has one X8's body or its own.             *)
LEMMA OverlayIs ==
    ASSUME lay \in Layouts, NEW u \in Ids, NEW w \in Ids,
           W(u).name \in DOMAIN Suffixed, W(w).name = Suffixed[W(u).name]
    PROVE  W(w).kind = "code"
<1>1. DumpOK(lay.dump)
  BY LayoutsAssumption
<1> QED
  BY <1>1 DEF DumpOK, Ids, W

(* An X8 is older than the dump tool.                                       *)
LEMMA ToolIsLast ==
    ASSUME lay \in Layouts, NEW u \in Ids, NEW n \in Ids, W(u).name \in DOMAIN Suffixed, W(n).name = "NFA"
    PROVE  u < n
<1>1. DumpOK(lay.dump)
  BY LayoutsAssumption
<1> QED
  BY <1>1 DEF DumpOK, Ids, W

LEMMA NewestIs ==
    ASSUME lay \in Layouts, NEW ws \in SUBSET Ids, NEW n
    PROVE  /\ Newest(n, ws) \in Nat
           /\ Newest(n, ws) = 0 => \A w \in ws : W(w).name # n
           /\ Newest(n, ws) # 0 => /\ Newest(n, ws) \in ws /\ W(Newest(n, ws)).name = n
                                   /\ \A w \in ws : W(w).name = n => w <= Newest(n, ws)
<1> DEFINE so == {w \in ws : W(w).name = n}
<1>1. Newest(n, ws) = IF so = {} THEN 0 ELSE Max(so)
  BY DEF Newest
<1>2. CASE so = {}
  BY <1>1, <1>2
<1>3. CASE so # {}
  <2>1. Len(lay.dump) \in Nat /\ so \in SUBSET (1 .. Len(lay.dump))
    BY IdsAre
  <2>2. Max(so) \in so /\ Max(so) \in Nat /\ \A k \in so : k <= Max(so)
    <3> HIDE DEF so
    <3> QED
      BY <1>3, <2>1, MaxIs
  <2>3. Max(so) # 0
    BY <2>2, IdsAre
  <2> QED
    BY <1>1, <1>3, <2>2, <2>3
<1> QED
  BY <1>2, <1>3

LEMMA WordListIs ==
    ASSUME lay \in Layouts
    PROVE  /\ WordList \in Ids /\ W(WordList).name = "FORTH-WORDLIST" /\ W(WordList).kind = "data"
           /\ \A w \in Ids : W(w).name = "FORTH-WORDLIST" => w = WordList
           /\ Threads \in Nat \ {0}
<1>1. PICK w \in Ids : W(w).name = "FORTH-WORDLIST" /\ Len(W(w).cells) > 1
  BY LayoutsAssumption DEF DumpOK, Ids, W
<1>2. WordList = w
  <2>1. WordList # 0 => WordList \in Ids /\ W(WordList).name = "FORTH-WORDLIST"
    BY NewestIs DEF WordList
  <2>2. WordList # 0
    BY <1>1, NewestIs DEF WordList
  <2> QED
    BY <1>1, <2>1, <2>2, WordIs
<1>3. Threads \in Nat \ {0}
  <2>1. Len(W(WordList).cells) \in Nat /\ Len(W(WordList).cells) > 1 /\ G.threads \in Nat
    BY <1>1, <1>2, DesignIs, WordIs
  <2>2. PICK len, t : len = Len(W(WordList).cells) /\ t = G.threads
    OBVIOUS
  <2>3. Threads = IF t = 0 THEN len - 1 ELSE t
    BY <2>2 DEF Threads
  <2>4. len \in Nat /\ len > 1 /\ t \in Nat
    BY <2>1, <2>2
  <2> QED
    BY <2>3, <2>4
<1> QED
  BY <1>1, <1>2, <1>3, WordIs

LEMMA HashedIs ==
    ASSUME NEW h \in Nat, NEW t \in Nat \ {0}
    PROVE  h % t \in 0 .. t - 1
  OBVIOUS

LEMMA ThreadIs ==
    ASSUME lay \in Layouts, NEW w \in Ids
    PROVE  Thread(w) \in 0 .. Threads - 1
  BY WordIs, WordListIs, HashedIs DEF Thread
-----------------------------------------------------------------------------
(* ---- What holds as the dictionary is laid out ---- *)

Steps == {"swap", "x8", "tool", "bss", "ops", "inline", "place", "write", "done", "refused", "died"}
Early == {"swap", "x8", "tool", "bss", "ops", "inline"}

BodyOf(b) == [kind |-> b.kind, size |-> b.size, align |-> b.align, refs |-> b.refs]

(* A body is that of its origin, calls of an X8 sent to its X; or it is a   *)
(* buffer's, or an opcode's.                                               *)
SentTo(w, r, now) ==
    now = r \/ (r.k = "C" /\ r.to \in DOMAIN swapped /\ ~Defers(w, r.to) /\ now = Led("C", swapped[r.to]))
FromOrigin(w) ==
    /\ text[w].kind = W(origin[w]).kind /\ text[w].size = W(origin[w]).size /\ text[w].align = W(origin[w]).align
    /\ DOMAIN text[w].refs = DOMAIN W(origin[w]).refs
    /\ \A j \in DOMAIN text[w].refs : SentTo(w, W(origin[w]).refs[j], text[w].refs[j])
TextFine ==
    /\ step \in {"swap", "x8"} => \A w \in Ids : text[w] = BodyOf(W(origin[w]))
    /\ \A w \in Ids : \/ w \notin Buffers /\ FromOrigin(w)
                      \/ w \notin Buffers /\ W(w).kind = "code" /\ text[w] = Opcode
                      \/ w \in Buffers /\ W(w).kind = "data" /\ \E s \in Ids : text[w] = Buffer(w, s)

(* Of the X8s whose bodies went into a word it has the newest's.            *)
SwapFine ==
    /\ step = "swap" => swapped = <<>> /\ \A w \in Ids : origin[w] = w
    /\ \A x \in DOMAIN swapped :
          /\ x \in Ids /\ W(x).kind = "code" /\ W(x).name \in DOMAIN Suffixed
          /\ swapped[x] \in Ids /\ W(swapped[x]).name = Suffixed[W(x).name]
          /\ x <= origin[swapped[x]] /\ origin[swapped[x]] \in DOMAIN swapped /\ swapped[origin[swapped[x]]] = swapped[x]
    /\ \A w \in Ids : origin[w] = w \/ (origin[w] \in DOMAIN swapped /\ swapped[origin[w]] = w)

(* Who is left out: an X8, one of the dump tool, code that a newer shadows; *)
(* and of data only what is newer than all that stays.                     *)
WordsFine ==
    /\ words \subseteq Ids
    /\ \A w \in Ids \ words : \/ w \in DOMAIN swapped \/ W(w).name \in DUMPTOOL
                              \/ W(w).kind = "code" /\ \E u \in Ids : u > w /\ W(u).name = W(w).name
    /\ \A w \in Ids \ words : W(w).kind = "data" =>
          \E n \in Ids : W(n).name = "NFA" /\ n <= w /\ \A u \in words : u < n
DropFine ==
    /\ step \in {"swap", "x8"} => dropped = <<>> /\ words = Ids
    /\ \A x \in DOMAIN dropped : x \in DOMAIN swapped /\ x \notin words /\ dropped[x] = swapped[x]
    /\ \A w \in words : \A j \in DOMAIN text[w].refs :
          IsCode(w) /\ text[w].refs[j].k = "XT" /\ text[w].refs[j].to \in DOMAIN dropped
             => ~Defers(w, text[w].refs[j].to)
BssFine ==
    /\ step \in {"swap", "x8", "tool", "bss"} => bss = <<>>
    /\ step \notin {"swap", "x8", "tool", "bss"} => DOMAIN bss = 1 .. 3
    /\ \A k \in DOMAIN bss : bss[k] = 0 \/ (bss[k] \in words /\ W(bss[k]).kind = "data" /\ W(bss[k]).name = BSS_WORDS[k])
MoveFine ==
    /\ step \in Early => moved = {}
    /\ moved \subseteq words
    /\ \A w \in moved : PrimsEnd # 0 /\ PrimsEnd < w /\ Named(W(w).name) = 1

(* Words are apart, in their order; a parameter field is on a cell.         *)
LinkAt(w) == place[w].link
NfaAt(w) == place[w].nfa
PutAt(w) == place[w].body
PlacedWell(w) ==
    /\ LinkAt(w) \in Nat /\ NfaAt(w) \in Nat /\ PutAt(w) \in Nat
    /\ LinkAt(w) <= NfaAt(w) /\ NfaAt(w) <= PutAt(w) /\ PutAt(w) + BodyBytes(w) <= off
    /\ Headless(w) => LinkAt(w) = NfaAt(w)
    /\ ~Headless(w) => LinkAt(w) < NfaAt(w)
    /\ ~IsCode(w) \/ ~G.bytehdr => PutAt(w) % CELL = 0
PlaceFine ==
    /\ step \in Early => place = <<>>
    /\ step \in {"write", "done", "refused", "died"} => DOMAIN place = words
    /\ off \in Nat /\ (~G.bytehdr => off % CELL = 0)
    /\ DOMAIN place \subseteq words
    /\ \A u \in DOMAIN place : PlacedWell(u) /\ LinkFits(u)
    /\ \A u \in DOMAIN place : \A w \in words \ DOMAIN place : Precedes(u, w)
    /\ \A u, w \in DOMAIN place : Precedes(u, w) => PutAt(u) + BodyBytes(u) <= LinkAt(w)
DoneFine == step = "done" => ~Dies /\ ~Refuses /\ image = [w \in words |-> Emits(w)]

Tables == DOMAIN text = Ids /\ DOMAIN origin = Ids
LayFine == lay \in Layouts /\ step \in Steps /\ Tables
ImageInv ==
    LayFine /\ TextFine /\ SwapFine /\ WordsFine /\ DropFine /\ BssFine /\ MoveFine /\ PlaceFine /\ DoneFine

LEMMA Starts == DictInit => ImageInv
<1>1. SUFFICES ASSUME DictInit PROVE ImageInv
  OBVIOUS
<1>2. /\ lay \in Layouts /\ step = "swap" /\ DOMAIN text = Ids /\ DOMAIN origin = Ids
      /\ \A w \in Ids : origin[w] = w /\ text[w] = BodyOf(W(w))
      /\ swapped = <<>> /\ dropped = <<>> /\ bss = <<>> /\ moved = {} /\ words = Ids /\ place = <<>>
      /\ off = Prologue
  BY <1>1 DEF DictInit, Ids, W, BodyOf
<1>3. LayFine
  BY <1>2 DEF LayFine, Tables, Steps
<1>4. Buffers = {}
  BY <1>2 DEF Buffers, Range
<1>5. TextFine
  <2>1. ASSUME NEW w \in Ids PROVE FromOrigin(w)
    BY <1>2 DEF FromOrigin, SentTo, BodyOf
  <2> QED
    BY <1>2, <1>4, <2>1 DEF TextFine
<1>6. SwapFine
  BY <1>2 DEF SwapFine
<1>7. WordsFine /\ DropFine /\ BssFine
  BY <1>2 DEF WordsFine, DropFine, BssFine
<1>8. MoveFine
  BY <1>2 DEF MoveFine, Early
<1>9. PlaceFine
  BY <1>2, ImageAssumption DEF PlaceFine, Early
<1>10. DoneFine
  BY <1>2 DEF DoneFine
<1> QED
  BY <1>3, <1>5, <1>6, <1>7, <1>8, <1>9, <1>10 DEF ImageInv

-----------------------------------------------------------------------------
(* ---- Each section keeps it ---- *)

LEMMA LayKept ==
    ASSUME lay' = lay
    PROVE  Ids' = Ids /\ G' = G /\ WordList' = WordList /\ \A w : W(w)' = W(w)
  BY DEF Ids, G, W, WordList, Newest

LEMMA PlaceEarly ==
    ASSUME PlaceFine, step \in Early, lay' = lay, UNCHANGED unplaced, step' \in Early \cup {"place"}
    PROVE  PlaceFine'
<1>1. place' = <<>> /\ off' = off /\ off \in Nat /\ (~G.bytehdr => off % CELL = 0) /\ G' = G
  BY LayKept DEF PlaceFine, unplaced
<1>2. step' \notin {"write", "done", "refused", "died"}
  BY DEF Early
<1> QED
  BY <1>1, <1>2 DEF PlaceFine

LEMMA MoveEarly ==
    ASSUME MoveFine, step \in Early, moved' = moved, step' \in Early
    PROVE  MoveFine'
  BY DEF MoveFine

LEMMA NotDone ==
    ASSUME step' # "done"
    PROVE  DoneFine'
  BY DEF DoneFine

(* A word X8s' bodies go into, and the newest of them.                      *)
IntoOf(w) == Newest(Suffixed[W(w).name], Ids)
Froms == {w \in Ids : G.swap /\ W(w).name \in DOMAIN Suffixed /\ IntoOf(w) # 0 /\ W(w).kind = "code"}
By(x) == {w \in Froms : IntoOf(w) = x}

LEMMA SwapKeeps == ASSUME ImageInv, SwapBodies PROVE ImageInv'
<1>0. /\ LayFine /\ TextFine /\ SwapFine /\ WordsFine /\ DropFine /\ BssFine /\ MoveFine /\ PlaceFine
      /\ lay \in Layouts /\ step = "swap" /\ DOMAIN text = Ids
  BY DEF ImageInv, LayFine, Tables, SwapBodies
<1>1. /\ step' = "x8" /\ lay' = lay /\ dropped' = dropped /\ words' = words /\ moved' = moved /\ bss' = bss
      /\ UNCHANGED unplaced
      /\ swapped' = [w \in Froms |-> IntoOf(w)]
      /\ origin' = [w \in Ids |-> IF By(w) = {} THEN w ELSE Max(By(w))]
      /\ text' = [w \in Ids |-> text[origin'[w]]]
  BY DEF SwapBodies, Froms, By, IntoOf
<1>2. Ids' = Ids /\ G' = G /\ \A w : W(w)' = W(w)
  BY <1>1, LayKept
<1>3. words = Ids /\ dropped = <<>> /\ bss = <<>> /\ \A w \in Ids : text[w] = BodyOf(W(w))
  BY <1>0 DEF DropFine, BssFine, TextFine, SwapFine
<1>4. \A x \in Froms : /\ x \in Ids /\ W(x).kind = "code" /\ W(x).name \in DOMAIN Suffixed
                       /\ IntoOf(x) \in Ids /\ W(IntoOf(x)).name = Suffixed[W(x).name]
  BY <1>0, NewestIs DEF Froms, IntoOf
<1>5. \A w \in Ids : By(w) # {} => Max(By(w)) \in By(w) /\ \A x \in By(w) : x <= Max(By(w))
  <2>1. TAKE w \in Ids
  <2>2. By(w) \in SUBSET (1 .. Len(lay.dump)) /\ Len(lay.dump) \in Nat
    BY <1>0, IdsAre DEF By, Froms
  <2> QED
    BY <2>2, MaxIs
<1>6. \A w \in Ids : origin'[w] \in Ids /\ (origin'[w] = w \/ (origin'[w] \in Froms /\ IntoOf(origin'[w]) = w))
  BY <1>1, <1>4, <1>5 DEF By
<1>7. \A x \in Froms : x <= origin'[IntoOf(x)] /\ origin'[IntoOf(x)] \in Froms /\ IntoOf(origin'[IntoOf(x)]) = IntoOf(x)
  <2>1. TAKE x \in Froms
  <2>2. IntoOf(x) \in Ids /\ x \in By(IntoOf(x))
    BY <1>4 DEF By
  <2>3. origin'[IntoOf(x)] = Max(By(IntoOf(x)))
    BY <1>1, <2>2
  <2> QED
    BY <1>5, <2>2, <2>3 DEF By
<1>8. DOMAIN swapped' = Froms /\ \A x \in Froms : swapped'[x] = IntoOf(x)
  BY <1>1
<1>9. SwapFine'
  <2>1. \A x \in Froms : swapped'[x] = IntoOf(x) /\ W(swapped[x])' = W(IntoOf(x))
    BY <1>1, <1>8 DEF W
  <2>2. \A x \in DOMAIN swapped' :
          /\ x \in Ids /\ W(x).kind = "code" /\ W(x).name \in DOMAIN Suffixed
          /\ swapped'[x] \in Ids /\ W(swapped[x])'.name = Suffixed[W(x).name]
          /\ x <= origin'[swapped'[x]] /\ origin'[swapped'[x]] \in DOMAIN swapped'
          /\ swapped'[origin'[swapped'[x]]] = swapped'[x]
    BY <1>4, <1>7, <1>8, <2>1
  <2>3. \A w \in Ids : origin'[w] = w \/ (origin'[w] \in DOMAIN swapped' /\ swapped'[origin'[w]] = w)
    BY <1>6, <1>8
  <2> QED
    BY <1>1, <1>2, <2>2, <2>3 DEF SwapFine
<1>10. \A w \in Ids : text'[w] = BodyOf(W(origin'[w]))
  BY <1>1, <1>3, <1>6
<1>11. \A w : W(origin[w])' = W(origin'[w])
  BY <1>1 DEF W
<1>12. Buffers' = {}
  BY <1>1, <1>3 DEF Buffers, Range
<1>13. TextFine'
  <2>1. ASSUME NEW w \in Ids PROVE FromOrigin(w)'
    <3>1. text'[w] = BodyOf(W(origin[w])')
      BY <1>10, <1>11
    <3> QED
      BY <3>1 DEF FromOrigin, SentTo, BodyOf
  <2>2. \A w \in Ids : text'[w] = BodyOf(W(origin[w])')
    BY <1>10, <1>11
  <2> QED
    BY <1>2, <1>12, <2>1, <2>2 DEF TextFine, BodyOf
<1>14. LayFine' /\ WordsFine' /\ DropFine' /\ BssFine'
  <2>1. LayFine'
    BY <1>0, <1>1, <1>2 DEF LayFine, Tables, Steps
  <2>2. WordsFine' /\ DropFine' /\ BssFine'
    BY <1>1, <1>2, <1>3 DEF WordsFine, DropFine, BssFine
  <2> QED
    BY <2>1, <2>2
<1>15. MoveFine' /\ PlaceFine' /\ DoneFine'
  BY <1>0, <1>1, MoveEarly, PlaceEarly, NotDone DEF Early
<1> QED
  BY <1>9, <1>13, <1>14, <1>15 DEF ImageInv

LEMMA Referred ==
    ASSUME NEW ws, NEW body, NEW skip, NEW w \in ws, body[w].kind = "code", NEW j \in DOMAIN body[w].refs,
           \/ body[w].refs[j].k = "C"
           \/ body[w].refs[j].k = "XT" /\ (body[w].refs[j].to \notin skip \/ Defers(w, body[w].refs[j].to))
    PROVE  body[w].refs[j].to \in RefsOf(ws, body, skip)
<1>1. body[w].refs[j] \in Range(body[w].refs)
  BY DEF Range
<1>2. PICK r : r = body[w].refs[j]
  OBVIOUS
<1>3. r \in {x \in Range(body[w].refs) :
                x.k = "C" \/ (x.k = "XT" /\ (x.to \notin skip \/ Defers(w, x.to)))}
  BY <1>1, <1>2
<1>4. r.to \in RefsOf(ws, body, skip)
  BY <1>3, Zenon DEF RefsOf
<1> QED
  BY <1>2, <1>4

LEMMA RefsGrow ==
    ASSUME NEW ws, NEW vs, NEW body, NEW skip, ws \subseteq vs
    PROVE  RefsOf(ws, body, skip) \subseteq RefsOf(vs, body, skip)
  BY Zenon DEF RefsOf

(* Nothing left refers to one that goes.                                    *)
LEMMA NothingStillCalled ==
    ASSUME NEW body
    PROVE  /\ StillOut(body) \subseteq DOMAIN swapped
           /\ StillOut(body) \cap RefsOf(words \ StillOut(body), body, DOMAIN swapped) = {}
<1>1. SUFFICES ASSUME NEW x \in StillOut(body), x \in RefsOf(words \ StillOut(body), body, DOMAIN swapped)
               PROVE  FALSE
  BY Zenon DEF StillOut
<1>2. PICK out \in SUBSET DOMAIN swapped : x \in out /\ out \cap RefsOf(words \ out, body, DOMAIN swapped) = {}
  BY <1>1, Zenon DEF StillOut
<1>3. words \ StillOut(body) \subseteq words \ out
  BY <1>2, Zenon DEF StillOut
<1>4. x \in RefsOf(words \ out, body, DOMAIN swapped)
  BY <1>1, <1>3, RefsGrow, Zenon
<1> QED
  BY <1>2, <1>4

LEMMA DefersKept ==
    ASSUME UNCHANGED <<lay, origin, swapped>>
    PROVE  \A u, t : Defers(u, t)' = Defers(u, t)
  BY DEF Defers, W

LEMMA FromKept ==
    ASSUME UNCHANGED <<lay, origin, swapped>>, NEW w \in Ids, text'[w] = text[w], FromOrigin(w)
    PROVE  FromOrigin(w)'
<1>1. \A u, t : Defers(u, t)' = Defers(u, t)
  BY DefersKept
<1>2. W(origin[w])' = W(origin[w]) /\ text'[w] = text[w] /\ swapped' = swapped
  BY DEF W
<1>3. \A r, now : SentTo(w, r, now)' = SentTo(w, r, now)
  BY <1>1, <1>2 DEF SentTo
<1> QED
  BY <1>2, <1>3 DEF FromOrigin

LEMMA SwapFineKept ==
    ASSUME SwapFine, UNCHANGED <<lay, origin, swapped>>, step' = "swap" => step = "swap"
    PROVE  SwapFine'
<1>1. /\ Ids' = Ids /\ origin' = origin /\ swapped' = swapped /\ (\A w : W(w)' = W(w))
      /\ \A x : W(swapped[x])' = W(swapped[x])
  BY LayKept DEF W
<1> QED
  BY <1>1 DEF SwapFine

LEMMA DropX8Keeps == ASSUME ImageInv, DropX8 PROVE ImageInv'
<1>0. /\ LayFine /\ TextFine /\ SwapFine /\ WordsFine /\ DropFine /\ BssFine /\ MoveFine /\ PlaceFine
      /\ lay \in Layouts /\ step = "x8" /\ DOMAIN text = Ids
  BY DEF ImageInv, LayFine, Tables, DropX8
<1>1. /\ step' = "tool" /\ lay' = lay /\ origin' = origin /\ swapped' = swapped /\ moved' = moved /\ bss' = bss
      /\ UNCHANGED unplaced
  BY DEF DropX8
<1>2. Ids' = Ids /\ G' = G /\ (\A w : W(w)' = W(w)) /\ \A u, t : Defers(u, t)' = Defers(u, t)
  BY <1>1, LayKept, DefersKept
<1>3. words = Ids /\ dropped = <<>> /\ bss = <<>> /\ \A w \in Ids : text[w] = BodyOf(W(origin[w])) /\ FromOrigin(w)
  <2>1. words = Ids /\ dropped = <<>> /\ bss = <<>> /\ \A w \in Ids : text[w] = BodyOf(W(origin[w]))
    BY <1>0 DEF DropFine, BssFine, TextFine
  <2> QED
    BY <2>1 DEF FromOrigin, SentTo, BodyOf
<1>4. Buffers' = {}
  BY <1>1, <1>3 DEF Buffers, Range
<1>5. SwapFine' /\ BssFine' /\ MoveFine' /\ PlaceFine' /\ DoneFine'
  <2>1. BssFine'
    BY <1>1, <1>3 DEF BssFine
  <2> QED
    BY <1>0, <1>1, <2>1, SwapFineKept, MoveEarly, PlaceEarly, NotDone DEF Early
<1>6. CASE ~(G.lean /\ DOMAIN swapped # {})
  <2>1. text' = text /\ dropped' = dropped /\ words' = words
    BY <1>6 DEF DropX8
  <2>2. LayFine'
    BY <1>0, <1>1, <1>2, <2>1 DEF LayFine, Tables, Steps
  <2>3. \A w \in Ids : FromOrigin(w)'
    BY <1>1, <1>3, <2>1, FromKept
  <2>4. TextFine'
    BY <1>1, <1>2, <1>4, <2>3 DEF TextFine
  <2>5. WordsFine' /\ DropFine'
    BY <1>1, <1>2, <1>3, <2>1 DEF WordsFine, DropFine
  <2> QED
    BY <1>5, <2>2, <2>4, <2>5 DEF ImageInv
<1>7. CASE G.lean /\ DOMAIN swapped # {}
  <2>1. /\ text' = [w \in Ids |-> IF IsCode(w) THEN [text[w] EXCEPT !.refs = Redirected(w)] ELSE text[w]]
        /\ dropped' = [w \in StillOut(text') |-> swapped[w]]
        /\ words' = words \ DOMAIN dropped'
    BY <1>7 DEF DropX8
  <2>2. PICK S : S = StillOut(text')
    OBVIOUS
  <2>3. S \subseteq DOMAIN swapped /\ S \cap RefsOf(words \ S, text', DOMAIN swapped) = {}
    BY <2>2, NothingStillCalled
  <2>4. DOMAIN dropped' = S /\ words' = words \ S /\ \A x \in S : dropped'[x] = swapped[x]
    BY <2>1, <2>2
  <2>5. LayFine'
    BY <1>0, <1>1, <1>2, <2>1 DEF LayFine, Tables, Steps
  <2>6. ASSUME NEW w \in Ids PROVE FromOrigin(w)'
    <3>1. CASE ~IsCode(w)
      BY <1>1, <1>3, <2>1, <3>1, FromKept
    <3>2. CASE IsCode(w)
      <4>1. text'[w] = [BodyOf(W(origin[w])) EXCEPT !.refs = Redirected(w)]
        BY <1>3, <2>1, <3>2
      <4>2. /\ text'[w].kind = W(origin[w]).kind /\ text'[w].size = W(origin[w]).size
            /\ text'[w].align = W(origin[w]).align /\ text'[w].refs = Redirected(w)
        BY <4>1 DEF BodyOf
      <4>3. text[w].refs = W(origin[w]).refs
        <5>1. PICK b : b = W(origin[w])
          OBVIOUS
        <5>2. text[w] = BodyOf(b)
          BY <1>3, <5>1
        <5> QED
          BY <5>1, <5>2 DEF BodyOf
      <4>4. DOMAIN Redirected(w) = DOMAIN W(origin[w]).refs
        BY <4>3 DEF Redirected
      <4>5. ASSUME NEW j \in DOMAIN Redirected(w)
            PROVE  SentTo(w, W(origin[w]).refs[j], Redirected(w)[j])
        BY <4>3, <4>4 DEF Redirected, SentTo
      <4>6. \A r, now : SentTo(w, r, now)' = SentTo(w, r, now)
        BY <1>1, <1>2 DEF SentTo
      <4>7. W(origin[w])' = W(origin[w])
        BY <1>1 DEF W
      <4> QED
        BY <4>2, <4>4, <4>5, <4>6, <4>7 DEF FromOrigin
    <3> QED
      BY <3>1, <3>2
  <2>7. TextFine'
    BY <1>1, <1>2, <1>4, <2>6 DEF TextFine
  <2>8. WordsFine'
    <3>1. \A x \in S : x \in DOMAIN swapped /\ W(x).kind = "code"
      BY <1>0, <2>3 DEF SwapFine
    <3>2. words' \subseteq Ids /\ Ids \ words' \subseteq S
      BY <1>3, <2>4
    <3>3. \A w \in Ids \ words' : w \in DOMAIN swapped /\ W(w).kind # "data"
      BY <3>1, <3>2
    <3> QED
      BY <1>1, <1>2, <3>2, <3>3 DEF WordsFine
  <2>9. DropFine'
    <3>1. ASSUME NEW w \in words', NEW j \in DOMAIN text'[w].refs, IsCode(w)', text'[w].refs[j].k = "XT",
                 text'[w].refs[j].to \in S
          PROVE  ~Defers(w, text'[w].refs[j].to)
      <4>1. w \in words \ S /\ text'[w].kind = "code"
        BY <2>4, <3>1 DEF IsCode
      <4>2. text'[w].refs[j].to \notin RefsOf(words \ S, text', DOMAIN swapped)
        BY <2>3, <3>1
      <4> QED
        BY <3>1, <4>1, <4>2, Referred
    <3>2. \A w \in words' : \A j \in DOMAIN text'[w].refs :
             IsCode(w)' /\ text'[w].refs[j].k = "XT" /\ text'[w].refs[j].to \in S
                => ~Defers(w, text'[w].refs[j].to)
      BY <3>1
    <3>3. \A w \in words' : \A j \in DOMAIN text'[w].refs : Defers(w, text[w].refs[j].to)' = Defers(w, text'[w].refs[j].to)
      BY <1>1 DEF Defers, W
    <3> QED
      BY <1>1, <2>3, <2>4, <3>2, <3>3 DEF DropFine
  <2> QED
    BY <1>5, <2>5, <2>7, <2>8, <2>9 DEF ImageInv
<1> QED
  BY <1>6, <1>7

(* A word's body is code where its body in the dump is, or it is a buffer's.  *)
LEMMA KindIs ==
    ASSUME lay \in Layouts, TextFine, SwapFine, NEW w \in Ids
    PROVE  IsCode(w) <=> (W(w).kind = "code" \/ w \in Buffers)
<1>1. W(w).kind \in {"code", "data"}
  BY WordIs
<1>2. CASE w \notin Buffers /\ FromOrigin(w)
  <2>1. text[w].kind = W(origin[w]).kind
    BY <1>2 DEF FromOrigin
  <2>2. CASE origin[w] = w
    BY <1>2, <2>1, <2>2 DEF IsCode
  <2>3. CASE origin[w] # w
    <3>1. PICK x : x = origin[w]
      OBVIOUS
    <3>2. x \in DOMAIN swapped /\ swapped[x] = w
      BY <2>3, <3>1 DEF SwapFine
    <3>3. x \in Ids /\ W(x).kind = "code" /\ W(x).name \in DOMAIN Suffixed /\ W(w).name = Suffixed[W(x).name]
      BY <3>2 DEF SwapFine
    <3>4. W(w).kind = "code"
      BY <3>3, OverlayIs
    <3> QED
      BY <2>1, <3>1, <3>3, <3>4 DEF IsCode
  <2> QED
    BY <2>2, <2>3
<1>3. CASE w \notin Buffers /\ W(w).kind = "code" /\ text[w] = Opcode
  BY <1>3 DEF IsCode, Opcode
<1>4. CASE w \in Buffers /\ W(w).kind = "data" /\ \E s \in Ids : text[w] = Buffer(w, s)
  BY <1>4 DEF IsCode, Buffer
<1> QED
  BY <1>2, <1>3, <1>4 DEF TextFine

LEMMA DumptoolKeeps == ASSUME ImageInv, DropDumptool PROVE ImageInv'
<1>0. /\ LayFine /\ TextFine /\ SwapFine /\ WordsFine /\ DropFine /\ BssFine /\ MoveFine /\ PlaceFine
      /\ lay \in Layouts /\ step = "tool" /\ DOMAIN text = Ids
  BY DEF ImageInv, LayFine, Tables, DropDumptool
<1>1. /\ step' = "bss" /\ lay' = lay /\ text' = text /\ origin' = origin /\ swapped' = swapped /\ dropped' = dropped
      /\ moved' = moved /\ bss' = bss /\ UNCHANGED unplaced
  BY DEF DropDumptool
<1>2. Ids' = Ids /\ G' = G /\ (\A w : W(w)' = W(w)) /\ \A u, t : Defers(u, t)' = Defers(u, t)
  BY <1>1, LayKept, DefersKept
<1>3. bss = <<>> /\ Buffers = {} /\ Buffers' = {}
  BY <1>0, <1>1 DEF BssFine, Buffers, Range
<1>4. SwapFine' /\ MoveFine' /\ PlaceFine' /\ DoneFine'
  BY <1>0, <1>1, SwapFineKept, MoveEarly, PlaceEarly, NotDone DEF Early
<1>5. LayFine' /\ BssFine'
  BY <1>0, <1>1, <1>2, <1>3 DEF LayFine, Tables, Steps, BssFine
<1>6. TextFine'
  <2>1. \A w \in Ids : FromOrigin(w) => FromOrigin(w)'
    BY <1>1, FromKept
  <2> QED
    BY <1>0, <1>1, <1>2, <1>3, <2>1 DEF TextFine
<1>7. /\ words' \subseteq words
      /\ \A w \in words \ words' : W(w).name \in DUMPTOOL \/ (IsCode(w) /\ \E u \in words : u > w /\ W(u).name = W(w).name)
  <2>1. CASE ~G.lean
    BY <2>1 DEF DropDumptool
  <2>2. CASE G.lean
    <3> DEFINE nfa  == Newest("NFA", words)
               last == {w \in words : nfa # 0 /\ w >= nfa}
               tool == IF \A w \in last : W(w).name \in DUMPTOOL THEN last ELSE {}
               keep == words \ tool
    <3>1. words' = (IF tool \cap RefsOf(keep, text, {}) = {} THEN keep ELSE words) \ Dead(keep)
      BY <2>2 DEF DropDumptool
    <3>2. \A w \in tool : W(w).name \in DUMPTOOL
      OBVIOUS
    <3>3. \A w \in Dead(keep) : w \in keep /\ IsCode(w) /\ \E u \in keep : u > w /\ W(u).name = W(w).name
      BY DEF Dead, Shadowed
    <3> HIDE DEF tool
    <3> QED
      BY <3>1, <3>2, <3>3
  <2> QED
    BY <2>1, <2>2
<1>10. \A w \in words \ words' : W(w).kind = "data" =>
          \E n \in Ids : W(n).name = "NFA" /\ n <= w /\ \A u \in words' : u < n
  <2>1. SUFFICES ASSUME G.lean, NEW w \in words \ words', W(w).kind = "data"
                 PROVE  \E n \in Ids : W(n).name = "NFA" /\ n <= w /\ \A u \in words' : u < n
    BY DEF DropDumptool
  <2> DEFINE last == {u \in words : Newest("NFA", words) # 0 /\ u >= Newest("NFA", words)}
             tool == IF \A u \in last : W(u).name \in DUMPTOOL THEN last ELSE {}
             keep == words \ tool
  <2>2. words' = (IF tool \cap RefsOf(keep, text, {}) = {} THEN keep ELSE words) \ Dead(keep)
    BY <2>1 DEF DropDumptool
  <2>3. \A u \in Dead(keep) : IsCode(u)
    BY DEF Dead
  <2>4. words \subseteq Ids
    BY <1>0 DEF WordsFine
  <2>5. w \in Ids /\ W(w).kind # "code" /\ ~IsCode(w)
    BY <1>0, <1>3, <2>1, <2>4, KindIs
  <2>6. w \in tool /\ words' \subseteq keep
    <3> HIDE DEF tool
    <3> QED
      BY <2>1, <2>2, <2>3, <2>5
  <2>7. w \in last /\ words' \subseteq words \ last
    <3> HIDE DEF last
    <3> QED
      BY <2>6
  <2>8. PICK n : n = Newest("NFA", words)
    OBVIOUS
  <2>9. n # 0 /\ w >= n /\ \A u \in words' : u \in words /\ ~(u >= n)
    BY <2>7, <2>8
  <2>10. n \in words /\ W(n).name = "NFA" /\ n \in Nat
    BY <1>0, <2>4, <2>8, <2>9, NewestIs
  <2>11. \A u \in words : u \in Nat
    BY <2>4, IdsAre, <1>0
  <2> HIDE DEF last, tool, keep
  <2>12. n \in Ids /\ n <= w /\ \A u \in words' : u < n
    <3>1. n <= w
      BY <2>9
    <3>2. ASSUME NEW u \in words' PROVE u < n
      <4>1. u \in Nat /\ ~(u >= n)
        BY <2>9, <2>11, <3>2
      <4> QED
        BY <2>10, <4>1
    <3> QED
      BY <2>4, <2>10, <3>1, <3>2
  <2> QED
    BY <2>10, <2>12
<1>8. WordsFine'
  <2>1. \A w \in words \ words' : W(w).name \in DUMPTOOL \/ (W(w).kind = "code" /\ \E u \in Ids : u > w /\ W(u).name = W(w).name)
    BY <1>0, <1>3, <1>7, KindIs DEF WordsFine
  <2>2. /\ words' \subseteq Ids
        /\ \A w \in Ids \ words' : \/ w \in DOMAIN swapped \/ W(w).name \in DUMPTOOL
                                   \/ W(w).kind = "code" /\ \E u \in Ids : u > w /\ W(u).name = W(w).name
    BY <1>0, <1>7, <2>1 DEF WordsFine
  <2>3. \A w \in Ids \ words' : W(w).kind = "data" =>
          \E n \in Ids : W(n).name = "NFA" /\ n <= w /\ \A u \in words' : u < n
    <3>1. \A w \in Ids \ words : W(w).kind = "data" =>
            \E n \in Ids : W(n).name = "NFA" /\ n <= w /\ \A u \in words' : u < n
      BY <1>0, <1>7 DEF WordsFine
    <3> QED
      BY <1>10, <3>1
  <2> QED
    BY <1>1, <1>2, <2>2, <2>3 DEF WordsFine
<1>9. DropFine'
  <2>1. \A w : IsCode(w)' = IsCode(w)
    BY <1>1 DEF IsCode
  <2>2. \A w : \A j : Defers(w, text[w].refs[j].to)' = Defers(w, text[w].refs[j].to)
    BY <1>1 DEF Defers, W
  <2> QED
    BY <1>0, <1>1, <1>7, <2>1, <2>2 DEF DropFine
<1> QED
  BY <1>4, <1>5, <1>6, <1>8, <1>9 DEF ImageInv

LEMMA BssKeeps == ASSUME ImageInv, Bss PROVE ImageInv'
<1>0. /\ LayFine /\ TextFine /\ SwapFine /\ WordsFine /\ DropFine /\ BssFine /\ MoveFine /\ PlaceFine
      /\ lay \in Layouts /\ step = "bss" /\ DOMAIN text = Ids
  BY DEF ImageInv, LayFine, Tables, Bss
<1>1. /\ step' = "ops" /\ lay' = lay /\ origin' = origin /\ swapped' = swapped /\ dropped' = dropped
      /\ words' = words /\ moved' = moved /\ UNCHANGED unplaced
  BY DEF Bss
<1>2. Ids' = Ids /\ G' = G /\ (\A w : W(w)' = W(w)) /\ \A u, t : Defers(u, t)' = Defers(u, t)
  BY <1>1, LayKept, DefersKept
<1>3. bss = <<>> /\ Buffers = {}
  BY <1>0 DEF BssFine, Buffers, Range
<1>4. SwapFine' /\ MoveFine' /\ PlaceFine' /\ DoneFine'
  BY <1>0, <1>1, SwapFineKept, MoveEarly, PlaceEarly, NotDone DEF Early
<1> DEFINE start == Newest("START", words)
           out(n) == LET w == Newest(n, words)
                     IN  IF G.bss /\ start # 0 /\ w # 0 /\ ~IsCode(w) /\ W(w).behind = 0 THEN w ELSE 0
<1>5. /\ bss' = [k \in DOMAIN BSS_WORDS |-> out(BSS_WORDS[k])]
      /\ text' = [w \in Ids |-> IF w \in Range(bss') THEN Buffer(w, start) ELSE text[w]]
  BY DEF Bss
<1>6. DOMAIN BSS_WORDS = 1 .. 3
  BY DEF BSS_WORDS
<1>7. \A n : out(n) = 0 \/ (start \in Ids /\ out(n) \in words /\ W(out(n)).kind = "data" /\ W(out(n)).name = n)
  <2>1. TAKE n
  <2>2. words \in SUBSET Ids
    BY <1>0 DEF WordsFine
  <2>3. start # 0 => start \in Ids
    BY <1>0, <2>2, NewestIs
  <2>4. PICK w : w = Newest(n, words)
    OBVIOUS
  <2>5. w # 0 => w \in words /\ w \in Ids /\ W(w).name = n
    BY <1>0, <2>2, <2>4, NewestIs
  <2>6. w # 0 /\ ~IsCode(w) => W(w).kind = "data"
    BY <1>0, <2>5, KindIs, WordIs
  <2>7. out(n) = 0 \/ (out(n) = w /\ start # 0 /\ w # 0 /\ ~IsCode(w))
    BY <2>4
  <2> QED
    BY <2>3, <2>5, <2>6, <2>7
<1> HIDE DEF out, start
<1>8. DOMAIN bss' = 1 .. 3 /\ \A k \in 1 .. 3 : bss'[k] = out(BSS_WORDS[k])
  BY <1>5, <1>6
<1>9. BssFine'
  BY <1>1, <1>2, <1>7, <1>8 DEF BssFine, W
<1>10. \A w \in Ids : w \in Buffers' <=> w \in Range(bss')
  BY <1>0, IdsAre DEF Buffers, Range
<1>11. \A w \in Buffers' : W(w).kind = "data" /\ start \in Ids
  <2>1. TAKE w \in Buffers'
  <2>2. PICK k \in DOMAIN bss' : w = bss'[k] /\ w # 0
    BY DEF Buffers, Range
  <2> QED
    BY <1>7, <1>8, <2>2
<1>12. \A w \in Ids : IF w \in Buffers' THEN text'[w] = Buffer(w, start) ELSE text'[w] = text[w]
  BY <1>5, <1>10
<1>13. DOMAIN text' = Ids
  BY <1>5
<1>14. LayFine'
  BY <1>0, <1>1, <1>2, <1>13 DEF LayFine, Tables, Steps
<1>15. TextFine'
  <2>1. \A w \in Ids : w \notin Buffers' /\ FromOrigin(w) => FromOrigin(w)'
    BY <1>1, <1>12, FromKept
  <2>2. \A w \in Ids : FromOrigin(w) \/ (W(w).kind = "code" /\ text[w] = Opcode)
    BY <1>0, <1>3 DEF TextFine
  <2>3. ASSUME NEW w \in Ids, w \in Buffers' PROVE \E s \in Ids : text'[w] = Buffer(w, s)'
    BY <1>11, <1>12, <2>3 DEF Buffer, Led
  <2> QED
    BY <1>1, <1>2, <1>11, <1>12, <2>1, <2>2, <2>3 DEF TextFine
<1>16. WordsFine'
  BY <1>0, <1>1, <1>2 DEF WordsFine
<1>17. DropFine'
  <2>1. ASSUME NEW w \in words, NEW j \in DOMAIN text'[w].refs, IsCode(w)', text'[w].refs[j].k = "XT",
               text'[w].refs[j].to \in DOMAIN dropped
        PROVE  ~Defers(w, text'[w].refs[j].to)
    <3>1. w \in Ids
      BY <1>0 DEF WordsFine
    <3>2. CASE w \in Buffers'
      <4>1. text'[w] = Buffer(w, start)
        BY <1>12, <3>1, <3>2
      <4>2. text'[w].refs = <<Led("BUF", w), Led("C", start)>>
        BY <4>1 DEF Buffer
      <4>3. \A i \in DOMAIN text'[w].refs : text'[w].refs[i].k # "XT"
        BY <4>2 DEF Led
      <4> QED
        BY <2>1, <4>3
    <3>3. CASE w \notin Buffers'
      <4>1. text'[w] = text[w]
        BY <1>12, <3>1, <3>3
      <4>2. IsCode(w) /\ text[w].refs[j].k = "XT" /\ text[w].refs[j].to \in DOMAIN dropped /\ j \in DOMAIN text[w].refs
        BY <2>1, <4>1 DEF IsCode
      <4>3. ~Defers(w, text[w].refs[j].to)
        BY <1>0, <2>1, <4>2 DEF DropFine
      <4> QED
        BY <4>1, <4>3
    <3> QED
      BY <3>2, <3>3
  <2>2. \A w : \A j : Defers(w, text[w].refs[j].to)' = Defers(w, text'[w].refs[j].to)
    BY <1>1 DEF Defers, W
  <2> QED
    BY <1>0, <1>1, <2>1, <2>2 DEF DropFine
<1> QED
  BY <1>4, <1>9, <1>14, <1>15, <1>16, <1>17 DEF ImageInv

LEMMA OpsKeeps == ASSUME ImageInv, OpBodies PROVE ImageInv'
<1>0. /\ LayFine /\ TextFine /\ SwapFine /\ WordsFine /\ DropFine /\ BssFine /\ MoveFine /\ PlaceFine
      /\ lay \in Layouts /\ step = "ops" /\ DOMAIN text = Ids
  BY DEF ImageInv, LayFine, Tables, OpBodies
<1>1. /\ step' = "inline" /\ lay' = lay /\ origin' = origin /\ swapped' = swapped /\ dropped' = dropped
      /\ words' = words /\ moved' = moved /\ bss' = bss /\ UNCHANGED unplaced
  BY DEF OpBodies
<1>2. /\ Ids' = Ids /\ G' = G /\ (\A w : W(w)' = W(w)) /\ (\A u, t : Defers(u, t)' = Defers(u, t))
      /\ Buffers' = Buffers
  BY <1>1, LayKept, DefersKept DEF Buffers
<1>3. SwapFine' /\ MoveFine' /\ PlaceFine' /\ DoneFine'
  BY <1>0, <1>1, SwapFineKept, MoveEarly, PlaceEarly, NotDone DEF Early
<1>4. DOMAIN text' = Ids /\ \A w \in Ids : text'[w] = text[w] \/ (W(w).op /\ text'[w] = Opcode)
  BY DEF OpBodies
<1>5. \A w \in Ids : W(w).op => W(w).kind = "code" /\ w \notin Buffers
  <2>1. SUFFICES ASSUME NEW w \in Ids, W(w).op PROVE W(w).kind = "code" /\ w \notin Buffers
    OBVIOUS
  <2>2. W(w).kind = "code"
    BY <1>0, <2>1, WordIs
  <2>3. W(w).kind # "data"
    BY <2>2
  <2> QED
    BY <1>0, <2>2, <2>3 DEF TextFine
<1>6. LayFine' /\ WordsFine' /\ BssFine'
  BY <1>0, <1>1, <1>2, <1>4 DEF LayFine, Tables, Steps, WordsFine, BssFine, W
<1>7. TextFine'
  <2>1. SUFFICES ASSUME NEW w \in Ids
                 PROVE  \/ w \notin Buffers' /\ FromOrigin(w)'
                        \/ w \notin Buffers' /\ W(w).kind = "code" /\ text'[w] = Opcode
                        \/ w \in Buffers' /\ W(w).kind = "data" /\ \E s \in Ids : text'[w] = Buffer(w, s)
    BY <1>1, <1>2 DEF TextFine, Opcode, Led, Buffer
  <2>2. CASE W(w).op /\ text'[w] = Opcode
    BY <1>2, <1>5, <2>2
  <2>3. CASE text'[w] = text[w]
    <3>1. FromOrigin(w) => FromOrigin(w)'
      BY <1>1, <2>3, FromKept
    <3> QED
      BY <1>0, <1>2, <2>3, <3>1 DEF TextFine
  <2> QED
    BY <1>4, <2>2, <2>3
<1>8. DropFine'
  <2>1. ASSUME NEW w \in words, NEW j \in DOMAIN text'[w].refs, IsCode(w)', text'[w].refs[j].k = "XT",
               text'[w].refs[j].to \in DOMAIN dropped
        PROVE  ~Defers(w, text'[w].refs[j].to)
    <3>1. w \in Ids
      BY <1>0 DEF WordsFine
    <3>2. CASE text'[w] = Opcode
      BY <2>1, <3>2 DEF Opcode, Led
    <3>3. CASE text'[w] = text[w]
      <4>2. IsCode(w) /\ text[w].refs[j].k = "XT" /\ text[w].refs[j].to \in DOMAIN dropped /\ j \in DOMAIN text[w].refs
        BY <2>1, <3>3 DEF IsCode
      <4>3. ~Defers(w, text[w].refs[j].to)
        BY <1>0, <2>1, <4>2 DEF DropFine
      <4> QED
        BY <3>3, <4>3
    <3> QED
      BY <1>4, <3>1, <3>2, <3>3
  <2>2. \A w : \A j : Defers(w, text[w].refs[j].to)' = Defers(w, text'[w].refs[j].to)
    BY <1>1 DEF Defers, W
  <2> QED
    BY <1>0, <1>1, <2>1, <2>2 DEF DropFine
<1> QED
  BY <1>3, <1>6, <1>7, <1>8 DEF ImageInv

LEMMA InlineKeeps == ASSUME ImageInv, OpInline PROVE ImageInv'
<1>0. /\ LayFine /\ TextFine /\ SwapFine /\ WordsFine /\ DropFine /\ BssFine /\ MoveFine /\ PlaceFine
      /\ lay \in Layouts /\ step = "inline" /\ DOMAIN text = Ids
  BY DEF ImageInv, LayFine, Tables, OpInline
<1>1. /\ step' = "place" /\ lay' = lay /\ text' = text /\ origin' = origin /\ swapped' = swapped
      /\ dropped' = dropped /\ words' = words /\ bss' = bss /\ UNCHANGED unplaced
  BY DEF OpInline
<1>2. /\ Ids' = Ids /\ G' = G /\ (\A w : W(w)' = W(w)) /\ (\A u, t : Defers(u, t)' = Defers(u, t))
      /\ Buffers' = Buffers
  BY <1>1, LayKept, DefersKept DEF Buffers
<1>3. SwapFine' /\ PlaceFine' /\ DoneFine'
  BY <1>0, <1>1, SwapFineKept, PlaceEarly, NotDone DEF Early
<1>4. LayFine' /\ WordsFine' /\ BssFine'
  BY <1>0, <1>1, <1>2 DEF LayFine, Tables, Steps, WordsFine, BssFine, W
<1>5. TextFine'
  <2>1. \A w \in Ids : FromOrigin(w) => FromOrigin(w)'
    BY <1>1, FromKept
  <2> QED
    BY <1>0, <1>1, <1>2, <2>1 DEF TextFine, Opcode, Led, Buffer
<1>6. DropFine'
  <2>1. \A w : IsCode(w)' = IsCode(w)
    BY <1>1 DEF IsCode
  <2>2. \A w : \A j : Defers(w, text[w].refs[j].to)' = Defers(w, text[w].refs[j].to)
    BY <1>1 DEF Defers, W
  <2> QED
    BY <1>0, <1>1, <2>1, <2>2 DEF DropFine
<1>7. MoveFine'
  <2>1. PrimsEnd' = PrimsEnd /\ \A w : Named(W(w).name)' = Named(W(w).name)
    BY <1>1, <1>2 DEF PrimsEnd, Named, W
  <2>2. moved' \subseteq words /\ \A w \in moved' : PrimsEnd # 0 /\ w > PrimsEnd /\ Named(W(w).name) = 1
    BY DEF OpInline, Moved
  <2>3. PrimsEnd \in Nat /\ \A w \in words : w \in Nat
    <3>1. \A w \in words : w \in Nat
      BY <1>0, IdsAre DEF WordsFine
    <3>2. PICK ends : ends = {w \in words : W(w).name = "(PRIMITIVES-END)"}
      OBVIOUS
    <3>3. PrimsEnd = IF ends = {} THEN 0 ELSE Min(ends)
      BY <3>2 DEF PrimsEnd
    <3>4. ends \in SUBSET Nat
      BY <3>1, <3>2
    <3>5. ends # {} => Min(ends) \in ends
      BY <3>4, MinIs
    <3> QED
      BY <3>1, <3>3, <3>4, <3>5
  <2> QED
    BY <1>1, <2>1, <2>2, <2>3 DEF MoveFine, Early
<1> QED
  BY <1>3, <1>4, <1>5, <1>6, <1>7 DEF ImageInv
-----------------------------------------------------------------------------
(* ---- The order words go in ---- *)

LEMMA PrimsIs ==
    ASSUME lay \in Layouts, words \subseteq Ids
    PROVE  PrimsEnd \in Nat /\ (PrimsEnd # 0 => PrimsEnd \in words) /\ \A w \in words : w \in Nat /\ w # 0
<1>1. \A w \in words : w \in Nat /\ w # 0
  BY IdsAre
<1>2. PICK ends : ends = {w \in words : W(w).name = "(PRIMITIVES-END)"}
  OBVIOUS
<1>3. PrimsEnd = IF ends = {} THEN 0 ELSE Min(ends)
  BY <1>2 DEF PrimsEnd
<1>4. ends \in SUBSET Nat
  BY <1>1, <1>2
<1>5. ends # {} => Min(ends) \in ends
  BY <1>4, MinIs
<1> QED
  BY <1>1, <1>2, <1>3, <1>5

Orderly == lay \in Layouts /\ words \subseteq Ids /\ MoveFine

LEMMA SlotIs ==
    ASSUME Orderly, NEW w \in words
    PROVE  w \in Nat /\ Slot(w) \in words /\ Slot(w) \in Nat /\ (w \notin moved => Slot(w) = w)
           /\ (w \in moved => Slot(w) = PrimsEnd)
  BY PrimsIs DEF Orderly, Slot, MoveFine

LEMMA PrecedesIs ==
    ASSUME Orderly, NEW u \in words, NEW v \in words
    PROVE  /\ ~(Precedes(u, v) /\ Precedes(v, u))
           /\ u # v => Precedes(u, v) \/ Precedes(v, u)
           /\ ~Precedes(u, u)
           /\ \A w \in words : Precedes(u, v) /\ Precedes(v, w) => Precedes(u, w)
<1>1. \A w \in words : w \in Nat /\ Slot(w) \in Nat /\ (w \notin moved => Slot(w) = w) /\ (w \in moved => Slot(w) = PrimsEnd)
  BY SlotIs
<1>2. ~(Precedes(u, v) /\ Precedes(v, u)) /\ ~Precedes(u, u)
  BY <1>1 DEF Precedes
<1>3. u # v => Precedes(u, v) \/ Precedes(v, u)
  BY <1>1 DEF Precedes
<1>4. \A w \in words : Precedes(u, v) /\ Precedes(v, w) => Precedes(u, w)
  BY <1>1 DEF Precedes
<1> QED
  BY <1>2, <1>3, <1>4

LEMMA FirstIs ==
    ASSUME Orderly, NEW S \in SUBSET words, S # {}
    PROVE  First(S) \in S /\ \A u \in S \ {First(S)} : Precedes(First(S), u)
<1>1. \A w \in words : w \in Nat /\ Slot(w) \in Nat /\ (w \notin moved => Slot(w) = w) /\ (w \in moved => Slot(w) = PrimsEnd)
  BY SlotIs
<1> DEFINE Slots == {Slot(w) : w \in S}
<1>2. PICK m \in Slots : \A k \in Slots : m <= k
  <2>1. Slots \in SUBSET Nat /\ Slots # {}
    BY <1>1
  <2> HIDE DEF Slots
  <2> QED
    BY <2>1, LeastOf
<1> DEFINE T == {w \in S : Slot(w) = m /\ w \in moved}
<1>3. \A u \in S : m <= Slot(u)
  BY <1>2
<1>4. CASE T = {}
  <2>1. PICK w \in S : Slot(w) = m
    OBVIOUS
  <2>2. w \notin moved
    BY <1>4, <2>1
  <2>3. \A u \in S \ {w} : u \notin moved \/ Slot(u) # m
    BY <1>4
  <2>4. \A u \in S \ {w} : Precedes(w, u)
    BY <1>1, <1>3, <2>1, <2>2, <2>3 DEF Precedes
  <2> QED
    BY <2>1, <2>4, Zenon DEF First
<1>5. CASE T # {}
  <2>1. T \in SUBSET Nat
    BY <1>1
  <2>2. PICK w \in T : \A u \in T : w <= u
    <3> HIDE DEF T
    <3> QED
      BY <1>5, <2>1, LeastOf
  <2>3. w \in S /\ Slot(w) = m /\ w \in moved
    BY <2>2
  <2>4. \A u \in S \ {w} : Slot(u) = m /\ u \in moved => w < u
    <3>1. \A u \in T : w <= u
      BY <2>2
    <3>2. TAKE u \in S \ {w}
    <3>3. Slot(u) = m /\ u \in moved => u \in T
      OBVIOUS
    <3>4. u \in Nat /\ w \in Nat
      BY <1>1, <2>3
    <3> HIDE DEF T
    <3> QED
      BY <3>1, <3>2, <3>3, <3>4
  <2> HIDE DEF T
  <2>5. \A u \in S \ {w} : Precedes(w, u)
    BY <1>1, <1>3, <2>3, <2>4 DEF Precedes
  <2> QED
    BY <2>3, <2>5, Zenon DEF First
<1> QED
  BY <1>4, <1>5

LEMMA LatestIs ==
    ASSUME Orderly, NEW S \in SUBSET words
    PROVE  /\ S # {} => Latest(S) \in S /\ \A u \in S \ {Latest(S)} : Precedes(u, Latest(S))
           /\ S = {} => Latest(S) = 0
<1>1. \A w \in words : w \in Nat /\ Slot(w) \in Nat /\ (w \notin moved => Slot(w) = w) /\ (w \in moved => Slot(w) = PrimsEnd)
  BY SlotIs
<1>2. SUFFICES ASSUME S # {} PROVE Latest(S) \in S /\ \A u \in S \ {Latest(S)} : Precedes(u, Latest(S))
  BY Zenon DEF Latest
<1>3. Len(lay.dump) \in Nat /\ words \subseteq 1 .. Len(lay.dump)
  BY IdsAre DEF Orderly
<1> DEFINE Slots == {Slot(w) : w \in S}
<1>4. PICK m \in Slots : \A k \in Slots : k <= m
  <2>1. Slots \in SUBSET (1 .. Len(lay.dump)) /\ Slots # {}
    BY <1>2, <1>3, SlotIs
  <2> HIDE DEF Slots
  <2> QED
    BY <1>3, <2>1, MaxIs
<1>5. \A u \in S : Slot(u) <= m
  BY <1>4
<1> DEFINE T == {w \in S : Slot(w) = m}
<1>6. T # {} /\ T \in SUBSET (1 .. Len(lay.dump))
  BY <1>3
<1>7. CASE \E w \in T : w \notin moved
  <2>1. PICK w \in T : w \notin moved
    BY <1>7
  <2>2. \A u \in S \ {w} : Precedes(u, w)
    BY <1>1, <1>5, <2>1 DEF Precedes
  <2> QED
    BY <1>2, <2>1, <2>2, Zenon DEF Latest
<1>8. CASE \A w \in T : w \in moved
  <2>1. PICK w \in T : \A u \in T : u <= w
    <3> HIDE DEF T
    <3> QED
      BY <1>3, <1>6, MaxIs
  <2>2. w \in S /\ w \in Nat /\ Slot(w) = m
    BY <1>1, <2>1
  <2>3. \A u \in S \ {w} : Slot(u) = m => u < w /\ u \in moved
    <3>1. TAKE u \in S \ {w}
    <3>2. Slot(u) = m => u \in T
      OBVIOUS
    <3>3. u \in Nat
      BY <1>1
    <3> HIDE DEF T
    <3> QED
      BY <1>8, <2>1, <2>2, <3>1, <3>2, <3>3
  <2> HIDE DEF T
  <2>4. \A u \in S \ {w} : Precedes(u, w)
    BY <1>1, <1>5, <2>2, <2>3 DEF Precedes
  <2> QED
    BY <1>2, <2>2, <2>4, Zenon DEF Latest
<1> QED
  BY <1>7, <1>8

-----------------------------------------------------------------------------
(* ---- How much is placed ---- *)

LEMMA SizeIs ==
    ASSUME lay \in Layouts, TextFine, SwapFine, NEW w \in Ids
    PROVE  text[w].size \in Nat \ {0}
<1>1. origin[w] \in Ids
  BY DEF SwapFine
<1>2. PICK x \in Ids : x = origin[w]
  BY <1>1
<1>3. W(x).size \in Nat \ {0}
  BY WordIs
<1>4. FromOrigin(w) => text[w].size = W(x).size
  BY <1>2 DEF FromOrigin
<1>5. text[w] = Opcode => text[w].size = 2
  BY DEF Opcode
<1>6. \A s : text[w] = Buffer(w, s) => text[w].size = 10
  BY DEF Buffer
<1> QED
  BY <1>3, <1>4, <1>5, <1>6 DEF TextFine

LEMMA TailIs ==
    ASSUME lay \in Layouts, NEW w \in Ids
    PROVE  TailBytes(w) \in Nat /\ TailBytes(w) % CELL = 0 /\ (G.bytehdr => TailBytes(w) = 0)
<1>1. Len(W(w).tail) \in Nat
  BY WordIs
<1>2. PICK n \in Nat : n = Len(W(w).tail)
  BY <1>1
<1>3. n * EntryBytes = (4 * n) * CELL
  BY CellIs DEF EntryBytes
<1>4. n * EntryBytes \in Nat /\ (n * EntryBytes) % CELL = 0
  BY <1>3, TimesCell
<1>5. 0 % CELL = 0
  BY CellAssumption
<1>6. G.bytehdr => n = 0
  BY <1>2, DesignIs
<1>7. 0 * EntryBytes = 0
  BY CellIs DEF EntryBytes
<1> QED
  BY <1>2, <1>4, <1>5, <1>6, <1>7 DEF TailBytes

LEMMA CodeFieldIs == ASSUME lay \in Layouts PROVE CodeField \in Nat \ {0} /\ CodeField % CELL = 0
  BY CellAssumption DEF CodeField, UpToCell

LEMMA BodyIs ==
    ASSUME lay \in Layouts, TextFine, SwapFine, NEW w \in Ids
    PROVE  BodyBytes(w) \in Nat \ {0} /\ (~G.bytehdr => BodyBytes(w) % CELL = 0)
<1>1. CASE ~IsCode(w)
  <2>1. Parameters(w) \in Nat
    BY WordIs, WordListIs DEF Parameters
  <2>2. PICK p \in Nat : p = Parameters(w)
    BY <2>1
  <2>3. PICK f \in Nat \ {0} : f = CodeField /\ f % CELL = 0
    BY CodeFieldIs
  <2>4. BodyBytes(w) = f + p * CELL
    BY <1>1, <2>2, <2>3 DEF BodyBytes
  <2>5. p * CELL \in Nat /\ (p * CELL) % CELL = 0
    BY TimesCell
  <2>6. (f + p * CELL) % CELL = 0
    BY <2>3, <2>5, SumOfCells
  <2>7. f + p * CELL \in Nat \ {0}
    <3>1. PICK q \in Nat : q = p * CELL
      BY <2>5
    <3> QED
      BY <3>1
  <2> QED
    BY <2>4, <2>6, <2>7
<1>2. CASE IsCode(w)
  <2>1. PICK c \in Nat \ {0} : c = JitHeader(w) + text[w].size
    <3>1. JitHeader(w) \in Nat
      BY DEF JitHeader
    <3> QED
      BY <3>1, SizeIs
  <2>2. PICK t \in Nat : t = TailBytes(w) /\ t % CELL = 0
    BY TailIs
  <2>3. BodyBytes(w) = (IF G.bytehdr THEN c ELSE UpToCell(c)) + t
    BY <1>2, <2>1, <2>2 DEF BodyBytes
  <2>4. UpToCell(c) \in Nat /\ c <= UpToCell(c) /\ UpToCell(c) % CELL = 0
    BY UpToCellIs
  <2>5. (UpToCell(c) + t) % CELL = 0
    BY <2>2, <2>4, SumOfCells
  <2> QED
    BY <2>3, <2>4, <2>5
<1> QED
  BY <1>1, <1>2

LEMMA CAlignIs ==
    ASSUME lay \in Layouts, NEW o \in Nat
    PROVE  CAlign(o) \in Nat /\ o <= CAlign(o) /\ CAlign(o) % CELL = 0
<1>1. PICK n : n = IF G.scale > CELL THEN G.scale ELSE CELL
  OBVIOUS
<1>2. n \in {4, 8} /\ (n = CELL \/ n = 8)
  BY <1>1, DesignIs, CellAssumption
<1>3. CAlign(o) = Up(n, o)
  BY <1>1 DEF CAlign, Up
<1>4. Up(n, o) \in Nat /\ o <= Up(n, o) /\ Up(n, o) % n = 0
  BY <1>2, UpIs
<1>5. PICK a \in Nat : a = Up(n, o)
  BY <1>4
<1>6. a % CELL = 0
  <2>1. CASE n = CELL
    BY <1>4, <1>5, <2>1
  <2>2. CASE n = 8
    BY <1>4, <1>5, <2>2, CellAssumption
  <2> QED
    BY <1>2, <2>1, <2>2
<1> QED
  BY <1>3, <1>4, <1>5, <1>6

LEMMA LinkLenIs == ASSUME NEW t, NEW d PROVE LinkLen(t, d) \in 1 .. 4
  BY DEF LinkLen
-----------------------------------------------------------------------------
(* ---- What placing and writing leave alone ---- *)

LEMMA Fixed ==
    ASSUME UNCHANGED <<lay, text, origin, swapped, dropped, words, moved, bss>>
    PROVE  /\ \A w : IsCode(w)' = IsCode(w) /\ Headless(w)' = Headless(w) /\ BodyBytes(w)' = BodyBytes(w)
                     /\ TailBytes(w)' = TailBytes(w) /\ AlignedBody(w)' = AlignedBody(w)
           /\ \A u, w : Precedes(u, w)' = Precedes(u, w) /\ Defers(u, w)' = Defers(u, w)
           /\ Buffers' = Buffers /\ PrimsEnd' = PrimsEnd /\ \A n : Named(n)' = Named(n)
<1>1. G' = G /\ Ids' = Ids /\ WordList' = WordList /\ (\A w : W(w)' = W(w)) /\ \A w : text'[w] = text[w]
  BY LayKept
<1>2. (\A n : Named(n)' = Named(n)) /\ PrimsEnd' = PrimsEnd
  BY <1>1 DEF Named, PrimsEnd
<1>3. \A w : IsCode(w)' = IsCode(w)
  BY DEF IsCode
<1>4. \A w : Named(W(w).name)' = Named(W(w).name)
  BY DEF Named, W
<1>5. \A w : Headless(w)' = Headless(w)
  BY <1>1, <1>4 DEF Headless
<1>6. \A w : TailBytes(w)' = TailBytes(w)
  BY <1>1, <1>3 DEF TailBytes
<1>7. \A w : AlignedBody(w)' = AlignedBody(w)
  BY <1>1, <1>3, <1>6 DEF AlignedBody
<1>8. \A w : JitHeader(w)' = JitHeader(w)
  BY <1>1, <1>3, <1>5, <1>7 DEF JitHeader
<1>9. Threads' = Threads
  BY <1>1 DEF Threads, W, WordList, Newest
<1>10. \A w : Parameters(w)' = Parameters(w)
  BY <1>1, <1>9 DEF Parameters
<1>11. CodeField' = CodeField
  BY <1>1 DEF CodeField
<1>12. \A w : BodyBytes(w)' = BodyBytes(w)
  BY <1>1, <1>3, <1>6, <1>8, <1>10, <1>11 DEF BodyBytes
<1>13. \A w : Slot(w)' = Slot(w)
  BY <1>2 DEF Slot
<1>14. \A u, w : Precedes(u, w)' = Precedes(u, w)
  BY <1>13 DEF Precedes
<1>15. Buffers' = Buffers /\ \A u, t : Defers(u, t)' = Defers(u, t)
  BY DefersKept DEF Buffers
<1> QED
  BY <1>2, <1>3, <1>5, <1>6, <1>7, <1>12, <1>14, <1>15

LEMMA FineStays ==
    ASSUME UNCHANGED <<lay, text, origin, swapped, dropped, words, moved, bss>>, ImageInv,
           \/ step' = step
           \/ step \in {"place", "write"} /\ step' \in {"place", "write", "done", "refused", "died"}
    PROVE  LayFine' /\ TextFine' /\ SwapFine' /\ WordsFine' /\ DropFine' /\ BssFine' /\ MoveFine'
<1>0. /\ LayFine /\ TextFine /\ SwapFine /\ WordsFine /\ DropFine /\ BssFine /\ MoveFine /\ lay \in Layouts
  BY DEF ImageInv, LayFine
<1>1. G' = G /\ Ids' = Ids /\ (\A w : W(w)' = W(w)) /\ Buffers' = Buffers /\ (\A w : IsCode(w)' = IsCode(w))
      /\ PrimsEnd' = PrimsEnd
  BY LayKept, Fixed
<1>2. LayFine' /\ WordsFine' /\ SwapFine'
  BY <1>0, <1>1, SwapFineKept DEF LayFine, Tables, Steps, WordsFine
<1>3. BssFine'
  BY <1>0, <1>1 DEF BssFine, W
<1>4. TextFine'
  <2>1. \A w \in Ids : FromOrigin(w) => FromOrigin(w)'
    BY FromKept
  <2> QED
    BY <1>0, <1>1, <2>1 DEF TextFine, Opcode, Led, Buffer
<1>5. DropFine'
  <2>1. \A w : \A j : Defers(w, text[w].refs[j].to)' = Defers(w, text[w].refs[j].to)
    BY DEF Defers, W
  <2> QED
    BY <1>0, <1>1, <2>1 DEF DropFine
<1>6. MoveFine'
  <2>1. \A w : Named(W(w).name)' = Named(W(w).name)
    BY DEF Named, W
  <2> QED
    BY <1>0, <1>1, <2>1 DEF MoveFine, Early
<1> QED
  BY <1>2, <1>3, <1>4, <1>5, <1>6

(* A word is put past what is placed, its header before its body.           *)
LEMMA PutWell ==
    ASSUME lay \in Layouts, WordsFine, off \in Nat, ~G.bytehdr => off % CELL = 0, NEW w \in words
    PROVE  LET at == Placed(w)
           IN  /\ at.link = off /\ at.nfa \in Nat /\ at.body \in Nat /\ off <= at.nfa /\ at.nfa <= at.body
               /\ (IF Headless(w) THEN at.nfa = off ELSE off < at.nfa)
               /\ ~IsCode(w) \/ ~G.bytehdr => at.body % CELL = 0
<1> DEFINE at == Placed(w)
<1>1. w \in Ids
  BY DEF WordsFine
<1>2. PICK n \in Nat : n = NameLen[W(w).name]
  BY <1>1, WordIs
<1> DEFINE ll == IF Headless(w) THEN 0 ELSE IF ~G.bytehdr THEN CELL
                 ELSE IF Before(w) = 0 THEN 1 ELSE LinkLen(G.tag, off + 3 - place[Before(w)].nfa)
<1>3. ll \in Nat /\ (Headless(w) => ll = 0) /\ (~Headless(w) => ll > 0) /\ (~Headless(w) /\ ~G.bytehdr => ll = CELL)
  BY CellIs, LinkLenIs
<1>4. at = [link |-> off, nfa |-> off + ll,
            body |-> LET end == IF Headless(w) THEN off ELSE off + ll + n + 1
                     IN  IF G.bytehdr THEN IF AlignedBody(w) THEN CAlign(end) ELSE end
                         ELSE IF Headless(w) THEN CAlign(end) ELSE off + ll + UpToCell(end - (off + ll))]
  BY <1>2 DEF Placed
<1> HIDE DEF ll
<1> DEFINE end == IF Headless(w) THEN off ELSE off + ll + n + 1
<1>5. end \in Nat /\ off + ll <= end /\ off + ll \in Nat /\ (~Headless(w) => end - (off + ll) = n + 1)
  BY <1>2, <1>3
<1>6. at.link = off /\ at.nfa = off + ll
      /\ at.body = IF G.bytehdr THEN IF AlignedBody(w) THEN CAlign(end) ELSE end
                   ELSE IF Headless(w) THEN CAlign(end) ELSE off + ll + UpToCell(end - (off + ll))
  BY <1>4
<1> HIDE DEF end, at
<1>7. CAlign(end) \in Nat /\ end <= CAlign(end) /\ CAlign(end) % CELL = 0
  BY <1>5, CAlignIs
<1>8. CASE G.bytehdr
  <2>1. ~IsCode(w) => AlignedBody(w)
    BY DEF AlignedBody
  <2>2. at.body \in Nat /\ off + ll <= at.body /\ (~IsCode(w) => at.body % CELL = 0)
    BY <1>5, <1>6, <1>7, <1>8, <2>1
  <2> QED
    BY <1>3, <1>6, <1>8, <2>2 DEF at
<1>9. CASE ~G.bytehdr
  <2>1. CASE Headless(w)
    BY <1>3, <1>5, <1>6, <1>7, <1>9, <2>1 DEF at
  <2>2. CASE ~Headless(w)
    <3>1. PICK e \in Nat : e = UpToCell(n + 1) /\ e % CELL = 0
      BY <1>2, UpToCellIs
    <3>2. at.body = off + CELL + e /\ at.nfa = off + CELL
      BY <1>3, <1>5, <1>6, <1>9, <2>2, <3>1
    <3>3. CELL % CELL = 0
      BY CellAssumption
    <3>4. (off + CELL) % CELL = 0 /\ off + CELL \in Nat
      BY <1>9, <3>3, CellIs, SumOfCells
    <3>5. (off + CELL + e) % CELL = 0
      BY <3>1, <3>4, SumOfCells
    <3>6. at.link = off /\ at.nfa \in Nat /\ at.body \in Nat /\ off < at.nfa /\ at.nfa <= at.body
      BY <1>6, <3>1, <3>2, CellIs
    <3> QED
      BY <1>9, <2>2, <3>2, <3>5, <3>6 DEF at
  <2> QED
    BY <2>1, <2>2
<1> QED
  BY <1>8, <1>9

(* The word before one on its thread depends on which words go in.          *)
LEMMA BeforeSame ==
    ASSUME UNCHANGED <<lay, text, origin, swapped, dropped, words, moved, bss>>
    PROVE  \A w : Before(w)' = Before(w)
<1>1. /\ G' = G /\ WordList' = WordList /\ (\A w : W(w)' = W(w)) /\ (\A w : Headless(w)' = Headless(w))
      /\ \A u, w : Precedes(u, w)' = Precedes(u, w)
  BY LayKept, Fixed
<1>2. Threads' = Threads /\ \A w : Thread(w)' = Thread(w)
  BY <1>1 DEF Threads, Thread, W, WordList, Newest
<1>3. \A w : \A t : (Headless(w)' = Headless(w)) /\ (Thread(w)' = Thread(w))
  BY <1>1, <1>2
<1>4. \A t : OnThread(t)' = OnThread(t)
  BY <1>3 DEF OnThread
<1>5. \A ws : Latest(ws)' = Latest(ws)
  BY DEF Latest, Precedes, Slot, PrimsEnd, W
<1> QED
  BY <1>1, <1>2, <1>4, <1>5 DEF Before

(* It is placed before the word is, and its name is not the word's.         *)
LEMMA BeforeIs ==
    ASSUME Orderly, PlaceFine, NEW w \in words, Before(w) # 0
    PROVE  /\ Before(w) \in words /\ Precedes(Before(w), w)
           /\ (w \in DOMAIN place => Before(w) \in DOMAIN place)
           /\ ((\A u \in words \ DOMAIN place : u # w => Precedes(w, u)) => Before(w) \in DOMAIN place)
<1> DEFINE S == {u \in OnThread(Thread(w)) : Precedes(u, w)}
<1>1. S \in SUBSET words /\ Before(w) = Latest(S)
  BY DEF OnThread, Before
<1>2. Latest(S) \in S
  <2> HIDE DEF S
  <2> QED
    BY <1>1, LatestIs
<1>3. PICK b \in words : b = Before(w) /\ Precedes(b, w)
  BY <1>1, <1>2
<1>4. ~Precedes(w, b) /\ b # w
  BY <1>3, PrecedesIs
<1>5. w \in DOMAIN place => b \in DOMAIN place
  BY <1>3, <1>4 DEF PlaceFine
<1> QED
  BY <1>3, <1>4, <1>5

(* A link's form is chosen for three bytes more than its own at most: it    *)
(* holds the distance, whichever it is.                                     *)
LEMMA PutFits ==
    ASSUME lay \in Layouts, off \in Nat, NEW w, ~Headless(w), G.bytehdr,
           Before(w) # 0 => place[Before(w)].nfa \in Nat,
           NEW ll, ll = Placed(w).nfa - Placed(w).link,
           NEW back, back = IF Before(w) = 0 THEN 0 ELSE Placed(w).nfa - place[Before(w)].nfa
    PROVE  ll = 4 \/ back < Near[G.tag][ll]
<1>1. PICK n : n = IF Before(w) = 0 THEN 1 ELSE LinkLen(G.tag, off + 3 - place[Before(w)].nfa)
  OBVIOUS
<1>2. n \in 1 .. 4
  BY <1>1, LinkLenIs
<1>3. Placed(w).link = off /\ Placed(w).nfa = off + n
  BY <1>1 DEF Placed
<1>4. ll = n
  BY <1>2, <1>3
<1>5. Near[G.tag][1] \in Nat \ {0} /\ Near[G.tag][2] \in Nat \ {0} /\ Near[G.tag][3] \in Nat \ {0}
  BY DesignIs, ImageAssumption
<1>6. CASE Before(w) = 0
  BY <1>1, <1>4, <1>5, <1>6
<1>7. CASE Before(w) # 0
  <2>1. PICK p \in Nat : p = place[Before(w)].nfa
    BY <1>7
  <2>2. n = LinkLen(G.tag, off + 3 - p)
    BY <1>1, <1>7, <2>1
  <2>3. n # 4 => off + 3 - p < Near[G.tag][n]
    BY <1>5, <2>2 DEF LinkLen
  <2>4. n # 4 => off + n - p < Near[G.tag][n]
    <3>1. CASE n = 1
      BY <1>5, <2>1, <2>3, <3>1
    <3>2. CASE n = 2
      BY <1>5, <2>1, <2>3, <3>2
    <3>3. CASE n = 3
      BY <1>5, <2>1, <2>3, <3>3
    <3> QED
      BY <1>2, <3>1, <3>2, <3>3
  <2>5. back = off + n - p
    BY <1>2, <1>3, <1>7, <2>1
  <2> QED
    BY <1>4, <2>4, <2>5
<1> QED
  BY <1>6, <1>7

LEMMA PlaceKeeps == ASSUME ImageInv, PlaceWord PROVE ImageInv'
<1>0. /\ LayFine /\ TextFine /\ SwapFine /\ WordsFine /\ DropFine /\ BssFine /\ MoveFine /\ PlaceFine
      /\ lay \in Layouts /\ step = "place" /\ Orderly
  BY DEF ImageInv, LayFine, PlaceWord, Orderly, WordsFine
<1>1. /\ UNCHANGED <<lay, text, origin, swapped, dropped, words, moved, bss>> /\ words' = words
      /\ step' \in {"place", "write"} /\ (step' = "write" => DOMAIN place' = words) /\ DOMAIN place # words
  BY <1>0 DEF PlaceWord
<1>2. LayFine' /\ TextFine' /\ SwapFine' /\ WordsFine' /\ DropFine' /\ BssFine' /\ MoveFine' /\ DoneFine'
  BY <1>0, <1>1, FineStays, NotDone
<1>3. PICK D : D = DOMAIN place /\ D \subseteq words
  BY <1>0 DEF PlaceFine
<1>4. PICK w : w = First(words \ D)
  OBVIOUS
<1>5. w \in words \ D /\ \A u \in (words \ D) \ {w} : Precedes(w, u)
  <2>1. words \ D # {} /\ words \ D \in SUBSET words
    BY <1>1, <1>3
  <2> QED
    BY <1>0, <1>4, <2>1, FirstIs
<1>6. PICK at : at = Placed(w)
  OBVIOUS
<1>7. PICK n \in Nat \ {0} : n = BodyBytes(w) /\ (~G.bytehdr => n % CELL = 0)
  BY <1>0, <1>5, BodyIs DEF WordsFine
<1>8. /\ place' = [u \in D \cup {w} |-> IF u = w THEN at ELSE place[u]]
      /\ off' = at.body + n
  BY <1>3, <1>4, <1>6, <1>7 DEF PlaceWord
<1>9. /\ at.link = off /\ at.nfa \in Nat /\ at.body \in Nat /\ off <= at.nfa /\ at.nfa <= at.body
      /\ (IF Headless(w) THEN at.nfa = off ELSE off < at.nfa)
      /\ (~IsCode(w) \/ ~G.bytehdr => at.body % CELL = 0)
      /\ off \in Nat
  BY <1>0, <1>5, <1>6, PutWell DEF PlaceFine
<1>10. G' = G /\ \A u : IsCode(u)' = IsCode(u) /\ Headless(u)' = Headless(u) /\ BodyBytes(u)' = BodyBytes(u)
  BY <1>1, Fixed, LayKept
<1>11. \A u, v : Precedes(u, v)' = Precedes(u, v)
  BY <1>1, Fixed
<1>12. off' \in Nat /\ off <= off' /\ at.body + n <= off' /\ (~G.bytehdr => off' % CELL = 0)
  <2>1. off' = at.body + n /\ at.body \in Nat /\ off' \in Nat /\ off <= off'
    BY <1>7, <1>8, <1>9
  <2>2. ~G.bytehdr => (at.body + n) % CELL = 0
    BY <1>7, <1>9, SumOfCells
  <2> QED
    BY <2>1, <2>2
<1>13. DOMAIN place' = D \cup {w} /\ place'[w] = at /\ \A u \in D : place'[u] = place[u]
  BY <1>5, <1>8
<1>18. ASSUME NEW u \in DOMAIN place' PROVE LinkFits(u)'
  <2>1. SUFFICES ASSUME G.bytehdr, ~Headless(u) PROVE LinkFits(u)'
    BY <1>10 DEF LinkFits
  <2>2. Before(u)' = Before(u) /\ u \in words
    BY <1>1, <1>3, <1>5, <1>13, BeforeSame
  <2>3. CASE u = w
    <3>1. Before(w) # 0 => Before(w) \in D /\ Before(w) # w
      BY <1>0, <1>3, <1>5, BeforeIs, PrecedesIs
    <3>2. Before(w) # 0 => place[Before(w)].nfa \in Nat /\ place'[Before(w)] = place[Before(w)]
      BY <1>0, <1>3, <1>13, <3>1 DEF PlaceFine, PlacedWell, NfaAt
    <3>3. PICK back : back = IF Before(w) = 0 THEN 0 ELSE at.nfa - place[Before(w)].nfa
      OBVIOUS
    <3>4. at.nfa - at.link = 4 \/ back < Near[G.tag][at.nfa - at.link]
      BY <1>0, <1>6, <1>9, <2>1, <2>3, <3>2, <3>3, PutFits
    <3>5. Back(u)' = back
      BY <1>10, <1>13, <2>1, <2>2, <2>3, <3>2, <3>3 DEF Back
    <3> QED
      BY <1>10, <1>13, <2>3, <3>4, <3>5 DEF LinkFits
  <2>4. CASE u \in D
    <3>1. Before(u) # 0 => Before(u) \in D
      BY <1>0, <1>3, <2>2, <2>4, BeforeIs
    <3>2. place'[u] = place[u] /\ (Before(u) # 0 => place'[Before(u)] = place[Before(u)])
      BY <1>13, <2>4, <3>1
    <3>3. Back(u)' = Back(u)
      BY <1>10, <2>1, <2>2, <3>2 DEF Back
    <3>4. LinkFits(u)
      BY <1>0, <1>3, <2>4 DEF PlaceFine
    <3> QED
      BY <1>10, <3>2, <3>3, <3>4 DEF LinkFits
  <2> QED
    BY <1>13, <2>3, <2>4
<1>14. ASSUME NEW u \in DOMAIN place' PROVE PlacedWell(u)'
  <2>1. CASE u = w
    <3>1. LinkAt(u)' = at.link /\ NfaAt(u)' = at.nfa /\ PutAt(u)' = at.body /\ BodyBytes(u)' = n
      BY <1>7, <1>10, <1>13, <2>1 DEF LinkAt, NfaAt, PutAt
    <3> QED
      BY <1>9, <1>10, <1>12, <2>1, <3>1 DEF PlacedWell
  <2>2. CASE u \in D
    <3>1. LinkAt(u)' = LinkAt(u) /\ NfaAt(u)' = NfaAt(u) /\ PutAt(u)' = PutAt(u) /\ BodyBytes(u)' = BodyBytes(u)
      BY <1>10, <1>13, <2>2 DEF LinkAt, NfaAt, PutAt
    <3>2. PlacedWell(u)
      BY <1>0, <1>3, <2>2 DEF PlaceFine
    <3>3. BodyBytes(u) \in Nat
      BY <1>0, <1>3, <2>2, BodyIs DEF WordsFine
    <3> QED
      BY <1>9, <1>10, <1>12, <3>1, <3>2, <3>3 DEF PlacedWell
  <2> QED
    BY <1>13, <2>1, <2>2
<1>15. ASSUME NEW u \in DOMAIN place', NEW v \in words \ DOMAIN place' PROVE Precedes(u, v)'
  <2>1. CASE u = w
    BY <1>5, <1>11, <1>13, <2>1
  <2>2. CASE u \in D
    BY <1>0, <1>3, <1>11, <1>13, <2>2 DEF PlaceFine
  <2> QED
    BY <1>13, <2>1, <2>2
<1>16. ASSUME NEW u \in DOMAIN place', NEW v \in DOMAIN place', Precedes(u, v)'
       PROVE  PutAt(u)' + BodyBytes(u)' <= LinkAt(v)'
  <2>1. Precedes(u, v) /\ u \in words /\ v \in words /\ BodyBytes(u)' = BodyBytes(u)
    BY <1>3, <1>5, <1>10, <1>11, <1>13, <1>16
  <2>2. u \in D
    <3>1. SUFFICES ASSUME u = w PROVE FALSE
      BY <1>13
    <3>2. v # w
      BY <1>0, <2>1, <3>1, PrecedesIs
    <3>3. v \in D
      BY <1>13, <3>2
    <3>4. Precedes(v, w)
      BY <1>0, <1>3, <1>5, <3>3 DEF PlaceFine
    <3> QED
      BY <1>0, <2>1, <3>1, <3>4, PrecedesIs
  <2>3. PutAt(u)' = PutAt(u)
    BY <1>13, <2>2 DEF PutAt
  <2>4. CASE v = w
    <3>1. LinkAt(v)' = off
      BY <1>9, <1>13, <2>4 DEF LinkAt
    <3>2. PutAt(u) + BodyBytes(u) <= off
      BY <1>0, <1>3, <2>2 DEF PlaceFine, PlacedWell
    <3> QED
      BY <2>1, <2>3, <3>1, <3>2
  <2>5. CASE v \in D
    <3>1. LinkAt(v)' = LinkAt(v)
      BY <1>13, <2>5 DEF LinkAt
    <3> QED
      BY <1>0, <1>3, <2>1, <2>2, <2>3, <2>5, <3>1 DEF PlaceFine
  <2> QED
    BY <1>13, <2>4, <2>5
<1>17. PlaceFine'
  <2>1. DOMAIN place' \subseteq words
    BY <1>3, <1>5, <1>13
  <2>2. step' \notin Early /\ (step' \in {"write", "done", "refused", "died"} => step' = "write")
    BY <1>1 DEF Early
  <2> QED
    BY <1>1, <1>10, <1>12, <1>14, <1>15, <1>16, <1>18, <2>1, <2>2 DEF PlaceFine
<1> QED
  BY <1>2, <1>17 DEF ImageInv

LEMMA PlaceStays ==
    ASSUME UNCHANGED <<lay, text, origin, swapped, dropped, words, moved, bss, place, off>>, PlaceFine,
           step' \in {"write", "done", "refused", "died"} => step \in {"write", "done", "refused", "died"},
           step' \in Early => step \in Early
    PROVE  PlaceFine'
<1>1. G' = G /\ (\A w : Headless(w)' = Headless(w) /\ BodyBytes(w)' = BodyBytes(w) /\ IsCode(w)' = IsCode(w))
      /\ \A u, w : Precedes(u, w)' = Precedes(u, w)
  BY LayKept, Fixed
<1>2. \A w : PlacedWell(w)' = PlacedWell(w)
  BY <1>1 DEF PlacedWell, LinkAt, NfaAt, PutAt
<1>3. \A w : LinkAt(w)' = LinkAt(w) /\ PutAt(w)' = PutAt(w)
  BY DEF LinkAt, PutAt
<1>4. \A w : Back(w)' = Back(w)
  BY <1>1, BeforeSame DEF Back
<1>5. \A w : LinkFits(w)' = LinkFits(w)
  BY <1>1, <1>4 DEF LinkFits
<1> QED
  BY <1>1, <1>2, <1>3, <1>5 DEF PlaceFine

-----------------------------------------------------------------------------
(* ---- What is written ---- *)

GoesOf(w) == IF IsCode(w) THEN [j \in DOMAIN text[w].refs |-> Leads(text[w].refs[j])]
             ELSE [j \in 1 .. Parameters(w) |-> Field(w, j)]
DoesOf(w) == IF IsCode(w) \/ W(w).behind = 0 THEN 0 ELSE place[W(w).behind].body + W(w).hole
TailOf(w) ==
    IF TailBytes(w) = 0 THEN <<>>
    ELSE [j \in DOMAIN W(w).tail |->
            IF <<w, j>> \notin Listed THEN <<Raw, Raw>>
            ELSE <<IF W(w).tail[j].link = NoEntry THEN 0 ELSE EntryAt(W(w).tail[j].link), BodyAt(W(w).tail[j].xt)>>]

LEMMA EmittedIs ==
    \A w : Emits(w) = [back |-> Back(w), goes |-> GoesOf(w), does |-> DoesOf(w), tail |-> TailOf(w)]
  BY Zenon DEF Emits, GoesOf, DoesOf, TailOf

LEMMA WriteSame ==
    ASSUME UNCHANGED <<lay, text, origin, swapped, dropped, words, moved, bss, place, off>>
    PROVE  Dies' = Dies /\ Refuses' = Refuses /\ \A w : Emits(w)' = Emits(w)
<1>1. /\ G' = G /\ Ids' = Ids /\ WordList' = WordList /\ (\A w : W(w)' = W(w)) /\ (\A w : text'[w] = text[w])
      /\ Buffers' = Buffers /\ (\A w : IsCode(w)' = IsCode(w)) /\ (\A w : Headless(w)' = Headless(w))
      /\ (\A w : TailBytes(w)' = TailBytes(w)) /\ (\A u, w : Precedes(u, w)' = Precedes(u, w))
      /\ \A n : Named(n)' = Named(n)
  BY LayKept, Fixed
<1>2. Threads' = Threads /\ \A w : Thread(w)' = Thread(w)
  BY <1>1 DEF Threads, Thread, W, WordList, Newest
<1>3. \A w : \A t : (Headless(w)' = Headless(w)) /\ (Thread(w)' = Thread(w))
  BY <1>1, <1>2
<1>4. \A t : OnThread(t)' = OnThread(t)
  BY <1>3 DEF OnThread
<1>5. \A ws : Latest(ws)' = Latest(ws)
  BY DEF Latest, Precedes, Slot, PrimsEnd, W
<1>6. \A w : Before(w)' = Before(w)
  BY BeforeSame
<1>7. \A t : HeadOf(t)' = HeadOf(t)
  BY <1>4, <1>5 DEF HeadOf
<1>8. \A w : BodyAt(w)' = BodyAt(w)
  BY DEF BodyAt
<1>9. CodeField' = CodeField /\ \A k : BufferAt(k)' = BufferAt(k)
  BY DEF CodeField, BufferAt, BufferBytes, W, G
<1>10. \A w : FieldAt(w)' = FieldAt(w)
  BY <1>1, <1>9 DEF FieldAt
<1>11. \A e : EntryAt(e)' = EntryAt(e)
  BY DEF EntryAt, TailBytes, IsCode, W
<1>12. \A e : EntryOf(e)' = EntryOf(e)
  BY DEF EntryOf, W
<1>13. \A n : Oldest(n)' = Oldest(n)
  BY DEF Oldest, First, Precedes, Slot, PrimsEnd, W
<1>29. BodyAt(Oldest("MAIN"))' = BodyAt(Oldest("MAIN"))
  BY <1>13 DEF BodyAt
<1>14. Listed' = Listed
  BY DEF Listed, Entries, EntryOf, Newest, W, Ids
<1>30. (\A o : Scaled(o)' = Scaled(o)) /\ \A w : SlotLeads(w)' = SlotLeads(w)
  BY <1>1, <1>10 DEF Scaled, SlotLeads
<1>15. \A r : Leads(r)' = Leads(r)
  <2>1. \A r : /\ W(r.to)' = W(r.to) /\ BodyAt(r.to)' = BodyAt(r.to) /\ FieldAt(r.to)' = FieldAt(r.to)
               /\ SlotLeads(r.to)' = SlotLeads(r.to)
    BY <1>1, <1>8, <1>10, <1>30
  <2> QED
    BY <2>1 DEF Leads
<1>16. \A w : \A j : Field(w, j)' = Field(w, j)
  BY <1>1, <1>2, <1>7, <1>8, <1>9, <1>10, <1>11, <1>13, <1>29 DEF Field
<1>17. \A w : Back(w)' = Back(w)
  BY <1>1, <1>6 DEF Back
<1>18. \A w : LinkFits(w)' = LinkFits(w)
  BY <1>1, <1>17 DEF LinkFits
<1>19. \A e : /\ EntryAt(EntryOf(e).link)' = EntryAt(EntryOf(e).link)
               /\ BodyAt(EntryOf(e).xt)' = BodyAt(EntryOf(e).xt)
  BY DEF EntryAt, EntryOf, BodyAt, TailBytes, IsCode, W
<1>20. \A w : \A j : Leads(text[w].refs[j])' = Leads(text[w].refs[j])
  <2>1. TAKE w
  <2>2. TAKE j
  <2>3. PICK r : r = text[w].refs[j]
    OBVIOUS
  <2>4. Leads(r)' = Leads(r)
    BY <1>15
  <2>5. /\ W(text[w].refs[j].to)' = W(text[w].refs[j].to)
        /\ BodyAt(text[w].refs[j].to)' = BodyAt(text[w].refs[j].to)
    BY DEF W, BodyAt
  <2>6. FieldAt(text[w].refs[j].to)' = FieldAt(text[w].refs[j].to)
    BY DEF FieldAt, Buffers, CodeField, BufferAt, BufferBytes, W, G
  <2>7. SlotLeads(text[w].refs[j].to)' = SlotLeads(text[w].refs[j].to)
    BY <2>6 DEF SlotLeads, Scaled, G
  <2> QED
    BY <2>5, <2>6, <2>7 DEF Leads
<1>21. Dies' = Dies
  BY <1>1, <1>15, <1>18, <1>30 DEF Dies
<1>22. Refuses' = Refuses
  BY <1>1, <1>11, <1>14, <1>15, <1>16, <1>19 DEF Refuses
<1>23. \A w : Parameters(w)' = Parameters(w)
  BY <1>1, <1>2 DEF Parameters
<1>24. \A w : \A j : /\ EntryAt(W(w).tail[j].link)' = EntryAt(W(w).tail[j].link)
                     /\ BodyAt(W(w).tail[j].xt)' = BodyAt(W(w).tail[j].xt)
  BY DEF EntryAt, BodyAt, TailBytes, IsCode, W
<1>25. \A w : GoesOf(w)' = GoesOf(w)
  BY <1>1, <1>16, <1>20, <1>23 DEF GoesOf
<1>26. \A w : DoesOf(w)' = DoesOf(w)
  BY <1>1 DEF DoesOf, W
<1>27. \A w : TailOf(w)' = TailOf(w)
  BY <1>1, <1>14, <1>24 DEF TailOf
<1>28. \A w : Emits(w)' = Emits(w)
  <2>1. \A w : Emits(w)' = [back |-> Back(w)', goes |-> GoesOf(w)', does |-> DoesOf(w)', tail |-> TailOf(w)']
    BY Zenon DEF Emits, GoesOf, DoesOf, TailOf
  <2> QED
    BY <1>17, <1>25, <1>26, <1>27, <2>1, EmittedIs
<1> QED
  BY <1>21, <1>22, <1>28

LEMMA WriteKeeps == ASSUME ImageInv, Write PROVE ImageInv'
<1>0. PlaceFine /\ step = "write" /\ lay \in Layouts
  BY DEF ImageInv, LayFine, Write
<1>1. /\ UNCHANGED <<lay, text, origin, swapped, dropped, words, moved, bss, place, off>>
      /\ UNCHANGED <<lay, text, origin, swapped, dropped, words, moved, bss>>
      /\ step' \in {"died", "refused", "done"}
      /\ step' = "done" => ~Dies /\ ~Refuses /\ image' = [w \in words |-> Emits(w)]
  BY DEF Write
<1>2. LayFine' /\ TextFine' /\ SwapFine' /\ WordsFine' /\ DropFine' /\ BssFine' /\ MoveFine'
  BY <1>0, <1>1, FineStays
<1>3. PlaceFine'
  BY <1>0, <1>1, PlaceStays DEF Early
<1>4. DoneFine'
  BY <1>1, WriteSame DEF DoneFine
<1> QED
  BY <1>2, <1>3, <1>4 DEF ImageInv

LEMMA StaysStill == ASSUME ImageInv, UNCHANGED dictVars PROVE ImageInv'
<1>1. UNCHANGED <<lay, text, origin, swapped, dropped, words, moved, bss, place, off>> /\ step' = step /\ image' = image
      /\ lay' = lay /\ origin' = origin /\ swapped' = swapped /\ UNCHANGED unplaced
  BY DEF dictVars, unplaced
<1>2. LayFine' /\ TextFine' /\ SwapFine' /\ WordsFine' /\ DropFine' /\ BssFine' /\ MoveFine'
  BY <1>1, FineStays
<1>3. PlaceFine'
  BY <1>1, PlaceStays DEF ImageInv
<1>4. Dies' = Dies /\ Refuses' = Refuses /\ \A w : Emits(w)' = Emits(w)
  BY <1>1, WriteSame
<1>5. DoneFine'
  BY <1>1, <1>4 DEF DoneFine, ImageInv
<1> QED
  BY <1>2, <1>3, <1>5 DEF ImageInv

THEOREM ImageInductive == DictSpec => []ImageInv
<1>1. DictInit => ImageInv
  BY Starts
<1>2. ImageInv /\ [DictNext]_dictVars => ImageInv'
  BY SwapKeeps, DropX8Keeps, DumptoolKeeps, BssKeeps, OpsKeeps, InlineKeeps, PlaceKeeps, WriteKeeps, StaysStill
     DEF DictNext
<1> QED
  BY <1>1, <1>2, PTL DEF DictSpec
-----------------------------------------------------------------------------
(* ---- The image, once it is made ---- *)

Laid == ImageInv /\ step = "done"

(* Nothing it asserts fails, and it reports nothing.                        *)
LEMMA Passed ==
    ASSUME Laid
    PROVE  /\ lay \in Layouts /\ words \subseteq Ids /\ DOMAIN place = words /\ Orderly
           /\ \A x \in DOMAIN dropped : x \in DOMAIN swapped /\ x \notin words /\ dropped[x] = swapped[x] /\ dropped[x] \in words
           /\ \A w \in words : image[w] = Emits(w) /\ PlacedWell(w) /\ BodyBytes(w) \in Nat \ {0}
           /\ \A w \in words : IsCode(w) => \A r \in Range(text[w].refs) :
                 /\ r.k = "C" => r.to \in words
                 /\ r.k \in {"XT", "LIT"} => Leads(r) # Nowhere
           /\ \A w \in words : ~IsCode(w) => \A j \in DOMAIN W(w).cells : Field(w, j) # Nowhere
           /\ \A e \in Listed : EntryAt(e) # Nowhere /\ BodyAt(EntryOf(e).xt) # Nowhere
<1>1. /\ LayFine /\ TextFine /\ SwapFine /\ WordsFine /\ DropFine /\ MoveFine /\ PlaceFine /\ DoneFine /\ step = "done"
  BY DEF Laid, ImageInv
<1>2. ~Dies /\ ~Refuses /\ image = [w \in words |-> Emits(w)]
  BY <1>1 DEF DoneFine
<1>3. lay \in Layouts /\ words \subseteq Ids /\ DOMAIN place = words /\ Orderly
  BY <1>1 DEF LayFine, WordsFine, PlaceFine, Orderly
<1>4. \A x \in DOMAIN dropped : x \in DOMAIN swapped /\ x \notin words /\ dropped[x] = swapped[x] /\ dropped[x] \in words
  BY <1>1, <1>2 DEF DropFine, Dies
<1>5. \A w \in words : image[w] = Emits(w)
  BY <1>2
<1>6. \A w \in words : PlacedWell(w) /\ BodyBytes(w) \in Nat \ {0}
  BY <1>1, <1>3, BodyIs DEF PlaceFine
<1>7. \A w \in words : IsCode(w) => \A r \in Range(text[w].refs) : r.k = "C" => r.to \in words
  BY <1>2 DEF Dies
<1>8. \A w \in words : IsCode(w) => \A r \in Range(text[w].refs) : r.k \in {"XT", "LIT"} => Leads(r) # Nowhere
  BY <1>2 DEF Refuses
<1>9. \A w \in words : ~IsCode(w) => \A j \in DOMAIN W(w).cells : Field(w, j) # Nowhere
  BY <1>2 DEF Refuses
<1>10. \A e \in Listed : EntryAt(e) # Nowhere /\ BodyAt(EntryOf(e).xt) # Nowhere
  BY <1>2 DEF Refuses
<1> QED
  BY <1>3, <1>4, <1>5, <1>6, <1>7, <1>8, <1>9, <1>10

LEMMA EmittedWell ==
    ASSUME Laid, NEW w \in words
    PROVE  image[w].back = Back(w) /\ image[w].goes = GoesOf(w) /\ image[w].tail = TailOf(w)
<1>1. image[w] = [back |-> Back(w), goes |-> GoesOf(w), does |-> DoesOf(w), tail |-> TailOf(w)]
  BY Passed, EmittedIs
<1> QED
  BY <1>1

(* No two words have a byte in common.                                      *)
LEMMA WordsApart ==
    ASSUME Laid, NEW u \in words, NEW w \in words, u # w
    PROVE  PutAt(u) + BodyBytes(u) <= LinkAt(w) \/ PutAt(w) + BodyBytes(w) <= LinkAt(u)
<1>1. PlaceFine /\ DOMAIN place = words /\ Orderly
  BY Passed DEF Laid, ImageInv
<1>2. Precedes(u, w) \/ Precedes(w, u)
  BY <1>1, PrecedesIs
<1> QED
  BY <1>1, <1>2 DEF PlaceFine

LEMMA BodiesApart ==
    ASSUME Laid, NEW u \in words, NEW w \in words, place[u].body = place[w].body
    PROVE  u = w
<1>1. PlacedWell(u) /\ PlacedWell(w) /\ BodyBytes(u) \in Nat \ {0} /\ BodyBytes(w) \in Nat \ {0}
  BY Passed
<1>2. PutAt(u) = PutAt(w)
  BY DEF PutAt
<1>3. LinkAt(u) <= PutAt(u) /\ LinkAt(w) <= PutAt(w) /\ LinkAt(u) \in Nat /\ LinkAt(w) \in Nat /\ PutAt(u) \in Nat
  BY <1>1 DEF PlacedWell
<1> QED
  BY <1>1, <1>2, <1>3, WordsApart

(* An address of a body is the word's or, of an X8 left out, its X's.       *)
LEMMA BodyRuns ==
    ASSUME Laid, NEW x, BodyAt(x) # Nowhere
    PROVE  /\ RunsIt(BodyAt(x), x)
           /\ \A w \in words : BodyAt(x) = place[w].body => (x = w \/ (x \in DOMAIN dropped /\ dropped[x] = w))
<1>1. \A y \in DOMAIN dropped : y \in DOMAIN swapped /\ y \notin words /\ dropped[y] = swapped[y] /\ dropped[y] \in words
  BY Passed
<1>2. CASE x \in DOMAIN dropped
  <2>1. BodyAt(x) = place[dropped[x]].body
    BY <1>2 DEF BodyAt
  <2> QED
    BY <1>1, <1>2, <2>1, BodiesApart DEF RunsIt
<1>3. CASE x \notin DOMAIN dropped
  <2>1. x \in words /\ BodyAt(x) = place[x].body
    BY <1>3 DEF BodyAt
  <2> QED
    BY <2>1, BodiesApart DEF RunsIt
<1> QED
  BY <1>2, <1>3

(* The buffers, one after another past the image.                           *)
LEMMA BuffersAre ==
    ASSUME Laid
    PROVE  /\ DOMAIN bss = 1 .. 3
           /\ \A k \in 1 .. 3 : bss[k] = 0 \/ (bss[k] \in words /\ bss[k] \in Buffers /\ W(bss[k]).kind = "data")
           /\ \A k \in 1 .. 3 : BufferBytes(bss[k]) \in Nat /\ (bss[k] # 0 => BufferBytes(bss[k]) = Len(W(bss[k]).cells) * CELL)
           /\ \A k \in 1 .. 4 : BufferAt(k) \in Nat /\ off <= BufferAt(k) /\ BufferAt(k) % CELL = 0
           /\ \A k \in 1 .. 3 : \A l \in 1 .. 4 : k < l => BufferAt(k) + BufferBytes(bss[k]) <= BufferAt(l)
<1>1. BssFine /\ lay \in Layouts /\ words \subseteq Ids /\ step = "done" /\ off \in Nat
  BY Passed DEF Laid, ImageInv, PlaceFine
<1>2. DOMAIN bss = 1 .. 3
  BY <1>1 DEF BssFine
<1>3. \A k \in 1 .. 3 : bss[k] = 0 \/ (bss[k] \in words /\ bss[k] \in Buffers /\ W(bss[k]).kind = "data")
  BY <1>1, <1>2 DEF BssFine, Buffers, Range
<1>4. \A w \in Ids : w # 0 /\ Len(W(w).cells) * CELL \in Nat
  <2>1. TAKE w \in Ids
  <2>2. PICK n \in Nat : n = Len(W(w).cells)
    BY <1>1, WordIs
  <2> QED
    BY <1>1, <2>2, TimesCell, IdsAre
<1>5. \A k \in 1 .. 3 : BufferBytes(bss[k]) \in Nat /\ (bss[k] # 0 => BufferBytes(bss[k]) = Len(W(bss[k]).cells) * CELL)
  BY <1>1, <1>3, <1>4 DEF BufferBytes
<1>12. \A k \in 1 .. 3 : BufferBytes(bss[k]) % CELL = 0
  <2>1. TAKE k \in 1 .. 3
  <2>2. CASE bss[k] = 0
    BY <2>2, CellIs, SMT DEF BufferBytes
  <2>3. CASE bss[k] # 0
    <3>1. bss[k] \in Ids
      BY <1>1, <1>3, <2>3
    <3>2. PICK n \in Nat : n = Len(W(bss[k]).cells)
      BY <1>1, <3>1, WordIs
    <3> QED
      BY <1>5, <2>3, <3>2, TimesCell
  <2> QED
    BY <2>2, <2>3
<1>6. PICK e \in Nat : e = UpToCell(off) /\ off <= e /\ e % CELL = 0
  BY <1>1, UpToCellIs
<1>7. PICK a \in Nat, b \in Nat, c \in Nat : a = BufferBytes(bss[1]) /\ b = BufferBytes(bss[2]) /\ c = BufferBytes(bss[3])
  BY <1>5
<1>8. BufferAt(1) = e /\ BufferAt(2) = e + a /\ BufferAt(3) = e + a + b /\ BufferAt(4) = e + a + b + c
  BY <1>6, <1>7 DEF BufferAt
<1>9. \A k \in 1 .. 4 : k = 1 \/ k = 2 \/ k = 3 \/ k = 4
  OBVIOUS
<1>10. \A k \in 1 .. 4 : BufferAt(k) \in Nat /\ off <= BufferAt(k)
  BY <1>1, <1>6, <1>7, <1>8, <1>9
<1>13. \A k \in 1 .. 4 : BufferAt(k) % CELL = 0
  <2>1. a % CELL = 0 /\ b % CELL = 0 /\ c % CELL = 0
    BY <1>7, <1>12
  <2>2. (e + a) % CELL = 0
    BY <1>6, <1>7, <2>1, SumOfCells
  <2>3. (e + a + b) % CELL = 0
    <3>1. e + a \in Nat
      BY <1>6, <1>7
    <3> QED
      BY <1>7, <2>1, <2>2, <3>1, SumOfCells
  <2>4. (e + a + b + c) % CELL = 0
    <3>1. e + a + b \in Nat
      BY <1>6, <1>7
    <3> QED
      BY <1>7, <2>1, <2>3, <3>1, SumOfCells
  <2> QED
    BY <1>6, <1>8, <1>9, <2>2, <2>3, <2>4
<1>11. \A k \in 1 .. 3 : \A l \in 1 .. 4 : k < l => BufferAt(k) + BufferBytes(bss[k]) <= BufferAt(l)
  <2>1. \A k \in 1 .. 3 : k = 1 \/ k = 2 \/ k = 3
    OBVIOUS
  <2> QED
    BY <1>6, <1>7, <1>8, <1>9, <2>1
<1> QED
  BY <1>2, <1>3, <1>5, <1>10, <1>11, <1>13

LEMMA BufferIs ==
    ASSUME Laid, NEW w \in Buffers
    PROVE  \E k \in 1 .. 3 : bss[k] = w /\ FieldAt(w) = BufferAt(k)
<1>1. PICK k \in DOMAIN bss : bss[k] = w
  BY DEF Buffers, Range
<1>2. PICK l : l = CHOOSE i \in DOMAIN bss : bss[i] = w
  OBVIOUS
<1>3. l \in DOMAIN bss /\ bss[l] = w
  BY <1>1, <1>2
<1>4. FieldAt(w) = BufferAt(l)
  BY <1>2 DEF FieldAt
<1> QED
  BY <1>3, <1>4, BuffersAre

LEMMA FieldReal ==
    ASSUME Laid, NEW v \in words
    PROVE  FieldAt(v) \in Nat /\ FieldAt(v) # Nowhere
<1>1. CASE v \in Buffers
  <2>1. PICK k \in 1 .. 3 : FieldAt(v) = BufferAt(k)
    BY <1>1, BufferIs
  <2>2. BufferAt(k) \in Nat
    BY BuffersAre, SMTT(30)
  <2> QED
    BY <2>1, <2>2 DEF Nowhere
<1>2. CASE v \notin Buffers
  <2>1. FieldAt(v) = place[v].body + CodeField
    BY <1>2 DEF FieldAt
  <2>2. place[v].body \in Nat /\ CodeField \in Nat
    BY Passed, CodeFieldIs DEF PlacedWell, PutAt
  <2> QED
    BY <2>1, <2>2 DEF Nowhere
<1> QED
  BY <1>1, <1>2

(* A parameter field is where its word pushes.                              *)
LEMMA FieldPushed ==
    ASSUME Laid, NEW v \in Ids, W(v).kind = "data", FieldAt(v) # Nowhere
    PROVE  FieldAt(v) = Pushes(v)
<1>1. lay \in Layouts /\ TextFine /\ SwapFine /\ words \subseteq Ids /\ BssFine
  BY Passed DEF Laid, ImageInv
<1>2. CASE v \in Buffers
  <2>1. PICK s \in Ids : text[v] = Buffer(v, s)
    BY <1>1, <1>2 DEF TextFine
  <2>2. IsCode(v) /\ DOMAIN text[v].refs = 1 .. 2 /\ text[v].refs[1] = Led("BUF", v)
    BY <2>1 DEF Buffer, IsCode
  <2>3. GoesOf(v) = [j \in 1 .. 2 |-> Leads(text[v].refs[j])]
    BY <2>2 DEF GoesOf
  <2>4. GoesOf(v)[1] = Leads(Led("BUF", v))
    BY <2>2, <2>3
  <2>5. Leads(Led("BUF", v)) = FieldAt(v)
    BY DEF Leads, Led
  <2>6. v \in words
    <3>1. PICK k \in DOMAIN bss : bss[k] = v /\ v # 0
      BY <1>2 DEF Buffers, Range
    <3> QED
      BY <1>1, <3>1 DEF BssFine
  <2> QED
    BY <1>2, <2>4, <2>5, <2>6, EmittedWell DEF Pushes
<1>3. CASE v \notin Buffers
  <2>1. v \in words /\ FieldAt(v) = place[v].body + CodeField
    BY <1>3 DEF FieldAt
  <2>2. ~IsCode(v)
    BY <1>1, <1>3, KindIs
  <2>3. PlacedWell(v)
    BY <2>1, Passed
  <2>4. PutAt(v) \in Nat /\ PutAt(v) % CELL = 0
    BY <2>2, <2>3 DEF PlacedWell
  <2>5. PICK a \in Nat : a = place[v].body /\ a % CELL = 0
    BY <2>4 DEF PutAt
  <2>6. UpToCell(1) = CELL
    BY CellAssumption DEF UpToCell
  <2>7. UpToCell(a + 5) = a + UpToCell(5) /\ UpToCell(a + 1) = a + UpToCell(1)
    BY <2>5, UpToCellOn
  <2>8. G.tag \in BOOLEAN
    BY <1>1, DesignIs
  <2>9. Pushes(v) = UpToCell(a + (IF G.tag THEN 5 ELSE 1))
    BY <1>3, <2>5 DEF Pushes
  <2> QED
    BY <2>1, <2>5, <2>6, <2>7, <2>8, <2>9 DEF CodeField
<1> QED
  BY <1>2, <1>3

(* A word's own X8 calls what it defers to, never the word it has become.   *)
LEMMA NotItself ==
    ASSUME Laid, NEW w \in words, NEW x \in DOMAIN swapped, swapped[x] = w, ~Defers(w, x)
    PROVE  x = origin[w]
<1>1. SwapFine /\ lay \in Layouts /\ words \subseteq Ids
  BY Passed DEF Laid, ImageInv
<1>2. PICK y : y = origin[w]
  OBVIOUS
<1>3. x \in Ids /\ W(x).name \in DOMAIN Suffixed /\ W(w).name = Suffixed[W(x).name]
      /\ x <= y /\ y \in DOMAIN swapped /\ swapped[y] = w
  BY <1>1, <1>2 DEF SwapFine
<1>4. y \in Ids /\ W(y).name \in DOMAIN Suffixed /\ W(w).name = Suffixed[W(y).name]
  BY <1>1, <1>3 DEF SwapFine
<1>5. W(y).name = W(x).name
  BY <1>3, <1>4, ImageAssumption
<1>6. ~(x < y)
  BY <1>2, <1>3, <1>5 DEF Defers
<1>7. x \in Nat /\ y \in Nat
  BY <1>1, <1>3, <1>4, IdsAre
<1> QED
  BY <1>2, <1>3, <1>6, <1>7

(* What a variable's slot leads to is never left out: it is older than the  *)
(* word it is in, or than the X8 that word's body is from, and these are   *)
(* older than the dump tool.                                               *)
LEMMA SlotsWordStays ==
    ASSUME Laid, NEW w \in words, NEW j \in DOMAIN W(origin[w]).refs, W(origin[w]).refs[j].k = "VAR"
    PROVE  W(origin[w]).refs[j].to \in words /\ W(W(origin[w]).refs[j].to).kind = "data"
<1>1. /\ lay \in Layouts /\ SwapFine /\ WordsFine /\ words \subseteq Ids
  BY Passed DEF Laid, ImageInv
<1>2. PICK x : x = origin[w]
  OBVIOUS
<1>3. x \in Ids /\ (x = w \/ x \in DOMAIN swapped)
  BY <1>1, <1>2 DEF SwapFine
<1>4. PICK v : v = W(x).refs[j].to
  OBVIOUS
<1>5. v \in Ids /\ v < x /\ W(v).kind = "data"
  BY <1>1, <1>2, <1>3, <1>4, RefIs
<1>6. SUFFICES ASSUME v \notin words PROVE FALSE
  BY <1>2, <1>4, <1>5
<1>7. PICK n \in Ids : W(n).name = "NFA" /\ n <= v /\ \A u \in words : u < n
  BY <1>1, <1>5, <1>6 DEF WordsFine
<1>8. x < n
  <2>1. CASE x = w
    BY <1>7, <2>1
  <2>2. CASE x \in DOMAIN swapped
    <3>1. W(x).name \in DOMAIN Suffixed
      BY <1>1, <2>2 DEF SwapFine
    <3> QED
      BY <1>1, <1>3, <1>7, <3>1, ToolIsLast
  <2> QED
    BY <1>3, <2>1, <2>2
<1> QED
  BY <1>1, <1>3, <1>5, <1>7, <1>8, IdsAre

(* A parameter field is on a cell, which a scale no larger reaches.         *)
LEMMA FieldOnCell ==
    ASSUME Laid, NEW v \in words, W(v).kind = "data"
    PROVE  FieldAt(v) \in Nat /\ FieldAt(v) % CELL = 0
<1>1. lay \in Layouts /\ TextFine /\ SwapFine /\ words \subseteq Ids
  BY Passed DEF Laid, ImageInv
<1>2. CASE v \in Buffers
  <2>1. PICK k \in 1 .. 3 : FieldAt(v) = BufferAt(k)
    BY <1>2, BufferIs
  <2> QED
    BY <2>1, BuffersAre
<1>3. CASE v \notin Buffers
  <2>1. FieldAt(v) = place[v].body + CodeField
    BY <1>3 DEF FieldAt
  <2>2. ~IsCode(v)
    BY <1>1, <1>3, KindIs
  <2>3. PutAt(v) \in Nat /\ PutAt(v) % CELL = 0
    BY <2>2, Passed DEF PlacedWell
  <2>4. PICK a \in Nat, b \in Nat : a = place[v].body /\ b = CodeField /\ a % CELL = 0 /\ b % CELL = 0
    BY <1>1, <2>3, CodeFieldIs DEF PutAt
  <2>5. (a + b) % CELL = 0
    BY <2>4, SumOfCells
  <2> QED
    BY <2>1, <2>4, <2>5
<1> QED
  BY <1>2, <1>3

LEMMA SlotReaches ==
    ASSUME Laid, NEW v \in words, W(v).kind = "data"
    PROVE  SlotLands(SlotLeads(v), v)
<1>1. lay \in Layouts /\ words \subseteq Ids
  BY Passed DEF Laid, ImageInv
<1>2. FieldAt(v) # Nowhere /\ FieldAt(v) = Pushes(v)
  BY <1>1, FieldReal, FieldPushed
<1>3. PICK a \in Nat : a = FieldAt(v) /\ a % CELL = 0
  BY FieldOnCell
<1>4. PICK s \in {1, 2, 4, 8} : s = G.scale
  BY <1>1, DesignIs
<1>5. s <= CELL => a % s = 0
  <2>1. CASE CELL = 4
    BY <1>3, <1>4, <2>1
  <2>2. CASE CELL = 8
    BY <1>3, <1>4, <2>2
  <2> QED
    BY <2>1, <2>2, CellIs
<1>6. G.scale <= CELL => Scaled(FieldAt(v))
  BY <1>3, <1>4, <1>5 DEF Scaled
<1>7. PICK n \in Nat \ {0}, m \in Nat : n = SlotReach[G.varslot] /\ m = SlotReach[TRUE] /\ n <= m
  <2>1. /\ SlotReach[FALSE] \in Nat \ {0} /\ SlotReach[TRUE] \in Nat \ {0}
        /\ SlotReach[FALSE] <= SlotReach[TRUE]
    BY ImageAssumption, Zenon
  <2>2. PICK k \in Nat \ {0} : k = SlotReach[FALSE]
    BY <2>1, Zenon
  <2>3. PICK m \in Nat \ {0} : m = SlotReach[TRUE]
    BY <2>1, Zenon
  <2>4. k <= m
    BY <2>1, <2>2, <2>3, Zenon
  <2>5. m \in Nat /\ m <= m
    <3>1. \A i \in Nat : i <= i
      OBVIOUS
    <3>2. m \in Nat
      OBVIOUS
    <3> QED
      BY <3>1, <3>2, Zenon
  <2>6. CASE G.varslot = TRUE
    BY <2>3, <2>5, <2>6, Zenon
  <2>7. CASE G.varslot = FALSE
    BY <2>2, <2>3, <2>4, <2>5, <2>7, Zenon
  <2> QED
    BY <1>1, <2>6, <2>7, DesignIs
<1>8. SUFFICES ASSUME a % s = 0, a \div s < n
               PROVE  SlotLeads(v) = a
  BY <1>2, <1>3, <1>4, <1>6, <1>7, CellIs DEF SlotLands, Scaled
<1>9. a \div s \in Nat /\ (a \div s) * s = a
  BY <1>4, <1>8
<1>10. PICK u \in Nat : u = a \div s
  BY <1>9
<1>11. u % n = u
  BY <1>7, <1>8, <1>10
<1>12. u < n /\ n <= m
  BY <1>7, <1>8, <1>10, Zenon
<1>13. u < m
  BY <1>12
<1> QED
  BY <1>2, <1>3, <1>4, <1>7, <1>8, <1>9, <1>10, <1>11, <1>13 DEF SlotLeads, Scaled

LEMMA CodeLandsThere == ASSUME Laid PROVE CodeLands
<1>1. /\ lay \in Layouts /\ TextFine /\ SwapFine /\ DropFine /\ words \subseteq Ids
  BY Passed DEF Laid, ImageInv
<1>2. SUFFICES ASSUME NEW w \in words, IsCode(w), w \notin Buffers, text[w] # Opcode,
                      NEW j \in DOMAIN text[w].refs
               PROVE  LET r == W(origin[w]).refs[j] o == image[w].goes[j]
                      IN  CASE r.k \in {"C", "XT"} -> RunsIt(o, r.to) /\ (o = place[w].body => r.to \in {w, origin[w]})
                            [] r.k = "VAR" -> SlotLands(o, r.to)
                            [] r.k = "LIT" -> IF W(r.to).kind = "data" THEN o = Pushes(r.to) ELSE RunsIt(o, r.to)
                            [] OTHER -> TRUE
  BY DEF CodeLands
<1>3. FromOrigin(w)
  BY <1>1, <1>2 DEF TextFine
<1>4. PICK r : r = W(origin[w]).refs[j]
  OBVIOUS
<1>5. PICK t : t = text[w].refs[j]
  OBVIOUS
<1>6. t = r \/ (r.k = "C" /\ r.to \in DOMAIN swapped /\ ~Defers(w, r.to) /\ t = Led("C", swapped[r.to]))
  BY <1>2, <1>3, <1>4, <1>5 DEF FromOrigin, SentTo
<1>7. t \in Range(text[w].refs)
  BY <1>5 DEF Range
<1>8. image[w].goes[j] = Leads(t)
  BY <1>2, <1>5, EmittedWell DEF GoesOf
<1>9. /\ t.k = "C" => t.to \in words
      /\ t.k \in {"XT", "LIT"} => Leads(t) # Nowhere
  BY <1>2, <1>7, Passed
<1>10. /\ r.k \in {"XT", "LIT", "VAR"} => r.to \in Ids
       /\ r.k = "VAR" => W(r.to).kind = "data"
  <2>1. origin[w] \in Ids
    BY <1>1 DEF SwapFine
  <2>2. PICK x \in Ids : x = origin[w]
    BY <2>1
  <2>3. j \in DOMAIN W(x).refs /\ r = W(x).refs[j]
    BY <1>3, <1>4, <2>2 DEF FromOrigin
  <2> QED
    BY <1>1, <2>3, RefIs
<1>11. \A x \in DOMAIN dropped : x \in DOMAIN swapped /\ x \notin words /\ dropped[x] = swapped[x]
  BY Passed
<1>12. CASE r.k = "C"
  <2>1. t.k = "C" /\ t.to \in words
    BY <1>6, <1>9, <1>12 DEF Led
  <2>2. Leads(t) = place[t.to].body
    BY <1>11, <2>1 DEF Leads, BodyAt
  <2>3. CASE t = r
    <3>1. RunsIt(Leads(t), r.to)
      BY <2>1, <2>2, <2>3 DEF RunsIt
    <3>2. Leads(t) = place[w].body => r.to = w
      BY <2>1, <2>2, <2>3, BodiesApart
    <3> QED
      BY <1>4, <1>8, <1>12, <3>1, <3>2
  <2>4. CASE t # r
    <3>1. r.to \in DOMAIN swapped /\ ~Defers(w, r.to) /\ t.to = swapped[r.to]
      BY <1>6, <2>4 DEF Led
    <3>2. RunsIt(Leads(t), r.to)
      BY <2>1, <2>2, <3>1 DEF RunsIt
    <3>3. Leads(t) = place[w].body => r.to = origin[w]
      BY <2>1, <2>2, <3>1, BodiesApart, NotItself
    <3> QED
      BY <1>4, <1>8, <1>12, <3>2, <3>3
  <2> QED
    BY <2>3, <2>4
<1>13. CASE r.k = "XT"
  <2>1. t = r /\ Leads(t) = BodyAt(r.to) /\ BodyAt(r.to) # Nowhere
    BY <1>6, <1>9, <1>13 DEF Leads
  <2>2. RunsIt(Leads(t), r.to)
    BY <2>1, BodyRuns
  <2>3. Leads(t) = place[w].body => r.to \in {w, origin[w]}
    <3>1. SUFFICES ASSUME BodyAt(r.to) = place[w].body, r.to # w PROVE r.to = origin[w]
      BY <2>1
    <3>2. r.to \in DOMAIN dropped /\ dropped[r.to] = w
      BY <2>1, <3>1, BodyRuns
    <3>3. ~Defers(w, r.to)
      BY <1>1, <1>2, <1>5, <1>13, <2>1, <3>2, ZenonT(40) DEF DropFine
    <3> QED
      BY <1>11, <3>2, <3>3, NotItself
  <2> QED
    BY <1>4, <1>8, <1>13, <2>2, <2>3
<1>14. CASE r.k = "VAR"
  <2>1. t = r /\ Leads(t) = SlotLeads(r.to)
    BY <1>6, <1>14 DEF Leads
  <2>2. PICK v : v = r.to
    OBVIOUS
  <2>3. v \in words /\ W(v).kind = "data"
    <3>1. j \in DOMAIN W(origin[w]).refs /\ W(origin[w]).refs[j].k = "VAR"
      BY <1>3, <1>4, <1>14 DEF FromOrigin
    <3> QED
      BY <1>4, <2>2, <3>1, SlotsWordStays
  <2>4. SlotLands(SlotLeads(v), v)
    BY <2>3, SlotReaches
  <2> QED
    BY <1>4, <1>8, <1>14, <2>1, <2>2, <2>4
<1>15. CASE r.k = "LIT"
  <2>1. t = r
    BY <1>6, <1>15
  <2>2. CASE W(r.to).kind = "data"
    <3>1. Leads(t) = FieldAt(r.to) /\ FieldAt(r.to) # Nowhere
      BY <1>9, <1>15, <2>1, <2>2 DEF Leads
    <3>2. Leads(t) = Pushes(r.to)
      BY <1>10, <1>15, <2>2, <3>1, FieldPushed
    <3> QED
      BY <1>4, <1>8, <1>15, <2>2, <3>2
  <2>3. CASE W(r.to).kind # "data"
    <3>1. Leads(t) = BodyAt(r.to) /\ BodyAt(r.to) # Nowhere
      BY <1>9, <1>15, <2>1, <2>3 DEF Leads
    <3>2. RunsIt(Leads(t), r.to)
      BY <3>1, BodyRuns
    <3> QED
      BY <1>4, <1>8, <1>15, <2>3, <3>2
  <2> QED
    BY <2>2, <2>3
<1> QED
  BY <1>4, <1>12, <1>13, <1>14, <1>15
(* A data word that is no buffer is laid out, and stays data.               *)
LEMMA DataStays ==
    ASSUME Laid, NEW w \in Ids, W(w).kind = "data", W(w).name \notin DUMPTOOL
    PROVE  w \in words /\ (w \notin Buffers => ~IsCode(w))
<1>1. /\ lay \in Layouts /\ TextFine /\ SwapFine /\ WordsFine
  BY Passed DEF Laid, ImageInv
<1>2. W(w).kind # "code"
  OBVIOUS
<1>3. w \notin DOMAIN swapped
  BY <1>1, <1>2 DEF SwapFine
<1> QED
  BY <1>1, <1>2, <1>3, KindIs DEF WordsFine

LEMMA NotABuffer ==
    ASSUME Laid, NEW w, W(w).name \in {"FORTH-WORDLIST", "DP", "BUILTIN-LIST"}
    PROVE  w \notin Buffers
<1>1. SUFFICES ASSUME w \in Buffers PROVE FALSE
  OBVIOUS
<1>2. PICK k \in DOMAIN bss : bss[k] = w /\ w # 0
  BY <1>1 DEF Buffers, Range
<1>3. BssFine /\ DOMAIN bss = 1 .. 3
  BY BuffersAre DEF Laid, ImageInv
<1>4. W(w).name = BSS_WORDS[k] /\ k \in 1 .. 3
  BY <1>2, <1>3 DEF BssFine
<1>5. BSS_WORDS[k] \in {"TIB", "POCKET", "INCLUDE-BUFFER"}
  BY <1>4 DEF BSS_WORDS
<1> QED
  BY <1>4, <1>5

LEMMA CellsLandThere == ASSUME Laid PROVE CellsLand
<1>1. /\ lay \in Layouts /\ TextFine /\ SwapFine /\ words \subseteq Ids
  BY Passed DEF Laid, ImageInv
<1>2. SUFFICES ASSUME NEW w \in words, ~IsCode(w), NEW j \in DOMAIN W(w).cells
               PROVE  LET c == W(w).cells[j] o == image[w].goes[j]
                      IN  CASE c.k = "body" /\ c.to # 0 -> RunsIt(o, c.to)
                            [] c.k = "field" /\ c.to # 0 -> o = Pushes(c.to)
                            [] OTHER -> TRUE
  BY DEF CellsLand
<1>3. PICK c : c = W(w).cells[j]
  OBVIOUS
<1>4. SUFFICES ASSUME c.k \in {"body", "field"}, c.to # 0
               PROVE  IF c.k = "body" THEN RunsIt(image[w].goes[j], c.to) ELSE image[w].goes[j] = Pushes(c.to)
  BY <1>3
<1>5. CellOK(lay.dump, w, j) /\ W(w) = lay.dump[w] /\ w \in Ids
  BY <1>1, <1>2, CellsAre DEF W
<1>6. \/ c.k = "body" /\ j = 1 /\ (Made(lay.dump, w, "DEFER") \/ Is(lay.dump, w, "BOOT"))
      \/ /\ c.k = "field" /\ ((Made(lay.dump, w, "BUFFER:") /\ j = 3) \/ (Is(lay.dump, w, "BUF-LIST") /\ j = 1))
         /\ c.to \in Ids /\ W(c.to).kind = "data"
  BY <1>3, <1>4, <1>5 DEF CellOK, Ids, W
<1>7. w # WordList
  <2>1. SUFFICES ASSUME w = WordList PROVE FALSE
    OBVIOUS
  <2>2. W(w).name = "FORTH-WORDLIST" /\ W(w).behind = 0
    BY <1>1, <1>5, <2>1, WordListIs, WordIs
  <2> QED
    BY <1>5, <1>6, <2>2 DEF Made, Is
<1>8. image[w].goes[j] = Field(w, j) /\ Field(w, j) # Nowhere
  <2>1. Parameters(w) = Len(W(w).cells)
    BY <1>7 DEF Parameters
  <2>2. DOMAIN W(w).cells = 1 .. Len(W(w).cells)
    BY <1>1, <1>5, WordIs
  <2>3. Field(w, j) # Nowhere
    BY <1>2, Passed
  <2>4. GoesOf(w)[j] = Field(w, j)
    BY <1>2, <2>1, <2>2 DEF GoesOf
  <2> QED
    BY <1>2, <2>3, <2>4, EmittedWell
<1>9. CASE c.k = "body" /\ j = 1 /\ (Made(lay.dump, w, "DEFER") \/ Is(lay.dump, w, "BOOT"))
  <2>1. Field(w, j) = BodyAt(c.to)
    <3>1. CASE Made(lay.dump, w, "DEFER")
      BY <1>3, <1>7, <1>9, <3>1 DEF Field, Made, Is
    <3>2. CASE Is(lay.dump, w, "BOOT")
      BY <1>3, <1>4, <1>7, <1>9, <3>2 DEF Field, Made, Is
    <3> QED
      BY <1>9, <3>1, <3>2
  <2> QED
    BY <1>8, <1>9, <2>1, BodyRuns
<1>10. CASE /\ c.k = "field" /\ ((Made(lay.dump, w, "BUFFER:") /\ j = 3) \/ (Is(lay.dump, w, "BUF-LIST") /\ j = 1))
            /\ c.to \in Ids /\ W(c.to).kind = "data"
  <2>1. Field(w, j) = FieldAt(c.to)
    <3>1. CASE Made(lay.dump, w, "BUFFER:") /\ j = 3
      BY <1>3, <1>4, <1>7, <1>10, <3>1 DEF Field, Made, Is
    <3>2. CASE Is(lay.dump, w, "BUF-LIST") /\ j = 1
      BY <1>3, <1>4, <1>7, <1>10, <3>2 DEF Field, Made, Is
    <3> QED
      BY <1>10, <3>1, <3>2
  <2> QED
    BY <1>8, <1>10, <2>1, FieldPushed
<1> QED
  BY <1>6, <1>9, <1>10

LEMMA BuffersApartThere == ASSUME Laid PROVE BuffersApart
<1>1. lay \in Layouts /\ words \subseteq Ids
  BY Passed
<1>2. PICK d \in Ids : W(d).name = "DP" /\ Len(W(d).cells) > 0
  <2>1. DumpOK(lay.dump)
    BY <1>1, LayoutsAssumption
  <2> QED
    BY <2>1 DEF DumpOK, Ids, W
<1>3. W(d).kind = "data" /\ W(d).behind = 0 /\ \A u \in Ids : W(u).name = "DP" => u = d
  BY <1>1, <1>2, WordIs
<1>4. d \in words /\ ~IsCode(d)
  BY <1>2, <1>3, DataStays, NotABuffer DEF DUMPTOOL
<1>5. Newest("DP", words) = d
  BY <1>1, <1>2, <1>3, <1>4, NewestIs, SMTT(30)
<1>6. d # WordList
  BY <1>1, <1>2, WordListIs
<1>7. image[d].goes[1] = Field(d, 1)
  <2>1. Parameters(d) = Len(W(d).cells) /\ Len(W(d).cells) \in Nat
    BY <1>1, <1>6, WordIs DEF Parameters
  <2>2. 1 \in 1 .. Parameters(d)
    BY <1>2, <2>1
  <2> QED
    BY <1>4, <2>2, EmittedWell DEF GoesOf
<1>8. Field(d, 1) = IF Buffers = {} THEN off ELSE BufferAt(4)
  BY <1>2, <1>3, <1>6 DEF Field, Made, Is, W
<1>9. ASSUME NEW w \in Buffers
      PROVE  \E k \in 1 .. 3 : bss[k] = w /\ Pushes(w) = BufferAt(k) /\ Len(W(w).cells) * CELL = BufferBytes(w)
  <2>1. PICK k \in 1 .. 3 : bss[k] = w /\ FieldAt(w) = BufferAt(k)
    BY BufferIs
  <2>2. w \in words /\ W(w).kind = "data" /\ w # 0
    BY <2>1, BuffersAre DEF Buffers
  <2>3. FieldAt(w) = Pushes(w)
    BY <1>1, <2>2, FieldReal, FieldPushed
  <2> QED
    BY <2>1, <2>2, <2>3, BuffersAre
<1>10. ASSUME NEW w \in Buffers
       PROVE  /\ off <= Pushes(w) /\ Pushes(w) + Len(W(w).cells) * CELL <= BufferAt(4)
              /\ \A u \in Buffers \ {w} : \/ Pushes(w) + Len(W(w).cells) * CELL <= Pushes(u)
                                          \/ Pushes(u) + Len(W(u).cells) * CELL <= Pushes(w)
  <2>1. PICK k \in 1 .. 3 : bss[k] = w /\ Pushes(w) = BufferAt(k) /\ Len(W(w).cells) * CELL = BufferBytes(w)
    BY <1>9
  <2>2. off <= BufferAt(k) /\ BufferAt(k) + BufferBytes(bss[k]) <= BufferAt(4)
    BY BuffersAre, SMTT(30)
  <2>3. ASSUME NEW u \in Buffers \ {w}
        PROVE  \/ Pushes(w) + Len(W(w).cells) * CELL <= Pushes(u)
               \/ Pushes(u) + Len(W(u).cells) * CELL <= Pushes(w)
    <3>1. PICK l \in 1 .. 3 : bss[l] = u /\ Pushes(u) = BufferAt(l) /\ Len(W(u).cells) * CELL = BufferBytes(u)
      BY <1>9
    <3>2. k < l \/ l < k
      BY <2>1, <3>1
    <3>3. k < l => BufferAt(k) + BufferBytes(bss[k]) <= BufferAt(l)
      BY BuffersAre, SMTT(30)
    <3>4. l < k => BufferAt(l) + BufferBytes(bss[l]) <= BufferAt(k)
      BY BuffersAre, SMTT(30)
    <3> QED
      BY <2>1, <3>1, <3>2, <3>3, <3>4
  <2> QED
    BY <2>1, <2>2, <2>3
<1>11. Buffers # {} => image[Newest("DP", words)].goes[1] = BufferAt(4)
  BY <1>5, <1>7, <1>8
<1> QED
  BY <1>10, <1>11 DEF BuffersApart
-----------------------------------------------------------------------------
(* ---- Walks: a head, and a step as often as is asked ---- *)

LEMMA Climb ==
    ASSUME NEW N \in Nat, NEW U, 0 \in U, \A k \in 1 .. N : k - 1 \in U => k \in U
    PROVE  \A k \in 0 .. N : k \in U
<1> DEFINE T == {k \in 0 .. N : k \notin U}
<1>1. SUFFICES ASSUME T # {} PROVE FALSE
  OBVIOUS
<1>2. PICK m \in T : \A k \in T : m <= k
  <2>1. T \in SUBSET Nat
    OBVIOUS
  <2> HIDE DEF T
  <2> QED
    BY <1>1, <2>1, LeastOf
<1>3. m \in 1 .. N /\ m - 1 \in 0 .. N
  OBVIOUS
<1>4. m - 1 \notin T
  <2>1. ~(m <= m - 1)
    BY <1>3
  <2> HIDE DEF T
  <2> QED
    BY <1>2, <2>1
<1> QED
  BY <1>3, <1>4

Walks(f, N, S, base, go) == f \in [0 .. N -> S] /\ f[0] = base /\ \A k \in 1 .. N : f[k] = go[f[k - 1]]

LEMMA WalkExists ==
    ASSUME NEW N \in Nat, NEW S, NEW base \in S, NEW go \in [S -> S]
    PROVE  \E f : Walks(f, N, S, base, go)
<1> DEFINE U == {m \in 0 .. N : \E f : Walks(f, m, S, base, go)}
<1>1. 0 \in U
  <2> DEFINE f == [k \in 0 .. 0 |-> base]
  <2>1. f \in [0 .. 0 -> S] /\ f[0] = base /\ ~\E k : k \in 1 .. 0
    OBVIOUS
  <2>2. Walks(f, 0, S, base, go)
    BY <2>1 DEF Walks
  <2> HIDE DEF f
  <2> QED
    BY <2>2
<1>2. ASSUME NEW m \in 1 .. N, m - 1 \in U
      PROVE  m \in U
  <2>1. PICK f : Walks(f, m - 1, S, base, go)
    BY <1>2
  <2>2. m - 1 \in 0 .. m - 1 /\ f[m - 1] \in S /\ f \in [0 .. m - 1 -> S] /\ 0 \in 0 .. m - 1 /\ 0 # m
    BY <2>1 DEF Walks
  <2> DEFINE g == [k \in 0 .. m |-> IF k = m THEN go[f[m - 1]] ELSE f[k]]
  <2>3. \A k \in 0 .. m : k = m \/ k \in 0 .. m - 1
    OBVIOUS
  <2>4. g \in [0 .. m -> S] /\ (\A k \in 0 .. m - 1 : g[k] = f[k]) /\ g[m] = go[f[m - 1]]
    BY <2>2, <2>3
  <2> HIDE DEF g
  <2>5. g[0] = base
    BY <2>1, <2>2, <2>4 DEF Walks
  <2>6. ASSUME NEW k \in 1 .. m PROVE g[k] = go[g[k - 1]]
    <3>1. k - 1 \in 0 .. m - 1 /\ g[k - 1] = f[k - 1]
      BY <2>4
    <3>2. k # m => k \in 1 .. m - 1 /\ k \in 0 .. m - 1
      OBVIOUS
    <3>3. k # m => f[k] = go[f[k - 1]]
      BY <2>1, <3>2 DEF Walks
    <3> QED
      BY <2>4, <3>1, <3>2, <3>3
  <2>7. Walks(g, m, S, base, go)
    BY <2>4, <2>5, <2>6 DEF Walks
  <2>8. m \in 0 .. N
    OBVIOUS
  <2> QED
    BY <2>7, <2>8
<1> HIDE DEF U
<1>3. \A k \in 0 .. N : k \in U
  BY <1>1, <1>2, Climb
<1>4. N \in U
  BY <1>3
<1> QED
  BY <1>4 DEF U

-----------------------------------------------------------------------------
(* ---- The builtins' list ---- *)

List == Newest("BUILTIN-LIST", words)

LEMMA ListIs ==
    ASSUME Laid, List # 0
    PROVE  /\ List \in words /\ List \in Ids /\ W(List).name = "BUILTIN-LIST" /\ W(List).behind = 0
           /\ Len(W(List).cells) \in Nat /\ Len(W(List).cells) > 0
           /\ image[List].goes[1] = IF W(List).cells[1].to = NoEntry THEN 0 ELSE EntryAt(W(List).cells[1].to)
           /\ IsEntry(lay.dump, W(List).cells[1].to)
<1>1. lay \in Layouts /\ words \subseteq Ids
  BY Passed
<1>2. PICK l : l = List
  OBVIOUS
<1>3. l \in words /\ l \in Ids /\ W(l).name = "BUILTIN-LIST"
  BY <1>1, <1>2, NewestIs DEF List
<1>4. W(l).kind = "data" /\ W(l).behind = 0 /\ Len(W(l).cells) \in Nat /\ Len(W(l).cells) > 0
      /\ DOMAIN W(l).cells = 1 .. Len(W(l).cells)
  BY <1>1, <1>3, WordIs
<1>5. l # WordList
  BY <1>1, <1>3, WordListIs
<1>6. ~IsCode(l)
  BY <1>3, <1>4, DataStays, NotABuffer DEF DUMPTOOL
<1>7. 1 \in DOMAIN W(l).cells /\ 1 \in 1 .. Parameters(l)
  BY <1>4, <1>5 DEF Parameters
<1>8. Is(lay.dump, l, "BUILTIN-LIST")
  BY <1>3, <1>4 DEF Is, Made, W
<1>9. Field(l, 1) = IF W(l).cells[1].to = NoEntry THEN 0 ELSE EntryAt(W(l).cells[1].to)
  BY <1>3, <1>4, <1>5, <1>8 DEF Field, Made, Is, W
<1>10. image[l].goes[1] = Field(l, 1)
  BY <1>3, <1>6, <1>7, EmittedWell DEF GoesOf
<1>11. IsEntry(lay.dump, W(l).cells[1].to)
  <2>1. CellOK(lay.dump, l, 1)
    BY <1>1, <1>3, <1>7, CellsAre
  <2> QED
    BY <1>8, <2>1 DEF CellOK, W
<1> QED
  BY <1>2, <1>3, <1>4, <1>9, <1>10, <1>11

LEMMA EntryIs ==
    ASSUME NEW e, e \in Entries
    PROVE  e[1] \in Ids /\ e[2] \in DOMAIN W(e[1]).tail /\ e = <<e[1], e[2]>>
<1>1. PICK w \in Ids : e \in {w} \X DOMAIN W(w).tail
  BY DEF Entries
<1> QED
  BY <1>1

LEMMA IsAnEntry ==
    ASSUME NEW e, IsEntry(lay.dump, e), e # NoEntry
    PROVE  e \in Entries
<1>1. PICK w \in Ids : e \in {w} \X DOMAIN W(w).tail
  BY DEF IsEntry, Ids, W
<1> QED
  BY <1>1 DEF Entries

LEMMA ListedAre ==
    ASSUME Laid, List # 0
    PROVE  /\ Listed \subseteq Entries
           /\ W(List).cells[1].to \in Listed \cup {NoEntry}
           /\ \A e \in Listed : EntryOf(e).link \in Listed \cup {NoEntry}
<1> DEFINE On(S) == W(List).cells[1].to \in S \cup {NoEntry} /\ \A e \in S : EntryOf(e).link \in S \cup {NoEntry}
<1>1. Listed = {e \in Entries : \A S \in SUBSET Entries : On(S) => e \in S}
  BY Zenon DEF Listed, List
<1>2. lay \in Layouts
  BY Passed
<1>3. W(List).cells[1].to \in Listed \cup {NoEntry}
  <2>1. W(List).cells[1].to \in Entries \cup {NoEntry}
    BY ListIs, IsAnEntry
  <2> QED
    BY <1>1, <2>1
<1>4. ASSUME NEW e \in Listed PROVE EntryOf(e).link \in Listed \cup {NoEntry}
  <2>1. e \in Entries /\ \A S \in SUBSET Entries : On(S) => e \in S
    BY <1>1
  <2>2. PICK l : l = EntryOf(e).link
    OBVIOUS
  <2>3. e[1] \in Ids /\ e[2] \in DOMAIN W(e[1]).tail
    BY <2>1, EntryIs
  <2>4. WordOK(lay.dump, e[1])
    BY <1>2, <2>3, LayoutsAssumption DEF DumpOK, Ids
  <2>5. EntryOf(e) \in Range(lay.dump[e[1]].tail)
    BY <2>3 DEF EntryOf, Range, W
  <2>6. IsEntry(lay.dump, l)
    BY <2>2, <2>4, <2>5 DEF WordOK
  <2>7. l # NoEntry => l \in Entries
    BY <2>6, IsAnEntry
  <2>8. ASSUME NEW S \in SUBSET Entries, On(S) PROVE l \in S \cup {NoEntry}
    BY <2>1, <2>2, <2>8
  <2> HIDE DEF On
  <2> QED
    BY <1>1, <2>2, <2>7, <2>8
<1> QED
  BY <1>1, <1>3, <1>4

LEMMA EntryFits ==
    ASSUME Laid, NEW e \in Listed
    PROVE  /\ e[1] \in words /\ e[2] \in DOMAIN W(e[1]).tail /\ e = <<e[1], e[2]>> /\ TailBytes(e[1]) # 0
           /\ e[2] \in Nat /\ EntryBytes \in Nat \ {0}
           /\ EntryAt(e) = place[e[1]].body + UpToCell(text[e[1]].size) + (e[2] - 1) * EntryBytes
           /\ EntryAt(e) \in Nat /\ PutAt(e[1]) <= EntryAt(e) /\ EntryAt(e) < PutAt(e[1]) + BodyBytes(e[1])
<1>1. lay \in Layouts /\ words \subseteq Ids /\ TextFine /\ SwapFine
  BY Passed DEF Laid, ImageInv
<1>2. e \in Entries
  BY Zenon DEF Listed
<1>3. PICK w, i : w = e[1] /\ i = e[2]
  OBVIOUS
<1>4. w \in Ids /\ i \in DOMAIN W(w).tail /\ e = <<w, i>>
  BY <1>2, <1>3, EntryIs
<1>5. w \in words /\ TailBytes(w) # 0
      /\ EntryAt(e) = place[w].body + UpToCell(text[w].size) + (i - 1) * EntryBytes
  <2>1. EntryAt(e) # Nowhere
    BY Passed
  <2> QED
    BY <1>3, <2>1 DEF EntryAt
<1>6. PICK n \in Nat : n = Len(W(w).tail) /\ i \in 1 .. n
  BY <1>1, <1>4, WordIs
<1>7. PICK b \in Nat \ {0} : b = EntryBytes
  BY CellIs DEF EntryBytes
<1>8. IsCode(w) /\ TailBytes(w) = n * b
  BY <1>5, <1>6, <1>7 DEF TailBytes
<1>9. ~G.bytehdr
  BY <1>1, <1>4, <1>5, TailIs, DesignIs
<1>10. PICK s \in Nat : s = UpToCell(text[w].size)
  BY <1>1, <1>4, SizeIs, UpToCellIs
<1>11. JitHeader(w) = 0
  BY <1>5 DEF JitHeader, AlignedBody
<1>12. BodyBytes(w) = s + n * b
  <2>1. PICK z \in Nat \ {0} : z = text[w].size
    BY <1>1, <1>4, SizeIs
  <2>2. BodyBytes(w) = UpToCell(0 + z) + n * b
    BY <1>8, <1>9, <1>11, <2>1 DEF BodyBytes
  <2>3. 0 + z = z
    OBVIOUS
  <2> QED
    BY <1>10, <2>1, <2>2, <2>3
<1>13. PICK p \in Nat : p = place[w].body
  BY <1>5, Passed DEF PlacedWell, PutAt
<1>14. (i - 1) * b \in Nat /\ (i - 1) * b + b <= n * b /\ n * b \in Nat
  <2>1. PICK m \in Nat : m = i - 1 /\ m + 1 <= n
    BY <1>6
  <2>2. m * b \in Nat /\ n * b \in Nat /\ (n - m) * b >= b
    <3>1. PICK r \in Nat : n = m + 1 + r
      <4>1. n - m - 1 \in Nat /\ n = m + 1 + (n - m - 1)
        BY <2>1
      <4> QED
        BY <4>1
    <3>2. (n - m) * b = b + r * b
      BY <3>1
    <3> QED
      BY <3>2
  <2>3. (n - m) * b = n * b - m * b
    BY <2>1
  <2> QED
    BY <2>1, <2>2, <2>3
<1>15. PICK q \in Nat, t \in Nat : q = (i - 1) * b /\ t = n * b /\ q + b <= t
  BY <1>14
<1>16. EntryAt(e) = p + s + q /\ PutAt(w) = p /\ BodyBytes(w) = s + t
  BY <1>5, <1>7, <1>10, <1>12, <1>13, <1>15 DEF PutAt
<1>17. EntryAt(e) \in Nat /\ PutAt(w) <= EntryAt(e) /\ EntryAt(e) < PutAt(w) + BodyBytes(w)
  BY <1>15, <1>16
<1> QED
  BY <1>3, <1>4, <1>5, <1>6, <1>7, <1>17
LEMMA EntriesApart ==
    ASSUME Laid, NEW e \in Listed, NEW f \in Listed, EntryAt(e) = EntryAt(f)
    PROVE  e = f
<1>1. /\ e[1] \in words /\ e = <<e[1], e[2]>> /\ e[2] \in Nat
      /\ f[1] \in words /\ f = <<f[1], f[2]>> /\ f[2] \in Nat
  BY EntryFits
<1>2. e[1] = f[1]
  <2>1. SUFFICES ASSUME e[1] # f[1] PROVE FALSE
    OBVIOUS
  <2>2. PICK u \in words, w \in words : u = e[1] /\ w = f[1] /\ u # w
    BY <1>1, <2>1
  <2>3. /\ PutAt(u) <= EntryAt(e) /\ EntryAt(e) < PutAt(u) + BodyBytes(u) /\ EntryAt(e) \in Nat
        /\ PutAt(w) <= EntryAt(f) /\ EntryAt(f) < PutAt(w) + BodyBytes(w)
    BY <2>2, EntryFits
  <2>4. PutAt(u) + BodyBytes(u) <= LinkAt(w) \/ PutAt(w) + BodyBytes(w) <= LinkAt(u)
    BY <2>2, WordsApart
  <2>5. /\ LinkAt(w) \in Nat /\ LinkAt(w) <= PutAt(w) /\ PutAt(w) \in Nat /\ BodyBytes(w) \in Nat
        /\ LinkAt(u) \in Nat /\ LinkAt(u) <= PutAt(u) /\ PutAt(u) \in Nat /\ BodyBytes(u) \in Nat
    BY Passed DEF PlacedWell
  <2> QED
    BY <2>3, <2>4, <2>5
<1>3. e[2] = f[2]
  <2>1. PICK w \in words : w = e[1]
    BY <1>1
  <2>2. PICK i \in Nat, j \in Nat : i = e[2] /\ j = f[2]
    BY <1>1
  <2>3. PICK p \in Nat, s \in Nat : p = place[w].body /\ s = UpToCell(text[w].size)
    <3>1. lay \in Layouts /\ TextFine /\ SwapFine /\ w \in Ids
      BY Passed DEF Laid, ImageInv
    <3>2. place[w].body \in Nat
      BY Passed DEF PlacedWell, PutAt
    <3> QED
      BY <3>1, <3>2, SizeIs, UpToCellIs
  <2>4. EntryAt(e) = p + s + (i - 1) * EntryBytes /\ EntryAt(f) = p + s + (j - 1) * EntryBytes
    BY <1>2, <2>1, <2>2, <2>3, EntryFits
  <2>5. EntryBytes = 16 \/ EntryBytes = 32
    BY CellAssumption DEF EntryBytes
  <2>6. p + s + (i - 1) * EntryBytes = p + s + (j - 1) * EntryBytes
    BY <2>4
  <2>7. i = j
    <3>1. CASE EntryBytes = 16
      <4>1. p + s + (i - 1) * 16 = p + s + (j - 1) * 16
        BY <2>6, <3>1
      <4> QED
        BY <4>1
    <3>2. CASE EntryBytes = 32
      <4>1. p + s + (i - 1) * 32 = p + s + (j - 1) * 32
        BY <2>6, <3>2
      <4> QED
        BY <4>1
    <3> QED
      BY <2>5, <3>1, <3>2
  <2> QED
    BY <2>2, <2>7
<1> QED
  BY <1>1, <1>2, <1>3

LEMMA ListedFinite == ASSUME Laid PROVE Cardinality(Listed) \in Nat
<1> DEFINE f == [e \in Listed |-> EntryAt(e)]
<1>1. off \in Nat
  BY DEF Laid, ImageInv, PlaceFine
<1>2. \A e \in Listed : EntryAt(e) \in 0 .. off
  <2>1. TAKE e \in Listed
  <2>2. EntryAt(e) \in Nat /\ EntryAt(e) < PutAt(e[1]) + BodyBytes(e[1]) /\ e[1] \in words
    BY EntryFits
  <2>3. PutAt(e[1]) + BodyBytes(e[1]) <= off /\ PutAt(e[1]) \in Nat /\ BodyBytes(e[1]) \in Nat
    BY <2>2, Passed DEF PlacedWell
  <2> QED
    BY <1>1, <2>2, <2>3
<1>3. f \in [Listed -> 0 .. off] /\ \A x, y \in Listed : f[x] = f[y] => x = y
  BY <1>2, EntriesApart
<1> HIDE DEF f
<1>4. f \in Injection(Listed, 0 .. off)
  BY <1>3 DEF Injection, IsInjective
<1>5. IsFiniteSet(0 .. off)
  BY <1>1, FS_Interval
<1> QED
  BY <1>4, <1>5, FS_Injection, FS_CardinalityType

EntryOr0(e) == IF e = NoEntry THEN 0 ELSE EntryAt(e)

LEMMA TailLands ==
    ASSUME Laid, NEW e \in Listed
    PROVE  /\ image[e[1]].tail[e[2]][1] = EntryOr0(EntryOf(e).link)
           /\ RunsIt(image[e[1]].tail[e[2]][2], EntryOf(e).xt)
           /\ e # NoEntry
<1>1. PICK w \in words, i \in Nat : w = e[1] /\ i = e[2] /\ i \in DOMAIN W(w).tail /\ e = <<w, i>> /\ TailBytes(w) # 0
  BY EntryFits
<1>2. image[w].tail = TailOf(w)
  BY EmittedWell
<1>3. TailOf(w)[i] = <<IF W(w).tail[i].link = NoEntry THEN 0 ELSE EntryAt(W(w).tail[i].link), BodyAt(W(w).tail[i].xt)>>
  BY <1>1 DEF TailOf
<1>4. EntryOf(e) = W(w).tail[i]
  BY <1>1 DEF EntryOf
<1>5. BodyAt(EntryOf(e).xt) # Nowhere
  BY Passed
<1>6. RunsIt(BodyAt(EntryOf(e).xt), EntryOf(e).xt)
  BY <1>5, BodyRuns
<1>7. w # 0
  BY Passed, IdsAre
<1> QED
  BY <1>1, <1>2, <1>3, <1>4, <1>6, <1>7 DEF EntryOr0, NoEntry

LEMMA BuiltinsLandThere == ASSUME Laid PROVE BuiltinsLand
<1>1. SUFFICES ASSUME List # 0 PROVE BuiltinsLand
  BY DEF BuiltinsLand, List
<1>2. PICK N \in Nat : N = Cardinality(Listed)
  BY ListedFinite
<1> DEFINE here(o) == CHOOSE e \in Listed : EntryAt(e) = o
           base == <<W(List).cells[1].to, image[List].goes[1]>>
           On(p) == IF p[1] = NoEntry THEN p
                    ELSE <<EntryOf(p[1]).link, image[here(p[2])[1]].tail[here(p[2])[2]][1]>>
           S == {<<e, EntryOr0(e)>> : e \in Listed \cup {NoEntry}}
           Same(f) == f = [n \in 0 .. N |-> IF n = 0 THEN base ELSE On(f[n - 1])]
<1>3. base \in S
  BY <1>1, ListIs, ListedAre DEF EntryOr0
<1>4. ASSUME NEW p \in S PROVE On(p) \in S
  <2>1. PICK e \in Listed \cup {NoEntry} : p = <<e, EntryOr0(e)>>
    OBVIOUS
  <2>2. CASE e = NoEntry
    BY <2>1, <2>2
  <2>3. CASE e # NoEntry
    <3>1. e \in Listed /\ p[1] = e /\ p[2] = EntryAt(e)
      BY <2>1, <2>3 DEF EntryOr0
    <3>2. PICK h : h = here(p[2])
      OBVIOUS
    <3>3. h \in Listed /\ EntryAt(h) = EntryAt(e)
      BY <3>1, <3>2
    <3>4. h = e
      BY <3>1, <3>3, EntriesApart
    <3>5. On(p) = <<EntryOf(e).link, image[e[1]].tail[e[2]][1]>>
      BY <2>3, <3>1, <3>2, <3>4
    <3>6. EntryOf(e).link \in Listed \cup {NoEntry} /\ image[e[1]].tail[e[2]][1] = EntryOr0(EntryOf(e).link)
      BY <1>1, <3>1, ListedAre, TailLands
    <3> QED
      BY <3>5, <3>6
  <2> QED
    BY <2>2, <2>3
<1>5. \A p \in S : IF p[1] = NoEntry THEN p[2] = 0
                   ELSE \E h \in Listed : EntryAt(h) = p[2] /\ RunsIt(image[h[1]].tail[h[2]][2], EntryOf(p[1]).xt)
  <2>1. TAKE p \in S
  <2>2. PICK e \in Listed \cup {NoEntry} : p = <<e, EntryOr0(e)>>
    OBVIOUS
  <2> HIDE DEF S
  <2>3. CASE e = NoEntry
    BY <2>2, <2>3 DEF EntryOr0
  <2>4. CASE e # NoEntry
    BY <2>2, <2>4, TailLands DEF EntryOr0
  <2> QED
    BY <2>3, <2>4
<1>6. PICK same : same = CHOOSE f : Same(f)
  OBVIOUS
<1>7. BuiltinsLand <=>
         \A n \in 0 .. N : LET e == same[n][1] o == same[n][2]
                           IN  IF e = NoEntry THEN o = 0
                               ELSE \E h \in Listed : EntryAt(h) = o /\ RunsIt(image[h[1]].tail[h[2]][2], EntryOf(e).xt)
  BY <1>1, <1>2, <1>6 DEF BuiltinsLand, List
<1> HIDE DEF On, S, base
<1>8. \A n \in 0 .. N : same[n] \in S
  <2>1. PICK go : go = [p \in S |-> On(p)]
    OBVIOUS
  <2>2. go \in [S -> S]
    BY <1>4, <2>1
  <2>3. PICK f : Walks(f, N, S, base, go)
    BY <1>3, <2>2, WalkExists
  <2>4. f \in [0 .. N -> S] /\ f[0] = base /\ \A k \in 1 .. N : f[k] = go[f[k - 1]]
    BY <2>3 DEF Walks
  <2>5. \A k \in 1 .. N : k - 1 \in 0 .. N /\ k \in 0 .. N /\ k # 0
    OBVIOUS
  <2>6. \A k \in 1 .. N : f[k] = On(f[k - 1])
    BY <2>1, <2>4, <2>5
  <2>7. \A k \in 0 .. N : k = 0 \/ k \in 1 .. N
    OBVIOUS
  <2>8. Same(f)
    <3>1. \A k \in 0 .. N : f[k] = IF k = 0 THEN base ELSE On(f[k - 1])
      BY <2>4, <2>5, <2>6, <2>7
    <3> QED
      BY <2>4, <3>1
  <2>9. Same(same)
    BY <1>6, <2>8
  <2>10. same[0] = base /\ \A k \in 1 .. N : same[k] = On(same[k - 1])
    BY <2>5, <2>9
  <2> DEFINE U == {k \in 0 .. N : same[k] \in S}
  <2>11. 0 \in U
    BY <1>3, <2>10
  <2>12. \A k \in 1 .. N : k - 1 \in U => k \in U
    BY <1>4, <2>5, <2>10
  <2> HIDE DEF U
  <2>13. \A k \in 0 .. N : k \in U
    BY <2>11, <2>12, Climb
  <2> QED
    BY <2>13 DEF U
<1> QED
  BY <1>5, <1>7, <1>8

(* Every address of the dump is the address of the same thing in the image  *)
(* (CodeLands, CellsLand, BuiltinsLand, BuffersApart).                      *)
THEOREM LandsAlways == DictSpec => []LandsWhereItLed
<1>1. ImageInv => LandsWhereItLed
  BY CodeLandsThere, CellsLandThere, BuiltinsLandThere, BuffersApartThere DEF Laid, LandsWhereItLed
<1> QED
  BY <1>1, ImageInductive, PTL
-----------------------------------------------------------------------------
(* ---- Names are found ---- *)

LEMMA NamedOnce ==
    ASSUME Laid, NEW u \in words, NEW w \in words, W(u).name = W(w).name, Named(W(w).name) = 1
    PROVE  u = w
<1> DEFINE so == {x \in words : W(x).name = W(w).name}
<1>1. IsFiniteSet(so)
  <2>1. IsFiniteSet(Ids) /\ so \in SUBSET Ids
    BY Passed, IdsAre
  <2> HIDE DEF so
  <2> QED
    BY <2>1, FS_Subset
<1>2. Cardinality(so) = 1
  BY DEF Named
<1>3. u \in so /\ w \in so
  OBVIOUS
<1> HIDE DEF so
<1>4. PICK x : so = {x}
  BY <1>1, <1>2, FS_Singleton
<1> QED
  BY <1>3, <1>4

(* A word with a header is the one whose name is where its name is.         *)
LEMMA CalledIs ==
    ASSUME Laid, NEW w \in words, ~Headless(w)
    PROVE  NfaAt(w) \in Nat \ {0} /\ Called(NfaAt(w)) = w
<1>1. PlacedWell(w) /\ BodyBytes(w) \in Nat \ {0}
  BY Passed
<1>2. NfaAt(w) \in Nat \ {0} /\ LinkAt(w) < NfaAt(w)
  BY <1>1 DEF PlacedWell
<1>3. ASSUME NEW u \in words, NfaAt(u) = NfaAt(w), LinkAt(u) < NfaAt(w) PROVE u = w
  <2>1. PlacedWell(u) /\ BodyBytes(u) \in Nat \ {0}
    BY Passed
  <2>2. /\ LinkAt(u) \in Nat /\ NfaAt(u) <= PutAt(u) /\ PutAt(u) \in Nat
        /\ LinkAt(w) \in Nat /\ NfaAt(w) <= PutAt(w) /\ PutAt(w) \in Nat
    BY <1>1, <2>1 DEF PlacedWell
  <2> QED
    BY <1>1, <1>2, <1>3, <2>1, <2>2, WordsApart
<1>4. PICK x : x = Called(NfaAt(w))
  OBVIOUS
<1>5. x = CHOOSE u \in words : place[u].nfa = NfaAt(w) /\ place[u].link < NfaAt(w)
  BY <1>4 DEF Called
<1>6. x \in words /\ NfaAt(x) = NfaAt(w) /\ LinkAt(x) < NfaAt(w)
  BY <1>2, <1>5 DEF NfaAt, LinkAt
<1> QED
  BY <1>2, <1>3, <1>4, <1>6

LEMMA ThreadsThere ==
    ASSUME Laid
    PROVE  /\ image[WordList].goes[1] = Threads
           /\ \A t \in 0 .. Threads - 1 : image[WordList].goes[2 + t] = HeadOf(t)
<1>1. lay \in Layouts
  BY Passed
<1>2. WordList \in Ids /\ W(WordList).name = "FORTH-WORDLIST" /\ W(WordList).kind = "data" /\ Threads \in Nat \ {0}
  BY <1>1, WordListIs
<1>3. WordList \in words /\ ~IsCode(WordList)
  BY <1>2, DataStays, NotABuffer DEF DUMPTOOL
<1>4. image[WordList].goes = [j \in 1 .. Threads + 1 |-> Field(WordList, j)]
  <2>1. GoesOf(WordList) = [j \in 1 .. Parameters(WordList) |-> Field(WordList, j)]
    BY <1>3 DEF GoesOf
  <2>2. Parameters(WordList) = Threads + 1
    BY DEF Parameters
  <2> QED
    BY <1>3, <2>1, <2>2, EmittedWell
<1>5. \A j : Field(WordList, j) = IF j = 1 THEN Threads ELSE HeadOf(j - 2)
  BY <1>1, <1>2, WordIs DEF Field, Made, Is, W
<1>6. 1 \in 1 .. Threads + 1
  BY <1>2
<1>7. ASSUME NEW t \in 0 .. Threads - 1 PROVE image[WordList].goes[2 + t] = HeadOf(t)
  <2>1. 2 + t \in 1 .. Threads + 1 /\ 2 + t # 1 /\ (2 + t) - 2 = t
    BY <1>2
  <2>2. PICK j : j = 2 + t
    OBVIOUS
  <2> QED
    BY <1>4, <1>5, <2>1, <2>2
<1> QED
  BY <1>4, <1>5, <1>6, <1>7

Behind(t, w) == {u \in OnThread(t) : Precedes(u, w)}
NextAt(w) == IF image[w].back = 0 THEN 0
             ELSE IF G.bytehdr THEN place[w].nfa - image[w].back ELSE place[w].link + image[w].back

(* A link leads to the name of the word before on its thread.               *)
LEMMA NextIs ==
    ASSUME Laid, NEW t, NEW w \in OnThread(t)
    PROVE  /\ w \in words /\ ~Headless(w)
           /\ Behind(t, w) = {} => NextAt(w) = 0
           /\ Behind(t, w) # {} => /\ NextAt(w) = NfaAt(Latest(Behind(t, w)))
                                   /\ Latest(Behind(t, w)) \in Behind(t, w)
                                   /\ \A u \in Behind(t, w) \ {Latest(Behind(t, w))} : Precedes(u, Latest(Behind(t, w)))
<1>1. w \in words /\ ~Headless(w) /\ Thread(w) = t
  BY DEF OnThread
<1>2. Before(w) = Latest(Behind(t, w))
  BY <1>1 DEF Before, Behind
<1>3. Orderly /\ lay \in Layouts /\ words \subseteq Ids
  BY Passed
<1>4. Behind(t, w) \in SUBSET words
  BY DEF Behind, OnThread
<1>5. image[w].back = Back(w)
  BY <1>1, EmittedWell
<1>6. CASE Behind(t, w) = {}
  <2>1. Before(w) = 0
    BY <1>2, <1>3, <1>6, LatestIs
  <2> QED
    BY <1>1, <1>5, <1>6, <2>1 DEF NextAt, Back
<1>7. CASE Behind(t, w) # {}
  <2>1. PICK b : b = Latest(Behind(t, w))
    OBVIOUS
  <2>2. b \in Behind(t, w) /\ \A u \in Behind(t, w) \ {b} : Precedes(u, b)
    BY <1>3, <1>4, <1>7, <2>1, LatestIs
  <2>3. b \in words /\ ~Headless(b) /\ Precedes(b, w) /\ b # 0
    BY <1>3, <2>2, IdsAre DEF Behind, OnThread
  <2>4. PutAt(b) + BodyBytes(b) <= LinkAt(w)
    BY <1>1, <2>3, Passed DEF Laid, ImageInv, PlaceFine
  <2>5. /\ NfaAt(b) \in Nat /\ NfaAt(b) <= PutAt(b) /\ PutAt(b) \in Nat /\ BodyBytes(b) \in Nat \ {0}
        /\ LinkAt(w) \in Nat /\ NfaAt(w) \in Nat /\ LinkAt(w) < NfaAt(w)
    BY <1>1, <2>3, Passed DEF PlacedWell
  <2>6. Back(w) = IF G.bytehdr THEN NfaAt(w) - NfaAt(b) ELSE NfaAt(b) - LinkAt(w)
    BY <1>1, <1>2, <2>1, <2>3 DEF Back, NfaAt, LinkAt
  <2>7. Back(w) # 0
    BY <2>4, <2>5, <2>6
  <2>8. NextAt(w) = IF G.bytehdr THEN NfaAt(w) - Back(w) ELSE LinkAt(w) + Back(w)
    BY <1>5, <2>7 DEF NextAt, NfaAt, LinkAt
  <2>9. NextAt(w) = NfaAt(b)
    BY <2>5, <2>6, <2>8
  <2> QED
    BY <1>1, <1>7, <2>1, <2>2, <2>9
<1> QED
  BY <1>1, <1>6, <1>7

LEMMA FewerBehind ==
    ASSUME Laid, NEW t, NEW w \in OnThread(t)
    PROVE  /\ Cardinality(words) \in Nat /\ Cardinality(Behind(t, w)) \in Nat
           /\ Cardinality(Behind(t, w)) < Cardinality(words)
           /\ \A b \in Behind(t, w) : Cardinality(Behind(t, b)) \in Nat /\ Cardinality(Behind(t, b)) < Cardinality(Behind(t, w))
<1>1. Orderly /\ lay \in Layouts /\ words \subseteq Ids /\ IsFiniteSet(Ids)
  BY Passed, IdsAre
<1>2. IsFiniteSet(words) /\ Cardinality(words) \in Nat
  BY <1>1, FS_Subset, FS_CardinalityType
<1>3. \A x : Behind(t, x) \in SUBSET words
  BY DEF Behind, OnThread
<1>4. \A x : IsFiniteSet(Behind(t, x)) /\ Cardinality(Behind(t, x)) \in Nat
  BY <1>2, <1>3, FS_Subset, FS_CardinalityType
<1>5. w \in words /\ w \notin Behind(t, w)
  BY <1>1, PrecedesIs DEF Behind, OnThread
<1>6. Cardinality(Behind(t, w)) < Cardinality(words)
  <2>1. /\ Cardinality(Behind(t, w)) <= Cardinality(words)
        /\ Cardinality(Behind(t, w)) = Cardinality(words) => Behind(t, w) = words
    BY <1>2, <1>3, FS_Subset
  <2> QED
    BY <1>2, <1>4, <1>5, <2>1
<1>7. ASSUME NEW b \in Behind(t, w)
      PROVE  Cardinality(Behind(t, b)) < Cardinality(Behind(t, w))
  <2>1. b \in words /\ Precedes(b, w)
    BY <1>7 DEF Behind, OnThread
  <2>2. Behind(t, b) \in SUBSET Behind(t, w) /\ b \notin Behind(t, b)
    BY <1>1, <1>5, <2>1, PrecedesIs DEF Behind, OnThread
  <2>3. /\ Cardinality(Behind(t, b)) <= Cardinality(Behind(t, w))
        /\ Cardinality(Behind(t, b)) = Cardinality(Behind(t, w)) => Behind(t, b) = Behind(t, w)
    BY <1>4, <2>2, FS_Subset
  <2> QED
    BY <1>4, <1>7, <2>2, <2>3
<1> QED
  BY <1>2, <1>4, <1>6, <1>7

OnFrom(n, o) == IF o = 0 \/ W(Called(o)).name = n THEN o ELSE NextAt(Called(o))
HeadFor(n) == image[WordList].goes[2 + (Hash[n] % image[WordList].goes[1])]
MetBy(n, N, f) == f = [k \in 0 .. N |-> IF k = 0 THEN HeadFor(n) ELSE OnFrom(n, f[k - 1])]
Names(t) == {NfaAt(w) : w \in OnThread(t)}

LEMMA StepOn ==
    ASSUME Laid, NEW n, NEW t, NEW w \in OnThread(t)
    PROVE  /\ NfaAt(w) # 0 /\ Called(NfaAt(w)) = w
           /\ W(w).name = n => OnFrom(n, NfaAt(w)) = NfaAt(w)
           /\ W(w).name # n /\ Behind(t, w) = {} => OnFrom(n, NfaAt(w)) = 0
           /\ W(w).name # n /\ Behind(t, w) # {} =>
                 /\ Latest(Behind(t, w)) \in Behind(t, w) /\ Latest(Behind(t, w)) \in OnThread(t)
                 /\ \A u \in Behind(t, w) \ {Latest(Behind(t, w))} : Precedes(u, Latest(Behind(t, w)))
                 /\ OnFrom(n, NfaAt(w)) = NfaAt(Latest(Behind(t, w)))
<1>1. w \in words /\ ~Headless(w)
  BY DEF OnThread
<1>2. NfaAt(w) # 0 /\ Called(NfaAt(w)) = w
  BY <1>1, CalledIs
<1>3. OnFrom(n, NfaAt(w)) = IF W(w).name = n THEN NfaAt(w) ELSE NextAt(w)
  BY <1>2 DEF OnFrom
<1>4. \A b \in Behind(t, w) : b \in OnThread(t)
  BY DEF Behind
<1> QED
  BY <1>2, <1>3, <1>4, NextIs

(* The walk there is, from the thread's head.                               *)
LEMMA LookupIs ==
    ASSUME Laid, NEW x \in Ids, NEW n, n = W(x).name
    PROVE  \E f : /\ Lookup(n) = IF f[Cardinality(words)] = 0 THEN 0 ELSE Called(f[Cardinality(words)])
                  /\ f[0] = IF OnThread(Thread(x)) = {} THEN 0 ELSE NfaAt(Latest(OnThread(Thread(x))))
                  /\ \A k \in 1 .. Cardinality(words) : f[k] = OnFrom(n, f[k - 1])
<1>1. lay \in Layouts /\ words \subseteq Ids /\ IsFiniteSet(Ids) /\ Orderly
  BY Passed, IdsAre
<1>2. PICK N \in Nat : N = Cardinality(words)
  BY <1>1, FS_Subset, FS_CardinalityType
<1>3. PICK t \in 0 .. Threads - 1 : t = Thread(x)
  BY <1>1, ThreadIs
<1>4. HeadFor(n) = HeadOf(t)
  <2>1. Hash[n] % Threads = t
    BY <1>3 DEF Thread
  <2> QED
    BY <2>1, ThreadsThere DEF HeadFor
<1>5. HeadOf(t) = IF OnThread(t) = {} THEN 0 ELSE NfaAt(Latest(OnThread(t)))
  BY DEF HeadOf, NfaAt
<1> DEFINE S == Names(t) \cup {0}
<1>6. HeadOf(t) \in S
  <2>1. OnThread(t) \in SUBSET words
    BY DEF OnThread
  <2>2. OnThread(t) # {} => Latest(OnThread(t)) \in OnThread(t)
    BY <1>1, <2>1, LatestIs
  <2> QED
    BY <1>5, <2>2 DEF Names
<1>7. ASSUME NEW o \in S PROVE OnFrom(n, o) \in S
  <2>1. CASE o = 0
    BY <2>1 DEF OnFrom
  <2>2. CASE o # 0
    <3>1. PICK w \in OnThread(t) : o = NfaAt(w)
      BY <2>2 DEF Names
    <3>2. \A b \in OnThread(t) : NfaAt(b) \in S
      BY DEF Names
    <3> HIDE DEF S
    <3>3. 0 \in S
      BY DEF S
    <3>4. \/ OnFrom(n, o) = o \/ OnFrom(n, o) = 0
          \/ \E b \in OnThread(t) : OnFrom(n, o) = NfaAt(b)
      BY <3>1, StepOn, ZenonT(40)
    <3> QED
      BY <1>7, <3>2, <3>3, <3>4
  <2> QED
    BY <2>1, <2>2
<1> HIDE DEF S
<1>8. PICK go : go = [o \in S |-> OnFrom(n, o)]
  OBVIOUS
<1>9. go \in [S -> S]
  BY <1>7, <1>8
<1>10. PICK g : Walks(g, N, S, HeadOf(t), go)
  BY <1>6, <1>9, WalkExists
<1>11. g \in [0 .. N -> S] /\ g[0] = HeadOf(t) /\ \A k \in 1 .. N : g[k] = go[g[k - 1]]
  BY <1>10 DEF Walks
<1>12. \A k \in 1 .. N : k - 1 \in 0 .. N /\ k \in 0 .. N /\ k # 0
  OBVIOUS
<1>13. \A k \in 0 .. N : k = 0 \/ k \in 1 .. N
  OBVIOUS
<1>14. MetBy(n, N, g)
  <2>1. \A k \in 1 .. N : g[k] = OnFrom(n, g[k - 1])
    BY <1>8, <1>11, <1>12
  <2>2. \A k \in 0 .. N : g[k] = IF k = 0 THEN HeadFor(n) ELSE OnFrom(n, g[k - 1])
    BY <1>4, <1>11, <1>12, <1>13, <2>1
  <2> QED
    BY <1>11, <2>2 DEF MetBy
<1>15. PICK f : f = CHOOSE h : MetBy(n, N, h)
  OBVIOUS
<1>16. MetBy(n, N, f)
  BY <1>14, <1>15
<1>17. Lookup(n) = IF f[N] = 0 THEN 0 ELSE Called(f[N])
  BY <1>2, <1>15 DEF Lookup, MetBy, HeadFor, OnFrom, NextAt
<1>18. f[0] = HeadFor(n) /\ \A k \in 1 .. N : f[k] = OnFrom(n, f[k - 1])
  BY <1>12, <1>16 DEF MetBy
<1> QED
  BY <1>2, <1>3, <1>4, <1>5, <1>17, <1>18
(* A walk meets the last word on its thread with the name.                  *)
LEMMA WalkMeets ==
    ASSUME Laid, NEW t, NEW n, NEW it \in OnThread(t), W(it).name = n,
           \A w \in words : W(w).name = n => w = it \/ Precedes(w, it),
           NEW f, f[0] = (IF OnThread(t) = {} THEN 0 ELSE NfaAt(Latest(OnThread(t)))),
           \A k \in 1 .. Cardinality(words) : f[k] = OnFrom(n, f[k - 1])
    PROVE  f[Cardinality(words)] = NfaAt(it)
<1>1. Orderly /\ OnThread(t) \in SUBSET words
  BY Passed DEF OnThread
<1>2. PICK N \in Nat : N = Cardinality(words)
  BY FewerBehind
<1> DEFINE U == {k \in 0 .. N : \E w \in OnThread(t) : f[k] = NfaAt(w) /\
                    (w = it \/ (Precedes(it, w) /\ Cardinality(Behind(t, w)) + k < N))}
<1>3. 0 \in U
  <2>1. PICK w : w = Latest(OnThread(t))
    OBVIOUS
  <2>2. w \in OnThread(t) /\ (w = it \/ Precedes(it, w))
    BY <1>1, <2>1, LatestIs
  <2>3. Cardinality(Behind(t, w)) \in Nat /\ Cardinality(Behind(t, w)) < N
    BY <1>2, <2>2, FewerBehind
  <2> QED
    BY <2>1, <2>2, <2>3
<1>4. ASSUME NEW k \in 1 .. N, k - 1 \in U PROVE k \in U
  <2>1. PICK w \in OnThread(t) : f[k - 1] = NfaAt(w) /\
                    (w = it \/ (Precedes(it, w) /\ Cardinality(Behind(t, w)) + (k - 1) < N))
    BY <1>4
  <2>2. f[k] = OnFrom(n, NfaAt(w))
    BY <1>2, <2>1
  <2>3. CASE w = it
    <3>1. f[k] = NfaAt(it)
      BY <2>2, <2>3, StepOn
    <3> QED
      BY <3>1
  <2>4. CASE w # it
    <3>1. Precedes(it, w) /\ Cardinality(Behind(t, w)) + (k - 1) < N
      BY <2>1, <2>4
    <3>2. W(w).name # n
      BY <1>1, <2>4, <3>1, PrecedesIs
    <3>3. it \in Behind(t, w)
      BY <3>1 DEF Behind
    <3>4. PICK b : b = Latest(Behind(t, w))
      OBVIOUS
    <3>5. b \in Behind(t, w) /\ b \in OnThread(t) /\ (b = it \/ Precedes(it, b)) /\ f[k] = NfaAt(b)
      BY <2>2, <3>2, <3>3, <3>4, StepOn
    <3>6. /\ Cardinality(Behind(t, b)) \in Nat /\ Cardinality(Behind(t, w)) \in Nat
          /\ Cardinality(Behind(t, b)) < Cardinality(Behind(t, w))
      BY <3>5, FewerBehind
    <3>7. Cardinality(Behind(t, b)) + k < N
      BY <3>1, <3>6
    <3> QED
      BY <3>5, <3>7
  <2> QED
    BY <2>3, <2>4
<1> HIDE DEF U
<1>5. N \in U
  <2>1. \A k \in 0 .. N : k \in U
    BY <1>3, <1>4, Climb
  <2> QED
    BY <2>1
<1>6. PICK w \in OnThread(t) : f[N] = NfaAt(w) /\ (w = it \/ Cardinality(Behind(t, w)) + N < N)
  BY <1>5 DEF U
<1>7. Cardinality(Behind(t, w)) \in Nat
  BY FewerBehind
<1> QED
  BY <1>2, <1>6, <1>7

(* A walk on a thread that has no word with the name comes to its end.      *)
LEMMA WalkEnds ==
    ASSUME Laid, NEW t, NEW n, \A w \in OnThread(t) : W(w).name # n,
           NEW f, f[0] = (IF OnThread(t) = {} THEN 0 ELSE NfaAt(Latest(OnThread(t)))),
           \A k \in 1 .. Cardinality(words) : f[k] = OnFrom(n, f[k - 1])
    PROVE  f[Cardinality(words)] = 0
<1>1. Orderly /\ OnThread(t) \in SUBSET words
  BY Passed DEF OnThread
<1>2. PICK N \in Nat : N = Cardinality(words)
  BY <1>1, Passed, IdsAre, FS_Subset, FS_CardinalityType
<1> DEFINE U == {k \in 0 .. N : f[k] = 0 \/ \E w \in OnThread(t) : f[k] = NfaAt(w) /\ Cardinality(Behind(t, w)) + k < N}
<1>3. 0 \in U
  <2>1. CASE OnThread(t) = {}
    BY <2>1
  <2>2. CASE OnThread(t) # {}
    <3>1. PICK w : w = Latest(OnThread(t))
      OBVIOUS
    <3>2. w \in OnThread(t)
      BY <1>1, <2>2, <3>1, LatestIs
    <3>3. Cardinality(Behind(t, w)) \in Nat /\ Cardinality(Behind(t, w)) < N
      BY <1>2, <3>2, FewerBehind
    <3> QED
      BY <2>2, <3>1, <3>2, <3>3
  <2> QED
    BY <2>1, <2>2
<1>4. ASSUME NEW k \in 1 .. N, k - 1 \in U PROVE k \in U
  <2>1. f[k] = OnFrom(n, f[k - 1])
    BY <1>2
  <2>2. CASE f[k - 1] = 0
    BY <2>1, <2>2 DEF OnFrom
  <2>3. CASE f[k - 1] # 0
    <3>1. PICK w \in OnThread(t) : f[k - 1] = NfaAt(w) /\ Cardinality(Behind(t, w)) + (k - 1) < N
      BY <1>4, <2>3
    <3>2. PICK b : b = Latest(Behind(t, w))
      OBVIOUS
    <3>3. f[k] = 0 \/ (b \in Behind(t, w) /\ b \in OnThread(t) /\ f[k] = NfaAt(b))
      BY <2>1, <3>1, <3>2, StepOn
    <3>4. b \in Behind(t, w) => /\ Cardinality(Behind(t, b)) \in Nat /\ Cardinality(Behind(t, w)) \in Nat
                                /\ Cardinality(Behind(t, b)) < Cardinality(Behind(t, w))
      BY FewerBehind
    <3>5. b \in Behind(t, w) => Cardinality(Behind(t, b)) + k < N
      BY <3>1, <3>4
    <3> QED
      BY <3>3, <3>5
  <2> QED
    BY <2>2, <2>3
<1> HIDE DEF U
<1>5. N \in U
  <2>1. \A k \in 0 .. N : k \in U
    BY <1>3, <1>4, Climb
  <2> QED
    BY <2>1
<1>6. f[N] = 0 \/ \E w \in OnThread(t) : Cardinality(Behind(t, w)) + N < N
  BY <1>5 DEF U
<1>7. \A w \in OnThread(t) : Cardinality(Behind(t, w)) \in Nat
  BY FewerBehind
<1> QED
  BY <1>2, <1>6, <1>7

LEMMA FindsThere == ASSUME Laid PROVE FindsTheDumpsWord
<1>1. /\ lay \in Layouts /\ words \subseteq Ids /\ Orderly /\ SwapFine /\ WordsFine /\ MoveFine
  BY Passed DEF Laid, ImageInv
<1>2. SUFFICES ASSUME NEW x \in Ids, NEW n, n = W(x).name
               PROVE  LET it == Newest(n, IF n \in Left THEN words ELSE Ids)
                      IN  Lookup(n) = IF it = 0 \/ Headless(it) THEN 0 ELSE it
  BY DEF FindsTheDumpsWord, Laid, ImageInv, PlaceFine
<1>3. PICK it : it = Newest(n, IF n \in Left THEN words ELSE Ids)
  OBVIOUS
<1>4. PICK t : t = Thread(x)
  OBVIOUS
<1>5. PICK f : /\ Lookup(n) = IF f[Cardinality(words)] = 0 THEN 0 ELSE Called(f[Cardinality(words)])
               /\ f[0] = IF OnThread(t) = {} THEN 0 ELSE NfaAt(Latest(OnThread(t)))
               /\ \A k \in 1 .. Cardinality(words) : f[k] = OnFrom(n, f[k - 1])
  BY <1>2, <1>4, LookupIs
<1>6. \A w \in words : W(w).name = n => Thread(w) = t /\ w \in Nat
  BY <1>1, <1>2, <1>4, IdsAre DEF Thread
<1>7. CASE it = 0
  <2>1. \A w \in words : W(w).name # n
    BY <1>1, <1>3, <1>7, NewestIs
  <2>2. \A w \in OnThread(t) : W(w).name # n
    BY <2>1 DEF OnThread
  <2>3. Lookup(n) = 0
    BY <1>5, <2>2, WalkEnds
  <2> QED
    BY <1>3, <1>7, <2>3
<1>8. CASE it # 0
  <2>1. it \in words /\ W(it).name = n /\ \A w \in words : W(w).name = n => w <= it
    <3>1. CASE n \in Left
      BY <1>1, <1>3, <1>8, <3>1, NewestIs
    <3>2. CASE n \notin Left
      <4>1. it \in Ids /\ W(it).name = n /\ \A w \in Ids : W(w).name = n => w <= it
        BY <1>1, <1>3, <1>8, <3>2, NewestIs
      <4>2. it \in words
        <5>1. SUFFICES ASSUME it \notin words PROVE FALSE
          OBVIOUS
        <5>2. W(it).name \notin DUMPTOOL /\ W(it).name \notin DOMAIN Suffixed
          BY <3>2, <4>1 DEF Left
        <5>3. it \notin DOMAIN swapped
          BY <1>1, <5>2 DEF SwapFine
        <5>4. PICK u \in Ids : u > it /\ W(u).name = n
          BY <1>1, <4>1, <5>1, <5>2, <5>3 DEF WordsFine
        <5>5. u <= it /\ u \in Nat /\ it \in Nat
          BY <1>1, <4>1, <5>4, IdsAre
        <5> QED
          BY <5>4, <5>5
      <4> QED
        BY <1>1, <4>1, <4>2
    <3> QED
      BY <3>1, <3>2
  <2>2. CASE Headless(it)
    <3>1. \A w \in words : W(w).name = n => Headless(w)
      BY <2>1, <2>2 DEF Headless
    <3>2. \A w \in OnThread(t) : W(w).name # n
      BY <3>1 DEF OnThread
    <3>3. Lookup(n) = 0
      BY <1>5, <3>2, WalkEnds
    <3> QED
      BY <1>3, <2>2, <3>3
  <2>3. CASE ~Headless(it)
    <3>1. it \in OnThread(t)
      BY <1>6, <2>1, <2>3 DEF OnThread
    <3>2. ASSUME NEW w \in words, W(w).name = n, w # it PROVE Precedes(w, it)
      <4>1. Named(n) # 1
        BY <2>1, <3>2, NamedOnce
      <4>2. w \notin moved /\ it \notin moved
        BY <1>1, <2>1, <3>2, <4>1 DEF MoveFine
      <4>3. w < it
        BY <1>6, <2>1, <3>2
      <4> QED
        BY <4>2, <4>3 DEF Precedes, Slot
    <3>3. f[Cardinality(words)] = NfaAt(it)
      BY <1>5, <2>1, <3>1, <3>2, WalkMeets
    <3>4. NfaAt(it) # 0 /\ Called(NfaAt(it)) = it
      BY <2>1, <2>3, CalledIs
    <3>5. Lookup(n) = it
      BY <1>5, <3>3, <3>4
    <3> QED
      BY <1>3, <1>8, <2>3, <3>5
  <2> QED
    BY <2>2, <2>3
<1> QED
  BY <1>7, <1>8

(* A name finds in the image the word it finds in the dump                  *)
(* (FindsTheDumpsWord).                                                     *)
THEOREM FindsAlways == DictSpec => []FindsTheDumpsWord
<1>1. ImageInv => FindsTheDumpsWord
  <2>1. SUFFICES ASSUME ImageInv PROVE FindsTheDumpsWord
    OBVIOUS
  <2>2. \A w \in DOMAIN place : LinkFits(w)
    BY <2>1 DEF ImageInv, PlaceFine
  <2>3. step = "done" => FindsTheDumpsWord
    BY <2>1, FindsThere DEF Laid
  <2> QED
    BY <2>2, <2>3 DEF FindsTheDumpsWord
<1> QED
  BY <1>1, ImageInductive, PTL
=============================================================================

-------------------------------- MODULE Image --------------------------------
(***************************************************************************)
(* The image tools/layout.py makes of a dictionary dump once its bodies    *)
(* are converted: which words go in and in which order, where each lands,  *)
(* the links names are found through, and everything that held an address  *)
(* of the dump made one of the image.                                      *)
(*                                                                         *)
(* A word is its place in the dump, oldest first; what holds an address of *)
(* the dump says what it leads to: a word's body (C a call, XT what a      *)
(* (POSTPONE) compiles), its parameter field (VAR, LIT), an entry of the   *)
(* builtin table.                                                          *)
(***************************************************************************)
EXTENDS Ops, FiniteSets, FiniteSetsExt, Functions

CONSTANTS Layouts,                  \* what is laid out: [dump, g], a dump and a design's options
          Hash, NameLen,            \* of a name
          Prologue,                 \* bytes before the first word
          Suffixed,                 \* X8 -> X: the compiler overlay's names (OVERLAY_SUFFIX)
          Near,                     \* linklen: what a link of one byte, two, three reaches
          SlotReach,                \* how many places a variable's slot tells apart: VARSLOT, or not
          Outer                     \* JITIMG_OUTER

ASSUME ImageAssumption ==
    /\ Prologue \in Nat /\ Prologue % CELL = 0       \* five cells
    /\ \A n \in DOMAIN NameLen : NameLen[n] \in Nat /\ Hash[n] \in Nat
    /\ \A b \in BOOLEAN : \A n \in 1 .. 3 : Near[b][n] \in Nat \ {0}
    /\ SlotReach[FALSE] \in Nat \ {0} /\ SlotReach[TRUE] \in Nat \ {0}
    /\ SlotReach[FALSE] <= SlotReach[TRUE]                \* 2^16, 2^23
    /\ \A m, n \in DOMAIN Suffixed : Suffixed[m] = Suffixed[n] => m = n

(* ---- What a dump holds ---- *)
NoEntry == <<0, 0>>
IsEntry(d, e) == e = NoEntry \/ \E w \in DOMAIN d : e \in {w} \X DOMAIN d[w].tail

(* A call, a (POSTPONE) and a literal's address lead to a word, a VARIABLE's *)
(* to a data word that was there when it was compiled.                     *)
RefOK(d, w, r) == /\ r.k \in {"C", "XT", "LIT", "VAR"} => r.to \in DOMAIN d
                  /\ r.k = "VAR" => r.to < w /\ d[r.to].kind = "data"

(* The cells with an address in them: DEFER's words', BUFFER:'s, and those  *)
(* save-system.4 names.                                                    *)
Made(d, w, by) == d[w].behind # 0 /\ d[d[w].behind].name = by
Is(d, w, n) == d[w].name = n /\ ~Made(d, w, "DEFER") /\ ~Made(d, w, "BUFFER:")
CellOK(d, w, j) ==
    LET c == d[w].cells[j]
    IN  /\ c.k = "body" => j = 1 /\ (Made(d, w, "DEFER") \/ Is(d, w, "BOOT"))
        /\ c.k = "field" => /\ (Made(d, w, "BUFFER:") /\ j = 3) \/ (Is(d, w, "BUF-LIST") /\ j = 1)
                            /\ c.to # 0 => c.to \in DOMAIN d /\ d[c.to].kind = "data"
        /\ Is(d, w, "BUILTIN-LIST") /\ j = 1 => IsEntry(d, c.to)

WordOK(d, w) ==
    /\ d[w].name \in DOMAIN NameLen /\ d[w].kind \in {"code", "data"} /\ d[w].size \in Nat \ {0}
    /\ d[w].align \in BOOLEAN /\ d[w].op \in BOOLEAN
    /\ \A r \in Range(d[w].refs) : RefOK(d, w, r)
    /\ d[w].cells \in Seq(Range(d[w].cells)) /\ \A j \in DOMAIN d[w].cells : CellOK(d, w, j)
    /\ d[w].tail \in Seq(Range(d[w].tail)) /\ \A e \in Range(d[w].tail) : IsEntry(d, e.link)
    /\ d[w].op \/ d[w].tail # <<>> => d[w].kind = "code"
    /\ d[w].name \in {"FORTH-WORDLIST", "DP", "BUILTIN-LIST"} =>
          d[w].kind = "data" /\ d[w].behind = 0 /\ d[w].cells # <<>> /\ \A u \in DOMAIN d \ {w} : d[u].name # d[w].name

(* The names a dump has one word of; a compiler's word and its X8 are code; *)
(* the dump tool is loaded last.                                           *)
DumpOK(d) ==
    /\ d \in Seq(Range(d))
    /\ \A w \in DOMAIN d : WordOK(d, w)
    /\ \E w \in DOMAIN d : d[w].name = "FORTH-WORDLIST" /\ Len(d[w].cells) > 1
    /\ \E w \in DOMAIN d : d[w].name = "DP" /\ Len(d[w].cells) > 0
    /\ \A u, w \in DOMAIN d : d[u].name \in DOMAIN Suffixed /\ d[w].name = Suffixed[d[u].name] => d[w].kind = "code"
    /\ \A u, w \in DOMAIN d : d[u].name \in DOMAIN Suffixed /\ d[w].name = "NFA" => u < w

(* scale: what the address of a call is a multiple of: any byte, with byte  *)
(* headers or the tag.  A tail's entries are counted from a cell boundary,  *)
(* where byte headers do not put it.                                       *)
DesignOK(d, g) ==
    /\ {g.bytehdr, g.tag, g.lean, g.swap, g.bss, g.opinline, g.jitimg, g.varslot} \subseteq BOOLEAN
    /\ g.scale \in {1, 2, 4, 8} /\ g.threads \in Nat
    /\ g.bytehdr \/ g.tag => g.scale = 1
    /\ g.bytehdr => \A w \in DOMAIN d : d[w].tail = <<>>

ASSUME LayoutsAssumption == \A l \in Layouts : DumpOK(l.dump) /\ DesignOK(l.dump, l.g)

VARIABLES lay,                      \* the dump and the design
          step,                     \* the section of layout.py that is next
          text,                     \* word -> its body now: kind, size, align, refs (info)
          origin,                   \* word -> the word its body is from (SRC_OF)
          swapped,                  \* an X8 whose body went into X -> X
          dropped,                  \* an X8 left out -> its X
          words,                    \* the words that go in (order)
          moved,                    \* those of them put among the primitives
          bss,                      \* the buffers moved past the image, one after another; 0, none
          place,                    \* word -> where its link, its name and its body are (new_off)
          off,                      \* the end of what is placed
          image                     \* word -> what is written for it

dictVars == <<lay, step, text, origin, swapped, dropped, words, moved, bss, place, off, image>>
unplaced == <<place, off, image>>

W(w) == lay.dump[w]
G == lay.g
Ids == DOMAIN lay.dump
Buffers == Range(bss) \ {0}
Nowhere == -1
Led(k, w) == [k |-> k, to |-> w]

(* The newest of some words with a name; 0, none. *)
Newest(n, ws) == LET so == {w \in ws : W(w).name = n} IN IF so = {} THEN 0 ELSE Max(so)
Named(n) == Cardinality({w \in words : W(w).name = n})
IsCode(w) == text[w].kind = "code"
-----------------------------------------------------------------------------
(* An X8 compiled over an older X8 of its name, deferring to it (_chain). *)
Defers(u, t) == origin[u] \in DOMAIN swapped /\ W(origin[u]).name = W(t).name /\ t < origin[u]

(* _refs: what these words' code calls or POSTPONEs. *)
RefsOf(ws, body, skip) ==
    {r.to : r \in UNION {{x \in Range(body[w].refs) : \/ x.k = "C"
                                                      \/ x.k = "XT" /\ (x.to \notin skip \/ Defers(w, x.to))} :
                         w \in {u \in ws : body[u].kind = "code"}}}

(* The compiler's bodies swapped in, a later X8's over an earlier one's. *)
SwapBodies ==
    /\ step = "swap" /\ step' = "x8"
    /\ LET into(w) == Newest(Suffixed[W(w).name], Ids)
           from == {w \in Ids : /\ G.swap /\ W(w).name \in DOMAIN Suffixed
                                /\ into(w) # 0 /\ W(w).kind = "code"}
           by(x) == {w \in from : into(w) = x}
       IN  /\ swapped' = [w \in from |-> into(w)]
           /\ origin' = [w \in Ids |-> IF by(w) = {} THEN w ELSE Max(by(w))]
           /\ text' = [w \in Ids |-> text[origin'[w]]]
    /\ UNCHANGED <<lay, dropped, words, moved, bss, unplaced>>

(* --drop-x8: a call of any X8 goes to its X, and the X8s go, but for those *)
(* a deferral still needs.                                                  *)
(* Not the code: a deferral is a call of an X8 like any other. *)
RedirectedAll(w) ==
    [j \in DOMAIN text[w].refs |->
        LET r == text[w].refs[j] IN IF r.k = "C" /\ r.to \in DOMAIN swapped THEN Led("C", swapped[r.to]) ELSE r]
Redirected(w) ==
    [j \in DOMAIN text[w].refs |->
        LET r == text[w].refs[j]
        IN  IF r.k = "C" /\ r.to \in DOMAIN swapped /\ ~Defers(w, r.to) THEN Led("C", swapped[r.to]) ELSE r]
(* The most of them that nothing left refers to: one something still calls  *)
(* goes back in, then what that calls, until none does.                    *)
StillOut(body) ==
    UNION {out \in SUBSET DOMAIN swapped : out \cap RefsOf(words \ out, body, DOMAIN swapped) = {}}
DropX8 ==
    /\ step = "x8" /\ step' = "tool"
    /\ IF G.lean /\ DOMAIN swapped # {}
       THEN /\ text' = [w \in Ids |-> IF IsCode(w) THEN [text[w] EXCEPT !.refs = Redirected(w)] ELSE text[w]]
            /\ dropped' = [w \in StillOut(text') |-> swapped[w]]
            /\ words' = words \ DOMAIN dropped'
       ELSE UNCHANGED <<text, dropped, words>>
    /\ UNCHANGED <<lay, origin, swapped, moved, bss, unplaced>>

(* --drop-dumptool: the tool that wrote the dump, its newest words, unless  *)
(* something else refers to it; and code another word shadows, that nothing *)
(* refers to.                                                               *)
DUMPTOOL == {"NFA", "BP", "BE", "NFATAB", "#NFA", "TA", "CELLB", "INIT-NFATAB", "COLLECT", "SWAPC", "SORTNFA",
             "DUMP", "PROLOGUE-DUMP"}
Shadowed(w, ws) == \E u \in ws : u > w /\ W(u).name = W(w).name
Dead(ws) == {w \in ws : IsCode(w) /\ w \notin RefsOf(ws, text, {}) /\ Shadowed(w, ws)}
DropDumptool ==
    /\ step = "tool" /\ step' = "bss"
    /\ IF G.lean
       THEN LET nfa  == Newest("NFA", words)
                last == {w \in words : nfa # 0 /\ w >= nfa}
                tool == IF \A w \in last : W(w).name \in DUMPTOOL THEN last ELSE {}
                keep == words \ tool
            IN  words' = (IF tool \cap RefsOf(keep, text, {}) = {} THEN keep ELSE words) \ Dead(keep)
       ELSE UNCHANGED words
    /\ UNCHANGED <<lay, text, origin, swapped, dropped, moved, bss, unplaced>>

(* --bss: a buffer's word pushes START and an offset past the image's end. *)
BSS_WORDS == <<"TIB", "POCKET", "INCLUDE-BUFFER">>
Buffer(w, start) == [kind |-> "code", size |-> 10, align |-> FALSE, refs |-> <<Led("BUF", w), Led("C", start)>>]
Bss ==
    /\ step = "bss" /\ step' = "ops"
    /\ LET start == Newest("START", words)
           out(n) == LET w == Newest(n, words)
                     IN  IF G.bss /\ start # 0 /\ w # 0 /\ ~IsCode(w) /\ W(w).behind = 0 THEN w ELSE 0
       IN  /\ bss' = [k \in DOMAIN BSS_WORDS |-> out(BSS_WORDS[k])]
           /\ text' = [w \in Ids |-> IF w \in Range(bss') THEN Buffer(w, start) ELSE text[w]]
    /\ UNCHANGED <<lay, origin, swapped, dropped, words, moved, unplaced>>

(* A word whose body is what an opcode does becomes the opcode and EXIT. *)
Opcode == [kind |-> "code", size |-> 2, align |-> FALSE, refs |-> <<Led("OP", 0)>>]
OpBodies ==
    /\ step = "ops" /\ step' = "inline"
    /\ text' = [w \in Ids |-> IF /\ w \in words /\ W(w).op /\ W(w).name \in G.ops
                                 /\ \A u \in words : W(u).op /\ W(u).name = W(w).name => u <= w
                              THEN Opcode ELSE text[w]]
    /\ UNCHANGED <<lay, origin, swapped, dropped, words, moved, bss, unplaced>>

(* --op-inline: those go among the primitives, before (PRIMITIVES-END); not *)
(* one of two of a name.                                                   *)
PrimsEnd ==
    LET ends == {w \in words : W(w).name = "(PRIMITIVES-END)"} IN IF ends = {} THEN 0 ELSE Min(ends)
(* Not the code: whatever else has its name. *)
MovedTwice(w) == text[w] = Opcode /\ W(w).name \in G.ops
Moved(w) == text[w] = Opcode /\ W(w).name \in G.ops /\ Named(W(w).name) = 1
OpInline ==
    /\ step = "inline" /\ step' = "place"
    /\ moved' = IF G.opinline /\ PrimsEnd # 0 THEN {w \in words : w > PrimsEnd /\ Moved(w)} ELSE {}
    /\ UNCHANGED <<lay, text, origin, swapped, dropped, words, bss, unplaced>>

(* The order the words go in. *)
Slot(w) == IF w \in moved THEN PrimsEnd ELSE w
Precedes(u, w) == Slot(u) < Slot(w) \/ (Slot(u) = Slot(w) /\ u \in moved /\ (w \in moved => u < w))
First(ws) == CHOOSE w \in ws : \A u \in ws \ {w} : Precedes(w, u)
Oldest(n) == First({w \in words : W(w).name = n})
Latest(ws) == IF ws = {} THEN 0 ELSE CHOOSE w \in ws : \A u \in ws \ {w} : Precedes(u, w)
-----------------------------------------------------------------------------
(* Placement. *)
WordList == Newest("FORTH-WORDLIST", Ids)
Threads == IF G.threads = 0 THEN Len(W(WordList).cells) - 1 ELSE G.threads
Thread(w) == Hash[W(w).name] % Threads

(* HL: no header; not one of two of a name, which would give it to the other. *)
Headless(w) == W(w).name \in G.headerless /\ Named(W(w).name) = 1

(* A thread's words, and the one before w on its; 0, none. *)
OnThread(t) == {w \in words : ~Headless(w) /\ Thread(w) = t}
Before(w) == Latest({u \in OnThread(Thread(w)) : Precedes(u, w)})

LinkLen(tag, d) == IF d < Near[tag][1] THEN 1 ELSE IF d < Near[tag][2] THEN 2 ELSE IF d < Near[tag][3] THEN 3 ELSE 4

(* What follows a code body in the dump: builtin entries of four cells. *)
EntryBytes == 4 * CELL
TailBytes(w) == IF IsCode(w) THEN Len(W(w).tail) * EntryBytes ELSE 0
AlignedBody(w) == ~IsCode(w) \/ TailBytes(w) # 0 \/ text[w].align

(* JH: words given the header of one translated at run time: plain ones, of *)
(* the outer interpreter.                                                  *)
JitHeader(w) == IF G.jitimg /\ IsCode(w) /\ ~Headless(w) /\ ~AlignedBody(w) /\ W(w).name \in Outer THEN 5 ELSE 0

(* cfd, new_body_bytes. *)
CodeField == IF G.tag THEN UpToCell(5) ELSE CELL
Parameters(w) == IF w = WordList THEN Threads + 1 ELSE Len(W(w).cells)
BodyBytes(w) ==
    IF ~IsCode(w) THEN CodeField + Parameters(w) * CELL
    ELSE LET code == JitHeader(w) + text[w].size
         IN  (IF G.bytehdr THEN code ELSE UpToCell(code)) + TailBytes(w)

CAlign(o) == LET n == IF G.scale > CELL THEN G.scale ELSE CELL IN ((o + n - 1) \div n) * n

(* Where a word goes.  A link is sized before it is known how far its name  *)
(* is behind it: three bytes at most.                                      *)
Placed(w) ==
    LET ll  == IF Headless(w) THEN 0 ELSE IF ~G.bytehdr THEN CELL
               ELSE IF Before(w) = 0 THEN 1 ELSE LinkLen(G.tag, off + 3 - place[Before(w)].nfa)
        nfa == off + ll
        end == IF Headless(w) THEN off ELSE nfa + NameLen[W(w).name] + 1
    IN  [link |-> off, nfa |-> nfa,
         body |-> IF G.bytehdr THEN IF AlignedBody(w) THEN CAlign(end) ELSE end
                  ELSE IF Headless(w) THEN CAlign(end) ELSE nfa + UpToCell(end - nfa)]

PlaceWord ==
    /\ step = "place" /\ DOMAIN place # words
    /\ LET w  == First(words \ DOMAIN place)
           at == Placed(w)
       IN  /\ place' = [u \in DOMAIN place \cup {w} |-> IF u = w THEN at ELSE place[u]]
           /\ off' = at.body + BodyBytes(w)
    /\ step' = IF DOMAIN place' = words THEN "write" ELSE step
    /\ UNCHANGED <<lay, text, origin, swapped, dropped, words, moved, bss, image>>
-----------------------------------------------------------------------------
(* What led to something of the dump leads to where it is in the image. *)
BodyAt(w) ==
    IF w \in DOMAIN dropped THEN place[dropped[w]].body ELSE IF w \in words THEN place[w].body ELSE Nowhere

(* BSS_OFF, BSS_END: the buffers one after another from the image's end. *)
BufferBytes(w) == IF w = 0 THEN 0 ELSE Len(W(w).cells) * CELL
BufferAt(k) == UpToCell(off) + (IF k > 1 THEN BufferBytes(bss[1]) ELSE 0) + (IF k > 2 THEN BufferBytes(bss[2]) ELSE 0)
                             + (IF k > 3 THEN BufferBytes(bss[3]) ELSE 0)
FieldAt(w) ==
    IF w \in Buffers THEN BufferAt(CHOOSE k \in DOMAIN bss : bss[k] = w)
    ELSE IF w \in words THEN place[w].body + CodeField ELSE Nowhere

(* An entry of the builtin table is in the tail of a word: <<word, which>>. *)
EntryAt(e) ==
    IF e[1] \in words /\ TailBytes(e[1]) # 0
    THEN place[e[1]].body + UpToCell(text[e[1]].size) + (e[2] - 1) * EntryBytes ELSE Nowhere
EntryOf(e) == W(e[1]).tail[e[2]]
Entries == UNION {{w} \X DOMAIN W(w).tail : w \in Ids}
Listed ==                           \* the table's entries, from BUILTIN-LIST on
    LET list == Newest("BUILTIN-LIST", words)
        On(S) == W(list).cells[1].to \in S \cup {NoEntry} /\ \A e \in S : EntryOf(e).link \in S \cup {NoEntry}
    IN  IF list = 0 THEN {} ELSE {e \in Entries : \A S \in SUBSET Entries : On(S) => e \in S}

(* slotval: v8pfa and v8loc assert that a variable's slot reaches its field, *)
(* but what they raise is caught, and the slot written is 0; without        *)
(* VARSLOT a slot has its low bits alone (emit_slot).                      *)
Scaled(o) == o % G.scale = 0
SlotLeads(w) ==
    LET at == FieldAt(w) units == at \div G.scale
    IN  IF at # Nowhere /\ Scaled(at) /\ units < SlotReach[TRUE]
        THEN (units % SlotReach[G.varslot]) * G.scale ELSE 0

Leads(r) ==
    CASE r.k \in {"C", "XT"} -> BodyAt(r.to)
      [] r.k = "LIT" -> IF W(r.to).kind = "data" THEN FieldAt(r.to) ELSE BodyAt(r.to)
      [] r.k = "VAR" -> SlotLeads(r.to)
      [] r.k = "BUF" -> FieldAt(r.to)
      [] OTHER -> 0

(* A data word's cells.  DEFER's and BUFFER:'s words are known by the DOES> *)
(* they are behind, the cells of the rest by name.                         *)
HeadOf(t) == IF OnThread(t) = {} THEN 0 ELSE place[Latest(OnThread(t))].nfa
Raw == -2                           \* as it is in the dump
Field(w, j) ==
    LET c == W(w).cells[j]
    IN  CASE w = WordList -> IF j = 1 THEN Threads ELSE HeadOf(j - 2)
          [] Made(lay.dump, w, "DEFER") /\ j = 1 -> BodyAt(c.to)
          [] Made(lay.dump, w, "BUFFER:") /\ j = 1 -> 0
          [] Made(lay.dump, w, "BUFFER:") /\ j = 3 -> IF c.to = 0 THEN 0 ELSE FieldAt(c.to)
          [] Is(lay.dump, w, "DP") /\ j = 1 -> IF Buffers = {} THEN off ELSE BufferAt(4)
          [] Is(lay.dump, w, "BUF-LIST") /\ j = 1 -> IF c.to = 0 THEN 0 ELSE FieldAt(c.to)
          [] Is(lay.dump, w, "BUILTIN-LIST") /\ j = 1 -> IF c.to = NoEntry THEN 0 ELSE EntryAt(c.to)
          [] Is(lay.dump, w, "BOOT") /\ j = 1 ->
                IF c.to # 0 THEN BodyAt(c.to) ELSE IF Named("MAIN") = 0 THEN 0 ELSE BodyAt(Oldest("MAIN"))
          [] OTHER -> Raw

(* linkval: how far back the word before is, from this name; with a cell for *)
(* a link, from the link.                                                  *)
Back(w) ==
    IF Headless(w) \/ Before(w) = 0 THEN 0
    ELSE IF G.bytehdr THEN place[w].nfa - place[Before(w)].nfa ELSE place[Before(w)].nfa - place[w].link
LinkFits(w) ==
    LET ll == place[w].nfa - place[w].link
    IN  ~G.bytehdr \/ Headless(w) \/ ll = 4 \/ Back(w) < Near[G.tag][ll]

(* An assertion of layout.py fails, or it does not find the word. *)
Dies ==
    \/ \E w \in Ids : W(w).behind # 0 /\ W(w).behind \notin words
    \/ \E x \in DOMAIN dropped : dropped[x] \notin words
    \/ \E w \in words : ~LinkFits(w)
    \/ \E w \in {u \in words : IsCode(u)} : \E r \in Range(text[w].refs) :
          r.k = "C" /\ (r.to \notin words \/ ~Scaled(Leads(r)))

(* What it reports, and exits 1 for. *)
Refuses ==
    \/ \E w \in {u \in words : IsCode(u)} : \E r \in Range(text[w].refs) : r.k \in {"XT", "LIT"} /\ Leads(r) = Nowhere
    \/ \E w \in {u \in words : ~IsCode(u)} : \E j \in DOMAIN W(w).cells : Field(w, j) = Nowhere
    \/ \E e \in Listed : EntryAt(e) = Nowhere \/ BodyAt(EntryOf(e).xt) = Nowhere

(* emit. *)
Emits(w) ==
    [back  |-> Back(w),
     goes  |-> IF IsCode(w) THEN [j \in DOMAIN text[w].refs |-> Leads(text[w].refs[j])]
               ELSE [j \in 1 .. Parameters(w) |-> Field(w, j)],
     does  |-> IF IsCode(w) \/ W(w).behind = 0 THEN 0 ELSE place[W(w).behind].body + W(w).hole,
     tail  |-> IF TailBytes(w) = 0 THEN <<>>
               ELSE [j \in DOMAIN W(w).tail |->
                       LET e == W(w).tail[j]
                       IN  IF <<w, j>> \notin Listed THEN <<Raw, Raw>>
                           ELSE <<IF e.link = NoEntry THEN 0 ELSE EntryAt(e.link), BodyAt(e.xt)>>]]
Write ==
    /\ step = "write"
    /\ step' = IF Dies THEN "died" ELSE IF Refuses THEN "refused" ELSE "done"
    /\ image' = IF Dies THEN <<>> ELSE [w \in words |-> Emits(w)]
    /\ UNCHANGED <<lay, text, origin, swapped, dropped, words, moved, bss, place, off>>

DictInit ==
    /\ lay \in Layouts /\ step = "swap"
    /\ text = [w \in DOMAIN lay.dump |->
                 LET b == lay.dump[w] IN [kind |-> b.kind, size |-> b.size, align |-> b.align, refs |-> b.refs]]
    /\ origin = [w \in DOMAIN lay.dump |-> w]
    /\ swapped = <<>> /\ dropped = <<>> /\ bss = <<>> /\ moved = {}
    /\ words = DOMAIN lay.dump
    /\ place = <<>> /\ off = Prologue /\ image = <<>>

DictNext ==
    SwapBodies \/ DropX8 \/ DropDumptool \/ Bss \/ OpBodies \/ OpInline \/ PlaceWord \/ Write
-----------------------------------------------------------------------------
(* Reading the image: a name's thread walked from its head, link by link.   *)
Called(o) == CHOOSE w \in words : place[w].nfa = o /\ place[w].link < o
Lookup(n) ==
    LET next(w) == IF image[w].back = 0 THEN 0
                   ELSE IF G.bytehdr THEN place[w].nfa - image[w].back ELSE place[w].link + image[w].back
        head    == image[WordList].goes[2 + (Hash[n] % image[WordList].goes[1])]
        met[k \in 0 .. Cardinality(words)] ==
            IF k = 0 THEN head
            ELSE LET o == met[k - 1] IN IF o = 0 \/ W(Called(o)).name = n THEN o ELSE next(Called(o))
        it      == met[Cardinality(words)]
    IN  IF it = 0 THEN 0 ELSE Called(it)

(* No link is longer than its form holds, though it is sized before its     *)
(* name is placed; and                                                     *)
(* a name finds in the image the word it finds in the dump, of all that     *)
(* were ever given it, wherever words went or were moved to: none if its    *)
(* header is left out, the newest kept of the dump tool's and the overlay's *)
(* (layout.py 440, 791, 830).                                              *)
Left == DUMPTOOL \cup DOMAIN Suffixed
FindsTheDumpsWord ==
    /\ \A w \in DOMAIN place : LinkFits(w)
    /\ step = "done" =>
       \A n \in {W(w).name : w \in Ids} :
          LET it == Newest(n, IF n \in Left THEN words ELSE Ids)
          IN  Lookup(n) = IF it = 0 \/ Headless(it) THEN 0 ELSE it

(* What was an address in the dump is the address of the same thing in the  *)
(* image: a call and a POSTPONE run the word, or the one its body is now    *)
(* in, and a word that replaced another without running itself instead of   *)
(* it; a parameter field is where its word pushes, from a variable's slot   *)
(* too if it is within the slot's width and, at a scale above the cell, the *)
(* scale divides it; the builtins' list has the same xts in the same order; *)
(* the moved buffers are past the image, below DP and apart (layout.py 306, *)
(* 341, 848, 929, 963, 1045; sod16.py 1188, 1196).                         *)
RunsIt(o, u) == \E w \in words : place[w].body = o /\ (w = u \/ (u \in DOMAIN swapped /\ w = swapped[u]))
Pushes(w) == IF w \in Buffers THEN image[w].goes[1] ELSE UpToCell(place[w].body + (IF G.tag THEN 5 ELSE 1))
SlotLands(o, w) ==
    (G.scale > CELL => Scaled(Pushes(w))) /\ Pushes(w) \div G.scale < SlotReach[G.varslot] => o = Pushes(w)
CodeLands ==
    \A w \in {u \in words : IsCode(u) /\ u \notin Buffers /\ text[u] # Opcode} :
    \A j \in DOMAIN text[w].refs :
       LET r == W(origin[w]).refs[j] o == image[w].goes[j]
       IN  CASE r.k \in {"C", "XT"} -> RunsIt(o, r.to) /\ (o = place[w].body => r.to \in {w, origin[w]})
             [] r.k = "VAR" -> SlotLands(o, r.to)
             [] r.k = "LIT" -> IF W(r.to).kind = "data" THEN o = Pushes(r.to) ELSE RunsIt(o, r.to)
             [] OTHER -> TRUE
CellsLand ==
    \A w \in {u \in words : ~IsCode(u)} : \A j \in DOMAIN W(w).cells :
       LET c == W(w).cells[j] o == image[w].goes[j]
       IN  CASE c.k = "body" /\ c.to # 0 -> RunsIt(o, c.to)
             [] c.k = "field" /\ c.to # 0 -> o = Pushes(c.to)
             [] OTHER -> TRUE
BuiltinsLand ==
    LET list == Newest("BUILTIN-LIST", words)
        here(o) == CHOOSE e \in Listed : EntryAt(e) = o
        same[n \in 0 .. Cardinality(Listed)] ==               \* <<an entry of the dump's list, what the image's has there>>
            IF n = 0 THEN <<W(list).cells[1].to, image[list].goes[1]>>
            ELSE LET p == same[n - 1]
                 IN  IF p[1] = NoEntry THEN p
                     ELSE <<EntryOf(p[1]).link, image[here(p[2])[1]].tail[here(p[2])[2]][1]>>
    IN  list # 0 =>
          \A n \in 0 .. Cardinality(Listed) :
             LET e == same[n][1] o == same[n][2]
             IN  IF e = NoEntry THEN o = 0
                 ELSE \E h \in Listed : EntryAt(h) = o /\ RunsIt(image[h[1]].tail[h[2]][2], EntryOf(e).xt)
BuffersApart ==
    LET dp == image[Newest("DP", words)].goes[1]
        ends(w) == Pushes(w) + Len(W(w).cells) * CELL
    IN  \A w \in Buffers : /\ off <= Pushes(w) /\ ends(w) <= dp
                              /\ \A u \in Buffers \ {w} : ends(w) <= Pushes(u) \/ ends(u) <= Pushes(w)
LandsWhereItLed == step = "done" => CodeLands /\ CellsLand /\ BuiltinsLand /\ BuffersApart
=============================================================================

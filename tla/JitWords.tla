------------------------------ MODULE JitWords ------------------------------
(***************************************************************************)
(* The JIT's lazy cache (src/engine/jit.c): which words have native code,   *)
(* where it is kept, and every way native code is reached - a colon word's  *)
(* header, the table of words without one, and EXECUTE's inline caches -    *)
(* while words are defined, translated, refused, and forgotten by MARKER,   *)
(* which lets a new word have an old one's address.                        *)
(*                                                                         *)
(* A word's operations are what the translator tells apart: an operation   *)
(* with stencils, a literal, a call, EXECUTE, and one without stencils     *)
(* (or a return stack out of balance), which is "bad".  The design has     *)
(* jitx: callees without headers are translated too.                       *)
(***************************************************************************)
EXTENDS Integers, Sequences, FiniteSets

CONSTANT Setups              \* the dictionaries and designs there are

VARIABLES m,                 \* the setup
          dict,              \* the dictionary's words, by place
          jit                \* the translator's state

jitVars == <<m, dict, jit>>

(* A word's execution token, and for a colon word where its body is, past   *)
(* the JIT opcode and the four bytes of its header.                        *)
Xt(p)   == 2 * p
Past(p) == 2 * p + 1
Word(a) == a \div 2
Places  == 1 .. Len(dict)

Colon(p) == dict[p].kind = "colon"
Headed(a) == a = Xt(Word(a)) /\ Colon(Word(a))

(* A header or a slot: native code's offset, or 0 for bytecode, or not yet; *)
(* a slot also 1, being translated.  NotYet is the top bit alone, and no    *)
(* offset is below 2.                                                      *)
NotYet == -1
NoSlot == -2
Bytecode(f) == f \in {0, 1}

(* What the bytes at a say: a DOES> child is its parameter field's address, *)
(* then the code after DOES>.                                              *)
Decoded(a) ==
    LET w == dict[Word(a)]
    IN  IF w.kind = "child"
        THEN IF m.does THEN <<<<"lit", Word(a)>>>> \o dict[w.of].does ELSE <<<<"bad", 0>>>>
        ELSE w.ops

UpTo(ops, stops) ==
    LET at == {i \in DOMAIN ops : ops[i][1] \in stops}
    IN  IF at = {} THEN ops ELSE SubSeq(ops, 1, CHOOSE i \in at : \A k \in at : i <= k)

(* jit_ksig: the bytes read, to the word's end or the first operation with  *)
(* no stencils - which DODOES is.                                          *)
Sig(a) == IF dict[Word(a)].kind = "child" THEN <<<<"dodoes", 0>>>> ELSE UpTo(dict[Word(a)].ops, {"bad"})

(* The four bytes after a token: a header, the call a DOES> child makes, or *)
(* the first of a body's bytes, which are not all of a long literal's.      *)
Peek(j, p) ==
    LET w == dict[p]
    IN  CASE w.kind = "colon" -> <<"header", j.hdr[p]>>
          [] w.kind = "child" -> <<"call", w.of>>
          [] OTHER -> IF w.ops[1][1] = "lit" THEN <<"lit", w.ops[1][2] % m.low>> ELSE <<"ops", w.ops>>
-----------------------------------------------------------------------------
(* jit_kslot: a's slot, made, or made new for another word; when the table  *)
(* is full, none.                                                          *)
FreshSlot(j, a, sig) ==
    [j EXCEPT !.k = [b \in DOMAIN j.k \cup {a} |-> IF b = a THEN [sig |-> sig, f |-> NotYet] ELSE j.k[b]]]

(* Not the code: a slot that is the address's, whatever word is there now.  *)
KSlotByAddress(j, a) ==
    IF a \notin DOMAIN j.k /\ Cardinality(DOMAIN j.k) < m.slots THEN FreshSlot(j, a, Sig(a)) ELSE j

KSlot(j, a) ==
    IF (IF a \in DOMAIN j.k THEN j.k[a].sig # Sig(a) /\ j.k[a].f # 1 ELSE Cardinality(DOMAIN j.k) < m.slots)
    THEN FreshSlot(j, a, Sig(a)) ELSE j
HasSlot(j, a) == a \in DOMAIN j.k

(* A site of EXECUTE's, the last one shared when there are no more.         *)
NextSite(j) == IF j.nic < m.sites - 1 THEN j.nic + 1 ELSE m.sites
TakeSite(j, xt) == [j EXCEPT !.nic = IF @ < m.sites - 1 THEN @ + 1 ELSE @,
                             !.ic[NextSite(j)] = IF xt = 0 THEN @ ELSE [xt |-> xt, code |-> 0, four |-> <<>>]]

(* jit_inl1: a word of one operation, copied instead of called.             *)
Inlined(a) ==
    /\ m.inl /\ dict[Word(a)].kind # "child"
    /\ Len(dict[Word(a)].ops) = 1 /\ dict[Word(a)].ops[1][1] \in {"op", "lit"}

(* The native code a translation has so far: what it does, the sites in it  *)
(* and what it calls.                                                      *)
Nothing == [means |-> <<>>, sites |-> {}, calls |-> {}]
Plain(c, does) == [c EXCEPT !.means = Append(@, does)]
At(c, does, site) == [c EXCEPT !.means = Append(@, does), !.sites = @ \cup {site}]
Calling(j, c, f) ==
    IF f = NotYet THEN Plain(c, <<"wild", <<>>>>)
    ELSE [Plain(c, <<"run", j.code[f - 1].means>>) EXCEPT
             !.calls = @ \cup {f} \cup j.code[f - 1].calls, !.sites = @ \cup j.code[f - 1].sites]

Done(j)   == [j EXCEPT !.f = 0]
Refuse(j) == [j EXCEPT !.f = 0]
Emit(j, c) == IF Len(j.code) = m.mem THEN Refuse(j)
              ELSE [j EXCEPT !.code = Append(@, c), !.f = Len(j.code) + 2]

RECURSIVE Body(_, _, _), Resolve(_, _, _, _, _), JitWord(_, _, _), Callee(_, _, _)

(* jit_body, of the word whose calls to w are calls to itself: refused too  *)
(* deep, or for an operation; then its callees first, native or nothing.    *)
Body(j, w, depth) ==
    IF depth > m.depth THEN [Refuse(j) EXCEPT !.deep = TRUE]
    ELSE IF \E i \in DOMAIN Decoded(w) : Decoded(w)[i][1] = "bad" THEN Refuse(j)
    ELSE Resolve(j, Nothing, w, 1, depth)

(* What a call of a becomes, of native code, of a cold word, or refused.    *)
Take(j, c, next) == <<j, c, next>>
Called(u, c, a) ==
    IF u.f = NoSlot THEN Take(Refuse(u), c, FALSE)
    ELSE IF ~Bytecode(u.f) THEN Take(u, Calling(u, c, u.f), TRUE)
    ELSE IF m.exec /\ Word(a) \in m.cold
    THEN Take(TakeSite(u, a), At(c, <<"run", dict[Word(a)].ops>>, [n |-> NextSite(u), xt |-> a]), TRUE)
    ELSE Take(Refuse(u), c, FALSE)

Operation(j, c, op, w, depth) ==
    CASE op[1] \in {"op", "lit"} -> Take(j, Plain(c, op), TRUE)
      [] op[1] = "execute" /\ m.exec -> Take(TakeSite(j, 0), At(c, op, [n |-> NextSite(j), xt |-> 0]), TRUE)
      [] op[1] = "execute" /\ ~m.exec -> Take(Refuse(j), c, FALSE)
      [] op = <<"call", w>> -> Take(j, Plain(c, <<"self", <<>>>>), TRUE)
      [] OTHER -> IF ~Headed(op[2]) /\ Inlined(op[2])
                  THEN Take(j, Plain(c, <<"run", dict[Word(op[2])].ops>>), TRUE)
                  ELSE Called(Callee(j, op[2], depth), c, op[2])

Onward(t, w, i, depth) == IF t[3] THEN Resolve(t[1], t[2], w, i, depth) ELSE t[1]
Resolve(j, c, w, i, depth) ==
    IF i > Len(Decoded(w)) THEN Emit(j, c)
    ELSE Onward(Operation(j, c, Decoded(w)[i], w, depth), w, i + 1, depth)

(* Not the code: a word refused for depth is bytecode from then on.         *)
JitWordForgets(j, p, depth) ==
    LET Made(u) == [u EXCEPT !.hdr[p] = u.f] IN Made(Body([j EXCEPT !.hdr[p] = 0], Xt(p), depth))

(* jit_word: bytecode meanwhile; a callee refused for depth is as it was.   *)
JitWord(j, p, depth) ==
    LET Made(u) ==
            [u EXCEPT !.hdr[p] = IF u.f # 0 THEN u.f ELSE IF u.deep /\ depth > 0 THEN j.hdr[p] ELSE 0]
    IN  Made(Body([j EXCEPT !.hdr[p] = 0, !.deep = @ /\ depth > 0], Xt(p), depth))
HeaderOf(j, p, depth) ==
    IF j.hdr[p] = NotYet THEN JitWord(j, p, depth) ELSE [j EXCEPT !.f = j.hdr[p]]

(* What a call of a leads to: its header's, or its slot's, which is being   *)
(* translated meanwhile, and after that not yet if the translator went      *)
(* too deep.                                                               *)
SetSlot(v, a, f) == [v EXCEPT !.k[a].f = f, !.f = f]
SlotOf(u, a, depth) ==
    IF ~HasSlot(u, a) THEN [u EXCEPT !.f = NoSlot]
    ELSE IF u.k[a].f # NotYet THEN [u EXCEPT !.f = u.k[a].f]
    ELSE LET Made(v) == SetSlot(v, a, IF v.f = 0 /\ v.deep /\ depth > 0 THEN NotYet ELSE v.f)
         IN  Made(Body([u EXCEPT !.k[a].f = 1], a, depth))
Callee(j, a, depth) ==
    IF Headed(a) THEN HeaderOf(j, Word(a), depth + 1) ELSE SlotOf(KSlot(j, a), a, depth + 1)

(* jit_exec: EXECUTE of xt from a site in native code; what is native is    *)
(* remembered there.                                                       *)
Remember(u, site, a) ==
    IF u.f < 2 THEN u
    ELSE [u EXCEPT !.ic[site] = [xt |-> a, code |-> u.f, four |-> Peek(u, Word(a))]]
JitExec(j, site, a) ==
    Remember(IF Headed(a) THEN HeaderOf(j, Word(a), 0) ELSE SlotOf(KSlot(j, a), a, 0), site, a)

Hits(site, p) == LET c == jit.ic[site] IN c.xt = Xt(p) /\ c.code # 0 /\ c.four = Peek(jit, p)
-----------------------------------------------------------------------------
(* The native code a call reaches now: by a header, or by a slot whose      *)
(* signature is that of the word there.                                    *)
Entries ==
    {<<p, jit.hdr[p]>> : p \in {q \in Places : Colon(q) /\ jit.hdr[q] >= 2}}
    \cup {<<Word(a), jit.k[a].f>> : a \in {b \in DOMAIN jit.k : /\ Word(b) \in Places
                                                               /\ ~Headed(b) /\ (b = Past(Word(b)) => Colon(Word(b)))
                                                               /\ jit.k[b].sig = Sig(b) /\ jit.k[b].f >= 2}}
LiveSites == UNION {jit.code[e[2] - 1].sites : e \in Entries}

(* Words bytecode runs in: left so, with no header, or after DOES>.         *)
Calls(ops) == {i \in DOMAIN ops : ops[i][1] = "call"}
Interpreted(p) == ~Colon(p) \/ jit.hdr[p] = 0

JitInit ==
    /\ m \in Setups
    /\ dict = m.image
    /\ jit = [hdr |-> [p \in DOMAIN m.image |-> IF m.image[p].kind = "colon" THEN NotYet ELSE 0],
              k |-> <<>>, code |-> <<>>, nic |-> 0, deep |-> FALSE, f |-> 0,
              ic |-> [s \in 1 .. m.sites |-> [xt |-> 0, code |-> 0, four |-> <<>>]]]

(* A word made at HERE: it names words there are, or itself.                *)
Define(w) ==
    /\ \A i \in Calls(w.ops) : Word(w.ops[i][2]) <= Len(dict) + 1
    /\ w.kind = "child" => w.of \in Places /\ Colon(w.of) /\ dict[w.of].does # <<>>
    /\ dict' = Append(dict, w)
    /\ jit' = [jit EXCEPT !.hdr = Append(@, IF w.kind = "colon" THEN NotYet ELSE 0)]
    /\ UNCHANGED m

(* A MARKER made when the dictionary had n words.                           *)
Forget(n) ==
    /\ Len(m.image) <= n /\ n < Len(dict)
    /\ dict' = SubSeq(dict, 1, n)
    /\ jit' = [jit EXCEPT !.hdr = SubSeq(@, 1, n)]
    /\ UNCHANGED m

(* The JIT opcode reached by the text interpreter, which is no call site.   *)
Interpret(p) ==
    /\ Colon(p) /\ jit.hdr[p] = NotYet
    /\ jit' = Done(JitWord(jit, p, 0))
    /\ UNCHANGED <<m, dict>>

(* And by a call in bytecode, which goes past the header from then on if    *)
(* the word stays bytecode (and the address past it fits).                 *)
CallFrom(p, i) ==
    LET a == dict[p].ops[i][2]
    IN  /\ Interpreted(p) /\ i \in Calls(dict[p].ops) /\ Headed(a)
        /\ jit' = Done(HeaderOf(jit, Word(a), 0))
        /\ dict' = IF jit'.hdr[Word(a)] = 0 THEN [dict EXCEPT ![p].ops[i][2] = Past(Word(a))] ELSE dict
        /\ UNCHANGED m

(* EXECUTE in native code, of any word; a cold word's call, of the token    *)
(* the site has.                                                           *)
Execute(site, p) ==
    /\ [n |-> site, xt |-> 0] \in LiveSites /\ ~Hits(site, p)
    /\ jit' = Done(JitExec(jit, site, Xt(p)))
    /\ UNCHANGED <<m, dict>>
CallCold(site) ==
    LET p == Word(jit.ic[site].xt)
    IN  /\ \E s \in LiveSites : s.n = site /\ s.xt # 0
        /\ p \in Places /\ ~Hits(site, p)
        /\ jit' = Done(JitExec(jit, site, Xt(p)))
        /\ UNCHANGED <<m, dict>>

JitNext ==
    \/ Len(dict) < m.places /\ \E w \in m.forms[Len(dict) + 1] : Define(w)
    \/ \E n \in 0 .. Len(dict) : Forget(n)
    \/ \E p \in Places : Interpret(p)
    \/ \E p \in Places : \E i \in DOMAIN dict[p].ops : CallFrom(p, i)
    \/ \E site \in 1 .. m.sites : CallCold(site) \/ \E p \in Places : Execute(site, p)

JitSpec == JitInit /\ [][JitNext]_jitVars
-----------------------------------------------------------------------------
(* What a word does when it is run as bytecode.                             *)
Meaning ==
    LET Does(p, op, M) ==
            IF op[1] # "call" THEN op
            ELSE IF Word(op[2]) = p THEN <<"self", <<>>>>
            ELSE <<"run", M[Word(op[2])]>>
        M[p \in Places] ==
            IF dict[p].kind = "child" THEN <<<<"lit", p>>>> \o dict[dict[p].of].does
            ELSE [i \in DOMAIN dict[p].ops |-> Does(p, dict[p].ops[i], M)]
    IN  M

(* Whatever way native code is reached - a header, a slot, a site of        *)
(* EXECUTE's or of a cold call's - it does what the word called does as     *)
(* bytecode, all the way down (jit.c:529-533, spn-stencils.c:315).          *)
NativeCodeIsItsWord ==
    /\ \A e \in Entries : jit.code[e[2] - 1].means = Meaning[e[1]]
    /\ \A s \in LiveSites :
          /\ s.xt # 0 => jit.ic[s.n].xt = s.xt
          /\ \A p \in Places : Hits(s.n, p) => jit.code[jit.ic[s.n].code - 1].means = Meaning[p]

(* A word is left bytecode for good only for something in it or below it,   *)
(* for calls nested deeper than the translator goes, or for want of room -  *)
(* never for where in a chain of calls it was first met (jit.c:632, :993).   *)
Below(p) == {Word(dict[p].ops[i][2]) : i \in Calls(dict[p].ops)} \ {p}
Height ==
    LET H[p \in Places] ==
            IF dict[p].kind = "child" \/ Below(p) = {} THEN 0
            ELSE 1 + CHOOSE n \in 0 .. Len(dict) : n \in {H[q] : q \in Below(p)} /\ \A q \in Below(p) : H[q] <= n
    IN  H
CanBeNative ==
    LET C[p \in Places] ==
            /\ \A i \in DOMAIN Decoded(Xt(p)) : Decoded(Xt(p))[i][1] \notin {"bad"} \cup (IF m.exec THEN {} ELSE {"execute"})
            /\ dict[p].kind # "child" => \A q \in Below(p) : C[q] \/ (m.exec /\ q \in m.cold)
    IN  C
Full == Len(jit.code) = m.mem \/ Cardinality(DOMAIN jit.k) = m.slots
BytecodeForAReason ==
    \A p \in Places : Colon(p) /\ jit.hdr[p] = 0 => ~CanBeNative[p] \/ Height[p] > m.depth \/ Full
=============================================================================

---------------------------- MODULE Chain_proofs ----------------------------
(***************************************************************************)
(* Two chains never measure at once: a script between its lock and its     *)
(* release has the lock, and whatever has it, in the background too, is of *)
(* one chain.  For any chains, lines, terminals and power cuts, and        *)
(* packing disturbed or not.                                               *)
(*                                                                         *)
(* With packing undisturbed: no chain is forgotten, its status says what   *)
(* its steps say, and a stop that comes back has ended and archived it.    *)
(***************************************************************************)
EXTENDS Chain, SequenceTheorems, WellFoundedInduction, TLAPS

InStep == {"work", "failed", "then", "packing"}

LockTypes ==
    /\ DOMAIN main = Chains
    /\ lockers \subseteq Chains \X {"main", "helper"}

Has == \A c \in Chains : main[c] \in InStep => <<c, "main">> \in lockers
OneChain == \A x, y \in lockers : x[1] = y[1]
LockInv == LockTypes /\ Has /\ OneChain

(* What the proof needs of main and lockers of a step that takes no lock:  *)
(* a script in a step was in it before, and who no longer has the lock has *)
(* left its step.                                                          *)
LetsGo(C, I, m, mp, l, lp) ==
    /\ DOMAIN mp = C
    /\ lp \subseteq l
    /\ \A c \in C : mp[c] \in I => m[c] \in I /\ (<<c, "main">> \in l => <<c, "main">> \in lp)

LEMMA Going ==
    ASSUME LockInv, LetsGo(Chains, InStep, main, main', lockers, lockers')
    PROVE  LockInv'
<1>1. LockTypes'
  BY DEF LockInv, LockTypes, LetsGo, Chains
<1>2. Has'
  BY DEF LockInv, Has, LetsGo, Chains
<1>3. OneChain'
  BY DEF LockInv, OneChain, LetsGo
<1> QED
  BY <1>1, <1>2, <1>3 DEF LockInv

LEMMA Unlocked ==
    ASSUME LockInv, UNCHANGED <<main, lockers>>
    PROVE  LockInv'
BY DEF LockInv, LockTypes, Has, OneChain, Chains

LEMMA PackKeeps ==
    ASSUME LockInv, NEW p \in Packers, Pack(p)
    PROVE  LockInv'
<1>1. CASE WriteStatus(p)
  BY <1>1, Unlocked DEF WriteStatus
<1>2. CASE Tar(p)
  BY <1>2, Unlocked DEF Tar
<1>3. CASE Name(p)
  <2>1. Packed(p)
    BY <1>3 DEF Name
  <2>2. CASE p[1] = "chain"
    <3>1. main' = [main EXCEPT ![p[2]] = "over"] /\ lockers' = lockers \ {<<p[2], "main">>}
      BY <2>1, <2>2 DEF Packed, Released
    <3>2. LetsGo(Chains, InStep, main, main', lockers, lockers')
      BY <3>1 DEF LetsGo, InStep, LockInv, LockTypes
    <3> QED
      BY <3>2, Going
  <2>3. CASE p[1] # "chain"
    <3>1. main' = main /\ lockers' = lockers
      BY <2>1, <2>3 DEF Packed, Released
    <3> QED
      BY <3>1, Unlocked
  <2> QED
    BY <2>2, <2>3
<1> QED
  BY <1>1, <1>2, <1>3 DEF Pack

LEMMA StartKeeps ==
    ASSUME LockInv, NEW s \in Starters, StartStep(s)
    PROVE  LockInv'
<1>1. CASE UNCHANGED <<main, lockers>>
  BY <1>1, Unlocked
<1>2. CASE Detach(s)
  <2>1. main' = [main EXCEPT ![start[s].of] = "boot"] /\ lockers' = lockers
    BY <1>2 DEF Detach
  <2>2. LetsGo(Chains, InStep, main, main', lockers, lockers')
    BY <2>1 DEF LetsGo, InStep, LockInv, LockTypes
  <2> QED
    BY <2>2, Going
<1>3. Detach(s) \/ UNCHANGED <<main, lockers>>
  BY DEF StartStep, StartBegin, RecoverOne, Clean, GiveUp, MakeDir
<1> QED
  BY <1>1, <1>2, <1>3

(* The lock is taken only from nobody, and a background copy is begun only *)
(* by the script that has it.                                              *)
LEMMA ChainKeeps ==
    ASSUME LockInv, NEW c \in Chains, ChainStep(c)
    PROVE  LockInv'
<1>1. CASE Boot(c)
  <2>1. LetsGo(Chains, InStep, main, main', lockers, lockers')
    BY <1>1 DEF Boot, LetsGo, InStep, LockInv, LockTypes
  <2> QED
    BY <2>1, Going
<1>2. CASE Lock(c)
  <2>1. CASE lockers = {}
    <3>1. main' = [main EXCEPT ![c] = "work"] /\ lockers' = {<<c, "main">>}
      BY <1>2, <2>1 DEF Lock
    <3>2. \A d \in Chains : main[d] \notin InStep
      BY <2>1 DEF LockInv, Has
    <3>3. LockTypes'
      BY <3>1 DEF LockInv, LockTypes, Chains
    <3>4. Has'
      BY <3>1, <3>2 DEF LockInv, LockTypes, Has, Chains
    <3>5. OneChain'
      BY <3>1 DEF OneChain
    <3> QED
      BY <3>3, <3>4, <3>5 DEF LockInv
  <2>2. CASE lockers # {}
    <3>1. LetsGo(Chains, InStep, main, main', lockers, lockers')
      BY <1>2, <2>2 DEF Lock, LetsGo, InStep, LockInv, LockTypes
    <3> QED
      BY <3>1, Going
  <2> QED
    BY <2>1, <2>2
<1>3. CASE Launch(c)
  <2>1. main' = main /\ lockers' = lockers \cup {<<c, "helper">>} /\ <<c, "main">> \in lockers
    BY <1>3 DEF Launch, LockInv, Has, InStep
  <2>2. LockTypes'
    BY <2>1 DEF LockInv, LockTypes, Chains
  <2>3. Has'
    BY <2>1 DEF LockInv, Has, Chains
  <2>4. \A x \in lockers' : x[1] = c
    BY <2>1 DEF LockInv, OneChain
  <2>5. OneChain'
    BY <2>4 DEF OneChain
  <2> QED
    BY <2>2, <2>3, <2>5 DEF LockInv
<1>4. CASE Launched(c)
  <2>1. LetsGo(Chains, InStep, main, main', lockers, lockers')
    BY <1>4 DEF Launched, LetsGo, InStep, LockInv, LockTypes
  <2> QED
    BY <2>1, Going
<1>5. CASE WorkOk(c) \/ WorkFails(c) \/ Failed(c)
  <2>1. /\ lockers' = lockers /\ main[c] \in InStep
        /\ \E n \in InStep : main' = [main EXCEPT ![c] = n]
    BY <1>5 DEF WorkOk, WorkFails, Failed, InStep
  <2>2. LetsGo(Chains, InStep, main, main', lockers, lockers')
    BY <2>1 DEF LetsGo, LockInv, LockTypes
  <2> QED
    BY <2>2, Going
<1>6. CASE Then(c)
  <2>1. LetsGo(Chains, InStep, main, main', lockers, lockers')
    BY <1>6 DEF Then, LetsGo, InStep, LockInv, LockTypes
  <2> QED
    BY <2>1, Going
<1> QED
  BY <1>1, <1>2, <1>3, <1>4, <1>5, <1>6 DEF ChainStep

LEMMA SignalKeeps ==
    ASSUME LockInv, NEW c, NEW next, next \in {"failed", "then", "over"},
           next # "over" => main[c] \in InStep, Signalled(c, next)
    PROVE  LockInv'
<1>1. /\ main' = [main EXCEPT ![c] = IF Up(c) THEN next ELSE main[c]]
      /\ lockers' = lockers \ ({<<c, "helper">>} \cup IF next = "over" THEN {<<c, "main">>} ELSE {})
  BY DEF Signalled
<1>2. \A d \in Chains : d # c => main'[d] = main[d]
  BY <1>1 DEF LockInv, LockTypes
<1>3. c \in Chains /\ main'[c] \in InStep => main[c] \in InStep /\ next # "over"
  BY <1>1 DEF LockInv, LockTypes, Up, InStep
<1>4. LetsGo(Chains, InStep, main, main', lockers, lockers')
  BY <1>1, <1>2, <1>3 DEF LetsGo, LockInv, LockTypes
<1> QED
  BY <1>4, Going

LEMMA StopKeeps ==
    ASSUME LockInv, StopBegin \/ StopGoesOn
    PROVE  LockInv'
<1>1. CASE UNCHANGED <<main, lockers>>
  BY <1>1, Unlocked
<1>2. CASE Term
  <2>1. PICK next \in {"failed", "then", "over"} :
          (next # "over" => main[stop.of] \in InStep) /\ Signalled(stop.of, next)
    BY <1>2 DEF Term, InStep
  <2> QED
    BY <2>1, SignalKeeps
<1>3. CASE Kill
  BY <1>3, SignalKeeps DEF Kill
<1>4. UNCHANGED <<main, lockers>> \/ Term \/ Kill
  BY DEF StopBegin, StopGoesOn, StopMark, StopCheck
<1> QED
  BY <1>1, <1>2, <1>3, <1>4

LEMMA CutKeeps ==
    ASSUME LockInv, PowerCut
    PROVE  LockInv'
<1>1. lockers' = {} /\ main' = [c \in Chains |-> IF Up(c) THEN "over" ELSE main[c]]
  BY DEF PowerCut
<1>2. \A c \in Chains : main'[c] \notin InStep
  BY <1>1 DEF Up, InStep
<1> QED
  BY <1>1, <1>2 DEF LockInv, LockTypes, Has, OneChain, Chains

LEMMA LockInductive ==
    ASSUME LockInv, [Next]_vars
    PROVE  LockInv'
<1>1. CASE \E p \in Packers : Pack(p)
  BY <1>1, PackKeeps
<1>2. CASE \E s \in Starters : StartStep(s)
  BY <1>2, StartKeeps
<1>3. CASE \E c \in Chains : ChainStep(c)
  BY <1>3, ChainKeeps
<1>4. CASE StopBegin \/ StopGoesOn
  BY <1>4, StopKeeps
<1>5. CASE PowerCut
  BY <1>5, CutKeeps
<1>6. CASE UNCHANGED vars
  BY <1>6, Unlocked DEF vars
<1> QED
  BY <1>1, <1>2, <1>3, <1>4, <1>5, <1>6 DEF Next

LEMMA LockAlways == Spec => []LockInv
<1>1. Init => LockInv
  BY DEF Init, LockInv, LockTypes, Has, OneChain, InStep
<1>2. LockInv /\ [Next]_vars => LockInv'
  BY LockInductive
<1> QED
  BY <1>1, <1>2, PTL DEF Spec

(* At most one chain is between its lock and its release: at work, in its  *)
(* EXIT trap, packing, or about to begin its next step.                    *)
OneInStep == \A c, d \in Chains : main[c] \in InStep /\ main[d] \in InStep => c = d

LEMMA OneOfThem ==
    ASSUME LockInv
    PROVE  OneInStep
<1> SUFFICES ASSUME NEW c \in Chains, NEW d \in Chains, main[c] \in InStep, main[d] \in InStep
             PROVE  c = d
  BY DEF OneInStep
<1>1. <<c, "main">> \in lockers /\ <<d, "main">> \in lockers
  BY DEF LockInv, Has
<1>2. <<c, "main">>[1] = <<d, "main">>[1]
  BY <1>1 DEF LockInv, OneChain
<1> QED
  BY <1>2

(* One chain in a step at a time, whatever starts, stops and fails.        *)
THEOREM OneChainInStep == Spec => []OneInStep
BY LockAlways, OneOfThem, PTL

(* Two runs never measure at once (MeasureAlone), for any constants.       *)
THEOREM MeasureAloneAlways == Spec => []MeasureAlone
<1>1. LockInv => MeasureAlone
  BY OneOfThem DEF OneInStep, MeasureAlone, InStep
<1> QED
  BY <1>1, LockAlways, PTL
-----------------------------------------------------------------------------
(***************************************************************************)
(* The life of a chain, and who packs it.                                  *)
(***************************************************************************)
Results == {"ok", "FAILED", "STOPPED", "skipped"}
Dir == [status : {"absent"} \cup Open \cup Final, sid : BOOLEAN, steps : Seq(Results), archive : Int, line : Seq(Kinds)]

PackState == [at : {"no", "status", "tar", "name", "removed"}, of : Int, as : Final \cup {"none"}, n : Int]

TypeOK ==
    /\ dir \in [Chains -> Dir]
    /\ main \in [Chains -> {"none", "boot", "lock", "work", "failed", "then", "packing", "over"}]
    /\ at \in [Chains -> Int]
    /\ helper \in [Chains -> {"none", "copying", "over"}]
    /\ pack \in [Packers -> PackState]
    /\ start \in [Starters -> [pc : {"idle", "recover", "making", "made"}, todo : SUBSET Chains, of : Int]]
    /\ stop \in [pc : {"idle", "mark", "term", "wait", "packing"}, of : Int]

(* Its directory made, its session not yet. *)
Making(c) == \E s \in Starters : start[s].pc = "made" /\ start[s].of = c
MadeOnce ==
    /\ \A s \in Starters : start[s].pc = "made" => start[s].of \in Chains
    /\ \A s, t \in Starters : start[s].pc = "made" /\ start[t].pc = "made" /\ start[s].of = start[t].of => s = t

(* Nothing of it runs, or ever will. *)
Gone(c) == Exists(c) /\ ~Up(c) /\ helper[c] # "copying" /\ ~Making(c)

Born(c) ==
    /\ ~Exists(c) => dir[c] = NoDir
    /\ ~Exists(c) \/ Making(c) => main[c] = "none"
    /\ Making(c) => dir[c].status \in Open
    /\ main[c] \in {"none", "boot"} => ~dir[c].sid
    /\ ~dir[c].sid => main[c] \in {"none", "boot", "over"} /\ helper[c] = "none"

(* A chain's archive has every step, and it has one only when it is over.  *)
Sealed(c) ==
    dir[c].archive # NoArchive => Archived(c) /\ ~Up(c) /\ ~Making(c) /\ Exists(c)

(* A final status without an archive: somebody is about to make it. *)
Owed(c) ==
    \/ \E p \in Packers : Packing(p) /\ pack[p].of = c
    \/ stop.pc = "wait" /\ stop.of = c
Owing(c) == Exists(c) /\ dir[c].status \notin Open /\ dir[c].archive = NoArchive => Owed(c)

Moving(c) ==
    /\ Up(c) /\ main[c] # "packing" => dir[c].status \in Open
    /\ main[c] = "packing" => Packing(<<"chain", c>>)

(* A script's place in its line is what its records count; of those before *)
(* only experiments failed.                                                *)
InLine(c) ==
    /\ Exists(c) => dir[c].line # <<>>
    /\ main[c] \in {"none", "boot"} => dir[c].steps = <<>>
    /\ main[c] = "boot" => at[c] = 1
    /\ main[c] \in {"boot", "lock", "work", "failed", "then"} =>
         /\ at[c] \in 1 .. Len(dir[c].line)
         /\ Len(dir[c].steps) = IF main[c] = "then" THEN at[c] ELSE at[c] - 1
         /\ \A i \in 1 .. Len(dir[c].steps) :
               /\ dir[c].steps[i] \in {"ok", "FAILED"}
               /\ dir[c].steps[i] = "FAILED" => dir[c].line[i] = "experiment"
    /\ main[c] = "then" => ~Last(c)

Fine(c) == Born(c) /\ Sealed(c) /\ Owing(c) /\ Moving(c) /\ InLine(c) /\ Tells(dir[c].status, dir[c].steps, dir[c].line)

(* Who packs a chain is its script, or finds nothing of it left; what is   *)
(* to be its status tells its steps, what is to be its archive has them.   *)
PackFine(p) ==
    Packing(p) =>
       /\ pack[p].of \in Chains /\ Exists(pack[p].of)
       /\ pack[p].as \in Final /\ pack[p].at # "removed"
       /\ IF p[1] = "chain" THEN pack[p].of = p[2] /\ main[p[2]] = "packing" ELSE Gone(pack[p].of)
       /\ pack[p].at = "name" => pack[p].n = Len(dir[pack[p].of].steps)
       /\ Tells(pack[p].as, dir[pack[p].of].steps, dir[pack[p].of].line)

StopFine ==
    /\ stop.pc = "idle" => stop.of = 0
    /\ stop.pc # "idle" => stop.of \in Chains /\ dir[stop.of].sid
    /\ Packing(<<"stop", 0>>) => stop.pc = "packing" /\ stop.of = pack[<<"stop", 0>>].of

AllFine ==
    /\ TypeOK /\ MadeOnce /\ StopFine
    /\ \A c \in Chains : Fine(c)
    /\ \A p \in Packers : PackFine(p)

LEMMA FineStays ==
    ASSUME NEW c \in Chains, Fine(c),
           dir'[c] = dir[c], main'[c] = main[c], at'[c] = at[c], helper'[c] = helper[c],
           Making(c)' => Making(c), Owed(c) /\ dir[c].archive = NoArchive => Owed(c)',
           main[c] = "packing" /\ Packing(<<"chain", c>>) => Packing(<<"chain", c>>)'
    PROVE  Fine(c)'
<1>1. Born(c)'
  BY DEF Fine, Born, Exists
<1>2. Sealed(c)'
  BY DEF Fine, Sealed, Archived, Exists, Up
<1>3. Owing(c)'
  BY DEF Fine, Owing, Exists
<1>4. Moving(c)'
  BY DEF Fine, Moving, Up
<1>5. InLine(c)'
  BY DEF Fine, InLine, Exists, Last
<1>6. Tells(dir[c].status, dir[c].steps, dir[c].line)'
  BY DEF Fine
<1> QED
  BY <1>1, <1>2, <1>3, <1>4, <1>5, <1>6 DEF Fine

LEMMA PackStays ==
    ASSUME NEW p \in Packers, PackFine(p), pack'[p] = pack[p],
           NEW c, c = pack[p].of,
           Packing(p) => /\ Exists(c)' /\ dir'[c].steps = dir[c].steps /\ dir'[c].line = dir[c].line
                         /\ IF p[1] = "chain" THEN main'[p[2]] = "packing" ELSE Gone(c)'
    PROVE  PackFine(p)'
<1> SUFFICES ASSUME Packing(p) PROVE PackFine(p)'
  BY DEF PackFine, Packing
<1>1. Tells(pack[p].as, dir[c].steps, dir[c].line)
  BY DEF PackFine
<1>2. /\ dir'[c].steps = dir[c].steps /\ dir'[c].line = dir[c].line
      /\ pack'[p].of = c /\ pack'[p].as = pack[p].as
  OBVIOUS
<1>3. (Tells(pack[p].as, dir[pack[p].of].steps, dir[pack[p].of].line))'
  BY <1>1, <1>2
<1> QED
  BY <1>3 DEF PackFine, Packing
-----------------------------------------------------------------------------
(* The newest chain is one of them. *)
Lt == {p \in Nat \X Nat : p[1] < p[2]}

LEMMA LeastOf ==
    ASSUME NEW T \in SUBSET Nat, T # {}
    PROVE  \E x \in T : \A y \in T : x <= y
<1>1. Lt = OpToRel(<, Nat)
  BY Zenon DEF Lt, OpToRel
<1>2. IsWellFoundedOn(Lt, Nat)
  BY <1>1, NatLessThanWellFounded, Zenon
<1>3. PICK x \in T : \A y \in T : ~(<<y, x>> \in Lt)
  BY <1>2, WFMin, Zenon
<1>4. \A y \in T : ~(y < x)
  BY <1>3 DEF Lt
<1> QED
  BY <1>4

LEMMA NewestIs ==
    ASSUME AnyChain
    PROVE  Newest \in Chains /\ Exists(Newest)
<1> DEFINE S == {c \in Chains : Exists(c)}
           T == {NC - c : c \in S}
<1>1. NC \in Nat /\ S # {} /\ S \subseteq 1 .. NC
  BY ChainAssumption DEF AnyChain, Chains
<1> HIDE DEF S
<1>2. T \in SUBSET Nat /\ T # {}
  <2>1. \A c \in S : NC - c \in Nat
    BY <1>1
  <2>2. PICK c \in S : TRUE
    BY <1>1
  <2>3. NC - c \in T
    BY <2>2
  <2> QED
    BY <2>1, <2>3
<1>3. PICK x \in T : \A y \in T : x <= y
  BY <1>2, LeastOf
<1>4. PICK c \in S : x = NC - c
  BY <1>3
<1>5. ASSUME NEW d \in S
      PROVE  d <= c
  BY <1>1, <1>3, <1>4
<1>6. \E n \in Chains : Exists(n) /\ \A d \in Chains : Exists(d) => d <= n
  BY <1>5 DEF S
<1> QED
  BY <1>6 DEF Newest

LEMMA PackersAre ==
    /\ \A c \in Chains : <<"chain", c>> \in Packers
    /\ \A s \in Starters : <<"start", s>> \in Packers
    /\ <<"stop", 0>> \in Packers
    /\ \A p \in Packers : \/ p[1] = "chain" /\ p[2] \in Chains /\ p = <<"chain", p[2]>>
                          \/ p[1] = "start" /\ p[2] \in Starters /\ p = <<"start", p[2]>>
                          \/ p[1] = "stop" /\ p = <<"stop", 0>>
<1>1. ASSUME NEW p \in Packers
      PROVE  \/ p[1] = "chain" /\ p[2] \in Chains /\ p = <<"chain", p[2]>>
             \/ p[1] = "start" /\ p[2] \in Starters /\ p = <<"start", p[2]>>
             \/ p[1] = "stop" /\ p = <<"stop", 0>>
  <2>1. CASE p \in {"chain"} \X Chains
    BY <2>1
  <2>2. CASE p \in {"start"} \X Starters
    BY <2>2
  <2>3. CASE p = <<"stop", 0>>
    BY <2>3
  <2> QED
    BY <2>1, <2>2, <2>3 DEF Packers
<1> QED
  BY <1>1 DEF Packers

LEMMA ChainsInt == Chains \subseteq Nat \ {0}
  BY ChainAssumption DEF Chains

(* Whoever packs and whatever is packed, the types stay. *)
LEMMA BeganType ==
    ASSUME TypeOK, NEW p, NEW c \in Int, NEW status \in Final, Began(p, c, status)
    PROVE  pack' \in [Packers -> PackState]
<1>1. [at |-> "status", of |-> c, as |-> status, n |-> NoArchive] \in PackState
  BY DEF PackState, NoArchive
<1>2. pack \in [Packers -> PackState]
  BY DEF TypeOK
<1> QED
  BY ONLY <1>1, <1>2, Began(p, c, status) DEF Began

LEMMA PackTypes ==
    ASSUME TypeOK, NEW p \in Packers, PackFine(p), Pack(p)
    PROVE  TypeOK'
<1>1. CASE WriteStatus(p)
  <2>1. pack[p].as \in Final /\ pack[p].of \in Chains
    BY <1>1 DEF PackFine, WriteStatus, Packing
  <2>2. dir' \in [Chains -> Dir]
    <3>1. dir \in [Chains -> Dir] /\ pack[p].as \in {"absent"} \cup Open \cup Final
      BY <2>1 DEF TypeOK
    <3>2. [dir[pack[p].of] EXCEPT !.status = pack[p].as] \in Dir
      BY <2>1, <3>1 DEF Dir
    <3> QED
      BY <1>1, <3>1, <3>2 DEF WriteStatus
  <2>3. pack' \in [Packers -> PackState]
    <3> DEFINE next == [pack[p] EXCEPT !.at = "tar"]
    <3>1. pack \in [Packers -> PackState] /\ pack' = [pack EXCEPT ![p] = next]
      BY <1>1 DEF WriteStatus, TypeOK
    <3>2. next \in PackState
      BY <3>1 DEF PackState
    <3> HIDE DEF next
    <3> QED
      BY <3>1, <3>2
  <2> QED
    BY <1>1, <2>2, <2>3 DEF WriteStatus, TypeOK
<1>2. CASE Tar(p)
  <2>1. dir[pack[p].of] \in Dir
    BY <1>2 DEF PackFine, Tar, Packing, TypeOK
  <2>2. Len(dir[pack[p].of].steps) \in Int
    BY <2>1, LenProperties DEF Dir
  <2>3. pack' \in [Packers -> PackState]
    <3> DEFINE n == Len(dir[pack[p].of].steps)
               named == [pack[p] EXCEPT !.at = "name", !.n = n]
    <3>1. pack \in [Packers -> PackState]
      BY DEF TypeOK
    <3>2. pack' = [pack EXCEPT ![p] = named]
      BY <1>2 DEF Tar
    <3>3. pack[p] \in PackState
      BY <3>1
    <3>4. named \in PackState
      BY <2>2, <3>3 DEF PackState
    <3> HIDE DEF named
    <3> QED
      BY <3>1, <3>2, <3>4
  <2> QED
    BY <1>2, <2>3 DEF Tar, TypeOK
<1>3. CASE Name(p)
  <2>1. dir' \in [Chains -> Dir]
    <3>1. dir \in [Chains -> Dir] /\ pack[p].n \in Int
      BY DEF TypeOK, PackState
    <3>2. pack[p].of \in Chains => [dir[pack[p].of] EXCEPT !.archive = pack[p].n] \in Dir
      BY <3>1 DEF Dir
    <3> QED
      BY <1>3, <3>1, <3>2 DEF Name
  <2>2. pack' \in [Packers -> PackState]
    <3>1. NotPacking \in PackState
      BY DEF NotPacking, NoArchive, PackState
    <3> QED
      BY <1>3, <3>1 DEF Name, Packed, TypeOK
  <2>3. main' \in [Chains -> {"none", "boot", "lock", "work", "failed", "then", "packing", "over"}]
    BY <1>3 DEF Name, Packed, TypeOK
  <2>4. stop' \in [pc : {"idle", "mark", "term", "wait", "packing"}, of : Int]
    BY <1>3 DEF Name, Packed, TypeOK
  <2> QED
    BY <1>3, <2>1, <2>2, <2>3, <2>4 DEF Name, Packed, TypeOK
<1> QED
  BY <1>1, <1>2, <1>3 DEF Pack

LEMMA StartTypes ==
    ASSUME TypeOK, NEW s \in Starters, StartStep(s)
    PROVE  TypeOK'
<1> DEFINE Record == [pc : {"idle", "recover", "making", "made"}, todo : SUBSET Chains, of : Int]
<1>0. start[s] \in Record /\ start \in [Starters -> Record]
  BY DEF TypeOK
<1>1. CASE StartBegin(s) \/ GiveUp(s)
  BY <1>1 DEF StartBegin, GiveUp, TypeOK
<1>2. CASE RecoverOne(s)
  <2>1. PICK c \in start[s].todo :
          /\ start' = [start EXCEPT ![s].todo = @ \ {c}]
          /\ Began(<<"start", s>>, c, "interrupted") \/ UNCHANGED pack
    BY <1>2 DEF RecoverOne
  <2>2. c \in Int /\ "interrupted" \in Final
    BY <1>0, ChainsInt DEF Final
  <2>3. pack' \in [Packers -> PackState]
    BY <2>1, <2>2, BeganType DEF TypeOK
  <2>4. start' \in [Starters -> Record]
    BY <1>0, <2>1
  <2> QED
    BY <1>2, <2>3, <2>4 DEF RecoverOne, TypeOK
<1>3. CASE Clean(s)
  <2>1. ASSUME NEW p \in Packers
        PROVE  [pack[p] EXCEPT !.at = "removed"] \in PackState
    BY DEF TypeOK, PackState
  <2>2. pack' \in [Packers -> PackState]
    BY <1>3, <2>1 DEF Clean, TypeOK
  <2>3. start' \in [Starters -> Record]
    BY <1>0, <1>3 DEF Clean
  <2> QED
    BY <1>3, <2>2, <2>3 DEF Clean, TypeOK
<1>4. CASE MakeDir(s)
  <2>1. PICK c \in Chains, line \in Lines :
          /\ dir' = [dir EXCEPT ![c] = [NoDir EXCEPT !.status = "running", !.line = line]]
          /\ start' = [start EXCEPT ![s].pc = "made", ![s].of = c]
    BY <1>4 DEF MakeDir
  <2>2. c \in Int /\ line \in Seq(Kinds)
    BY ChainsInt, ChainAssumption
  <2>3. [NoDir EXCEPT !.status = "running", !.line = line] \in Dir
    <3>1. <<>> \in Seq(Results) /\ <<>> \in Seq(Kinds) /\ -1 \in Int
      BY EmptySeq
    <3>2. NoDir \in Dir
      BY <3>1 DEF NoDir, NoArchive, Dir
    <3>3. [NoDir EXCEPT !.status = "running"] \in Dir
      BY <3>2 DEF Dir, Open
    <3> QED
      BY <2>2, <3>3 DEF Dir
  <2>4. dir' \in [Chains -> Dir]
    BY <2>1, <2>3 DEF TypeOK
  <2>5. start' \in [Starters -> Record]
    <3> DEFINE new == [start[s] EXCEPT !.pc = "made", !.of = c]
    <3>1. start' = [start EXCEPT ![s] = new] /\ new \in Record
      BY <1>0, <2>1, <2>2
    <3> HIDE DEF new
    <3> QED
      BY <1>0, <3>1
  <2> QED
    BY <1>4, <2>4, <2>5 DEF MakeDir, TypeOK
<1>5. CASE Detach(s)
  <2>1. start' \in [Starters -> Record]
    BY <1>0, <1>5 DEF Detach
  <2>2. main' \in [Chains -> {"none", "boot", "lock", "work", "failed", "then", "packing", "over"}]
    BY <1>5 DEF Detach, TypeOK
  <2>3. at' \in [Chains -> Int]
    <3>1. at \in [Chains -> Int] /\ at' = [at EXCEPT ![start[s].of] = 1]
      BY <1>5 DEF Detach, TypeOK
    <3> DEFINE c == start[s].of
               one == 1
    <3>2. at' = [at EXCEPT ![c] = one] /\ one \in Int
      BY <3>1
    <3> HIDE DEF c, one
    <3> QED
      BY ONLY <3>1, <3>2
  <2> QED
    BY <1>5, <2>1, <2>2, <2>3 DEF Detach, TypeOK
<1> QED
  BY <1>1, <1>2, <1>3, <1>4, <1>5 DEF StartStep

LEMMA RecordedType ==
    ASSUME TypeOK, NEW c \in Chains, NEW records \in Seq(Results), Recorded(c, records)
    PROVE  dir' \in [Chains -> Dir]
<1>1. dir[c] \in Dir /\ dir \in [Chains -> Dir]
  BY DEF TypeOK
<1>2. dir[c].steps \o records \in Seq(Results)
  BY <1>1, ConcatProperties DEF Dir
<1>3. [dir[c] EXCEPT !.steps = @ \o records] \in Dir
  BY <1>1, <1>2 DEF Dir
<1> QED
  BY <1>1, <1>3 DEF Recorded

(* What the EXIT trap adds: one record, and another if the line ends there. *)
LEMMA FailedRecords ==
    ASSUME NEW r \in Results, NEW t \in {<<>>, <<"skipped">>}
    PROVE  /\ <<r>> \o t \in Seq(Results) /\ Len(<<r>> \o t) = 1 + Len(t)
           /\ Len(t) \in {0, 1} /\ (Len(t) = 1 <=> t = <<"skipped">>)
           /\ \A i \in 1 .. 1 + Len(t) : (<<r>> \o t)[i] = IF i = 1 THEN r ELSE "skipped"
<1>1. <<r>> \in Seq(Results) /\ Len(<<r>>) = 1 /\ <<r>>[1] = r
  OBVIOUS
<1>2. /\ t \in Seq(Results) /\ Len(t) \in {0, 1} /\ (Len(t) = 1 <=> t = <<"skipped">>)
      /\ Len(t) = 1 => t[1] = "skipped"
  <2>1. CASE t = <<>>
    BY <2>1, EmptySeq
  <2>2. CASE t = <<"skipped">>
    BY <2>2 DEF Results
  <2> QED
    BY <2>1, <2>2
<1> DEFINE h == <<r>>
<1> HIDE DEF h
<1>3. /\ h \o t \in Seq(Results) /\ Len(h \o t) = Len(h) + Len(t)
      /\ \A i \in 1 .. Len(h) + Len(t) : (h \o t)[i] = IF i <= Len(h) THEN h[i] ELSE t[i - Len(h)]
  BY <1>1, <1>2, ConcatProperties DEF h
<1>4. Len(h) = 1 /\ h[1] = r
  BY <1>1 DEF h
<1>5. ASSUME NEW i \in 1 .. 1 + Len(t)
      PROVE  (h \o t)[i] = IF i = 1 THEN r ELSE "skipped"
  BY <1>2, <1>3, <1>4
<1>6. /\ h \o t \in Seq(Results) /\ Len(h \o t) = 1 + Len(t)
      /\ \A i \in 1 .. 1 + Len(t) : (h \o t)[i] = IF i = 1 THEN r ELSE "skipped"
  BY <1>3, <1>4, <1>5
<1> QED
  BY <1>2, <1>6 DEF h

LEMMA ChainTypes ==
    ASSUME TypeOK, NEW c \in Chains, ChainStep(c)
    PROVE  TypeOK'
<1>0. c \in Int /\ \A e \in Final : Began(<<"chain", c>>, c, e) => pack' \in [Packers -> PackState]
  BY ChainsInt, BeganType
<1>1. CASE Boot(c)
  <2>1. dir[c] \in Dir /\ dir \in [Chains -> Dir]
    BY DEF TypeOK
  <2>2. [dir[c] EXCEPT !.sid = TRUE] \in Dir
    BY <2>1 DEF Dir
  <2>3. dir' \in [Chains -> Dir]
    BY <1>1, <2>1, <2>2 DEF Boot
  <2> QED
    BY <1>1, <2>3 DEF Boot, TypeOK
<1>2. CASE Lock(c) \/ Launch(c) \/ Launched(c) \/ WorkFails(c)
  BY <1>2 DEF Lock, Launch, Launched, WorkFails, TypeOK
<1>3. CASE WorkOk(c)
  <2>1. dir' \in [Chains -> Dir]
    <3>1. <<"ok">> \in Seq(Results)
      BY DEF Results
    <3> QED
      BY <1>3, <3>1, RecordedType DEF WorkOk
  <2>2. pack' \in [Packers -> PackState]
    BY <1>3, <1>0 DEF WorkOk, Final, TypeOK
  <2>3. main' \in [Chains -> {"none", "boot", "lock", "work", "failed", "then", "packing", "over"}]
    BY <1>3 DEF WorkOk, TypeOK
  <2> QED
    BY <1>3, <2>1, <2>2, <2>3 DEF WorkOk, TypeOK
<1>4. CASE Failed(c)
  <2>1. dir' \in [Chains -> Dir]
    <3>1. PICK r \in Results, t \in {<<>>, <<"skipped">>} : Recorded(c, <<r>> \o t)
      BY <1>4 DEF Failed, Results, Skipped
    <3>2. <<r>> \o t \in Seq(Results)
      BY FailedRecords
    <3> QED
      BY <3>1, <3>2, RecordedType
  <2>2. pack' \in [Packers -> PackState]
    BY <1>4, <1>0 DEF Failed, Final, TypeOK
  <2>3. main' \in [Chains -> {"none", "boot", "lock", "work", "failed", "then", "packing", "over"}]
    BY <1>4 DEF Failed, TypeOK
  <2> QED
    BY <1>4, <2>1, <2>2, <2>3 DEF Failed, TypeOK
<1>5. CASE Then(c)
  BY <1>5 DEF Then, TypeOK
<1> QED
  BY <1>1, <1>2, <1>3, <1>4, <1>5 DEF ChainStep

LEMMA SignalTypes ==
    ASSUME TypeOK, NEW c, NEW next \in {"failed", "then", "over"}, Signalled(c, next)
    PROVE  /\ main' \in [Chains -> {"none", "boot", "lock", "work", "failed", "then", "packing", "over"}]
           /\ helper' \in [Chains -> {"none", "copying", "over"}]
           /\ pack' \in [Packers -> PackState]
<1>1. NotPacking \in PackState
  BY DEF NotPacking, NoArchive, PackState
<1> QED
  BY <1>1 DEF Signalled, TypeOK

LEMMA StopTypes ==
    ASSUME TypeOK, StopFine, StopBegin \/ StopGoesOn
    PROVE  TypeOK'
<1> DEFINE Record == [pc : {"idle", "mark", "term", "wait", "packing"}, of : Int]
<1>1. CASE StopBegin
  <2>1. Newest \in Int
    <3>1. AnyChain
      BY <1>1 DEF StopBegin
    <3>2. Newest \in Chains
      BY ONLY <3>1, NewestIs
    <3> QED
      BY ONLY <3>2, ChainsInt
  <2>2. stop' \in Record
    BY <1>1, <2>1 DEF StopBegin
  <2> QED
    BY <1>1, <2>2 DEF StopBegin, TypeOK
<1>2. CASE StopMark
  <2>1. dir' \in [Chains -> Dir]
    <3>1. stop.of \in Chains /\ dir \in [Chains -> Dir]
      BY <1>2 DEF StopMark, StopFine, TypeOK
    <3>2. [dir[stop.of] EXCEPT !.status = "stopping"] \in Dir
      BY <3>1 DEF Dir, Open
    <3> QED
      BY <1>2, <3>1, <3>2 DEF StopMark
  <2> QED
    BY <1>2, <2>1 DEF StopMark, TypeOK
<1>3. CASE Term
  <2>1. PICK next \in {"failed", "then", "over"} : Signalled(stop.of, next)
    BY <1>3 DEF Term
  <2> QED
    BY <1>3, <2>1, SignalTypes DEF Term, TypeOK
<1>4. CASE Kill
  BY <1>4, SignalTypes DEF Kill, TypeOK
<1>5. CASE StopCheck
  <2>1. pack' \in [Packers -> PackState] /\ stop' \in Record
    BY <1>5, BeganType DEF StopCheck, TypeOK, Final
  <2> QED
    BY <1>5, <2>1 DEF StopCheck, TypeOK
<1> QED
  BY <1>1, <1>2, <1>3, <1>4, <1>5 DEF StopGoesOn

LEMMA CutTypes ==
    ASSUME TypeOK, PowerCut
    PROVE  TypeOK'
<1>1. NotPacking \in PackState
  BY DEF NotPacking, NoArchive, PackState
<1> QED
  BY <1>1 DEF PowerCut, TypeOK
-----------------------------------------------------------------------------
(* A step of one chain that something is left of: nothing is packing it    *)
(* but its script, and the others stay as they are.                        *)
Apart(c) ==
    /\ \A d \in Chains \ {c} :
         /\ dir'[d] = dir[d] /\ main'[d] = main[d] /\ at'[d] = at[d] /\ helper'[d] = helper[d]
         /\ Making(d)' => Making(d)
         /\ stop.pc = "wait" /\ stop.of = d => stop'.pc = "wait" /\ stop'.of = d
    /\ \A p \in Packers \ {<<"chain", c>>} : pack'[p] = pack[p]

LEMMA OthersStay ==
    ASSUME AllFine, NEW c \in Chains, ~Gone(c), Apart(c)
    PROVE  /\ \A d \in Chains \ {c} : Fine(d)'
           /\ \A p \in Packers \ {<<"chain", c>>} : PackFine(p)'
           /\ \A p \in Packers \ {<<"chain", c>>} : Packing(p) => pack[p].of # c
<1>1. ASSUME NEW p \in Packers \ {<<"chain", c>>}, Packing(p)
      PROVE  pack[p].of # c /\ Packing(p)' /\ pack'[p].of = pack[p].of
  <2>1. PackFine(p) /\ pack'[p] = pack[p]
    BY DEF AllFine, Apart
  <2>2. CASE p[1] = "chain"
    <3>1. p = <<"chain", p[2]>> /\ pack[p].of = p[2]
      BY <1>1, <2>1, <2>2, PackersAre DEF PackFine
    <3> QED
      BY <3>1, <2>1, <1>1 DEF Packing
  <2>3. CASE p[1] # "chain"
    BY <1>1, <2>1, <2>3 DEF PackFine, Packing
  <2> QED
    BY <2>2, <2>3
<1>2. ASSUME NEW p \in Packers \ {<<"chain", c>>}
      PROVE  PackFine(p)'
  <2>3. PICK d : d = pack[p].of
    OBVIOUS
  <2>1. PackFine(p) /\ pack'[p] = pack[p]
    BY DEF AllFine, Apart
  <2>2. ASSUME Packing(p)
        PROVE  /\ d \in Chains /\ Exists(d)' /\ dir'[d].steps = dir[d].steps /\ dir'[d].line = dir[d].line
               /\ IF p[1] = "chain" THEN main'[p[2]] = "packing" ELSE Gone(d)'
    <3>1. d \in Chains \ {c} /\ Exists(d)
      BY <1>1, <2>1, <2>2, <2>3 DEF PackFine
    <3>2. /\ dir'[d] = dir[d] /\ main'[d] = main[d] /\ helper'[d] = helper[d]
          /\ Making(d)' => Making(d)
      BY <3>1 DEF Apart
    <3>3. CASE p[1] = "chain"
      <4>1. d = p[2] /\ main[d] = "packing"
        BY <2>1, <2>2, <2>3, <3>3 DEF PackFine
      <4> QED
        BY <3>1, <3>2, <3>3, <4>1 DEF Exists
    <3>4. CASE p[1] # "chain"
      <4>1. Gone(d)
        BY <2>1, <2>2, <2>3, <3>4 DEF PackFine
      <4>2. Gone(d)'
        BY <3>2, <4>1 DEF Gone, Exists, Up
      <4> QED
        BY <3>1, <3>2, <3>4, <4>2 DEF Exists
    <3> QED
      BY <3>3, <3>4
  <2> QED
    BY <2>1, <2>2, <2>3, PackStays
<1>3. ASSUME NEW d \in Chains \ {c}
      PROVE  Fine(d)'
  <2>1. Owed(d) => Owed(d)'
    <3>1. CASE stop.pc = "wait" /\ stop.of = d
      BY <3>1 DEF Apart, Owed
    <3>2. ASSUME NEW p \in Packers, Packing(p), pack[p].of = d
          PROVE  Owed(d)'
      <4>1. p # <<"chain", c>>
        BY <3>2, PackersAre DEF AllFine, PackFine
      <4> QED
        BY <4>1, <3>2, <1>1 DEF Owed
    <3> QED
      BY <3>1, <3>2 DEF Owed
  <2>2. <<"chain", d>> \in Packers \ {<<"chain", c>>}
    BY PackersAre
  <2>3. main[d] = "packing" /\ Packing(<<"chain", d>>) => Packing(<<"chain", d>>)'
    BY <2>2, <1>1
  <2>4. Fine(d)
    BY DEF AllFine
  <2>5. /\ dir'[d] = dir[d] /\ main'[d] = main[d] /\ at'[d] = at[d] /\ helper'[d] = helper[d]
        /\ Making(d)' => Making(d)
    BY DEF Apart
  <2> QED
    BY <2>1, <2>3, <2>4, <2>5, FineStays
<1> QED
  BY <1>1, <1>2, <1>3

LEMMA StepOf ==
    ASSUME AllFine, NEW c \in Chains, ~Gone(c), Apart(c),
           TypeOK', MadeOnce', StopFine', Fine(c)', PackFine(<<"chain", c>>)'
    PROVE  AllFine'
<1>1. \A d \in Chains : Fine(d)'
  BY OthersStay
<1>2. \A p \in Packers : PackFine(p)'
  BY OthersStay
<1> QED
  BY <1>1, <1>2 DEF AllFine
-----------------------------------------------------------------------------
(***************************************************************************)
(* The chain's own script.                                                 *)
(***************************************************************************)
InScript == {"boot", "lock", "work", "failed", "then"}

LEMMA ScriptIn ==
    ASSUME AllFine, NEW c \in Chains, main[c] \in InScript
    PROVE  /\ Exists(c) /\ ~Making(c) /\ ~Gone(c) /\ dir[c].status \in Open /\ dir[c].archive = NoArchive
           /\ main[c] # "boot" => dir[c].sid
           /\ ~Packing(<<"chain", c>>) /\ InLine(c)
           /\ dir[c] \in Dir /\ at[c] \in Int
<1>1. Fine(c) /\ PackFine(<<"chain", c>>) /\ dir[c] \in Dir /\ at[c] \in Int
  BY PackersAre DEF AllFine, TypeOK
<1>2. Up(c)
  BY DEF Up, InScript
<1>3. Exists(c) /\ ~Making(c) /\ (main[c] # "boot" => dir[c].sid)
  BY <1>1 DEF Fine, Born, InScript, Dir
<1>4. dir[c].archive = NoArchive
  BY <1>1, <1>2 DEF Fine, Sealed
<1>5. dir[c].status \in Open
  BY <1>1, <1>2 DEF Fine, Moving, InScript
<1>6. ~Packing(<<"chain", c>>)
  BY <1>1 DEF PackFine, InScript
<1> QED
  BY <1>1, <1>2, <1>3, <1>4, <1>5, <1>6 DEF Gone, Fine

LEMMA ScriptFine ==
    ASSUME NEW c \in Chains,
           dir'[c].status \in Open, dir'[c].archive = NoArchive, dir'[c].sid, ~(Making(c)'),
           main'[c] \in {"lock", "work", "failed", "then", "packing", "over"},
           main'[c] = "packing" => Packing(<<"chain", c>>)', InLine(c)'
    PROVE  Fine(c)'
<1>1. Exists(c)'
  BY DEF Exists, Open
<1>2. Born(c)'
  BY <1>1 DEF Born
<1>3. Sealed(c)' /\ Owing(c)' /\ Moving(c)'
  BY DEF Sealed, Owing, Moving
<1>4. Tells(dir[c].status, dir[c].steps, dir[c].line)'
  BY DEF Tells, Open
<1> QED
  BY <1>2, <1>3, <1>4 DEF Fine

(* What is over with each step good, or a failed experiment, may say so.   *)
LEMMA AllRan ==
    ASSUME NEW s \in Seq(Results), NEW line \in Seq(Kinds), Len(s) = Len(line),
           \A i \in 1 .. Len(s) : s[i] \in {"ok", "FAILED"} /\ (s[i] = "FAILED" => line[i] = "experiment")
    PROVE  /\ (\E i \in DOMAIN s : s[i] = "FAILED") => Tells("done-some-failed", s, line)
           /\ ~(\E i \in DOMAIN s : s[i] = "FAILED") => Tells("done", s, line)
<1>1. DOMAIN s = 1 .. Len(s) /\ DOMAIN line = 1 .. Len(s)
  BY LenProperties
<1>2. Ran(s) = DOMAIN line /\ WentWrong(s) = {i \in DOMAIN s : s[i] = "FAILED"}
  BY <1>1 DEF Ran, WentWrong
<1> QED
  BY <1>1, <1>2 DEF Tells

(* What ends with a step that failed may say so. *)
LEMMA EndsFailed ==
    ASSUME NEW s \in Seq(Results), NEW line \in Seq(Kinds), NEW t \in {<<>>, <<"skipped">>},
           \A i \in 1 .. Len(s) : s[i] # "skipped",
           Len(s) + 1 < Len(line) => line[Len(s) + 1] = "seed" /\ t = <<"skipped">>
    PROVE  Tells("failed", s \o (<<"FAILED">> \o t), line)
<1> DEFINE n == Len(s) + 1
           r == <<"FAILED">> \o t
           u == s \o r
<1>1. /\ r \in Seq(Results) /\ Len(r) = 1 + Len(t) /\ Len(t) \in {0, 1} /\ (Len(t) = 1 <=> t = <<"skipped">>)
      /\ \A i \in 1 .. 1 + Len(t) : r[i] = IF i = 1 THEN "FAILED" ELSE "skipped"
  BY FailedRecords DEF Results
<1> HIDE DEF r
<1>2. /\ Len(u) = Len(s) + Len(r) /\ u \in Seq(Results)
      /\ \A i \in 1 .. Len(s) + Len(r) : u[i] = IF i <= Len(s) THEN s[i] ELSE r[i - Len(s)]
  <2>1. r \in Seq(Results) /\ s \in Seq(Results)
    BY <1>1
  <2> QED
    BY ONLY <2>1, ConcatProperties DEF u
<1>3. Len(s) \in Nat /\ n \in Nat
  BY LenProperties
<1>4. DOMAIN u = 1 .. n + Len(t)
  BY <1>1, <1>2, <1>3, LenProperties
<1> HIDE DEF u
<1>5. u[n] = "FAILED"
  <2>1. n \in 1 .. Len(s) + Len(r) /\ ~(n <= Len(s)) /\ n - Len(s) = 1 /\ 1 \in 1 .. 1 + Len(t)
    BY <1>1, <1>3
  <2>2. u[n] = r[1]
    BY <1>2, <2>1
  <2> QED
    BY <1>1, <2>1, <2>2
<1>6. \A i \in 1 .. n - 1 : u[i] # "skipped"
  BY <1>1, <1>2, <1>3
<1>7. Len(t) = 1 => u[n + 1] = "skipped"
  BY <1>1, <1>2, <1>3
<1>8. Ran(u) = 1 .. n
  <2>1. ASSUME NEW i \in 1 .. n + Len(t)
        PROVE  u[i] # "skipped" <=> i \in 1 .. n
    <3> HIDE DEF n
    <3>1. CASE i \in 1 .. n - 1
      BY <3>1, <1>3, <1>6
    <3>2. CASE i = n
      BY <3>2, <1>3, <1>5
    <3>3. CASE i > n
      <4>1. i = n + 1 /\ Len(t) = 1 /\ i \notin 1 .. n
        <5>1. (Len(t) = 0 \/ Len(t) = 1) /\ n \in Nat /\ i \in 1 .. n + Len(t)
          BY <1>1, <1>3
        <5>2. CASE Len(t) = 0
          <6>1. i \in 1 .. n + 0
            BY <5>1, <5>2
          <6> QED
            BY ONLY <6>1, <3>3, <5>1
        <5>3. CASE Len(t) = 1
          <6>1. i \in 1 .. n + 1
            BY <5>1, <5>3
          <6> QED
            BY ONLY <6>1, <3>3, <5>1, <5>3
        <5> QED
          BY ONLY <5>1, <5>2, <5>3
      <4> QED
        BY <4>1, <1>7
    <3> QED
      BY <3>1, <3>2, <3>3, <1>3
  <2>2. 1 .. n \subseteq 1 .. n + Len(t)
    BY <1>1, <1>3
  <2> QED
    BY <1>4, <2>1, <2>2 DEF Ran
<1>9. t = <<"skipped">> => Ran(u) # DOMAIN u
  <2>1. SUFFICES ASSUME t = <<"skipped">> PROVE n + 1 \in 1 .. n + Len(t) /\ n + 1 \notin 1 .. n
    BY <1>4, <1>8
  <2> QED
    BY <2>1, <1>1, <1>3
<1>10. n \in Ran(u)
  BY <1>3, <1>8
<1>11. Tells("failed", u, line)
  BY <1>5, <1>8, <1>9, <1>10 DEF Tells
<1> QED
  BY <1>11 DEF u, r

LEMMA OwnStep ==
    ASSUME AllFine, NEW c \in Chains, main[c] \in InScript,
           \A d \in Chains \ {c} : dir'[d] = dir[d] /\ main'[d] = main[d] /\ at'[d] = at[d] /\ helper'[d] = helper[d],
           \A p \in Packers \ {<<"chain", c>>} : pack'[p] = pack[p],
           UNCHANGED <<start, stop>>, TypeOK', PackFine(<<"chain", c>>)',
           dir'[c].sid, dir'[c].status = dir[c].status, dir'[c].archive = dir[c].archive,
           main'[c] \in {"lock", "work", "failed", "then", "packing", "over"},
           main'[c] = "packing" => Packing(<<"chain", c>>)', InLine(c)'
    PROVE  AllFine'
<1>1. /\ ~Making(c) /\ ~Gone(c) /\ dir[c].status \in Open /\ dir[c].archive = NoArchive
  BY ScriptIn
<1>2. \A d \in Chains : Making(d)' <=> Making(d)
  BY DEF Making
<1>3. Fine(c)'
  BY <1>1, <1>2, ScriptFine
<1>4. Apart(c)
  BY <1>2 DEF Apart
<1>5. MadeOnce'
  BY DEF AllFine, MadeOnce
<1>6. StopFine'
  <2>1. <<"stop", 0>> \in Packers \ {<<"chain", c>>}
    BY PackersAre
  <2>2. pack'[<<"stop", 0>>] = pack[<<"stop", 0>>]
    BY <2>1
  <2>3. \A d \in Chains : dir[d].sid => dir'[d].sid
    OBVIOUS
  <2> QED
    BY <2>2, <2>3 DEF AllFine, StopFine, Packing
<1> QED
  BY <1>1, <1>3, <1>4, <1>5, <1>6, StepOf

(* Without a word to its archive: the script goes on, or just ends. *)
LEMMA ScriptGoesOn ==
    ASSUME AllFine, NEW c \in Chains, ChainStep(c), main[c] \in InScript, UNCHANGED <<pack, start, stop>>, TypeOK',
           \A d \in Chains \ {c} : dir'[d] = dir[d] /\ main'[d] = main[d] /\ at'[d] = at[d] /\ helper'[d] = helper[d],
           dir'[c].sid, dir'[c].status = dir[c].status, dir'[c].archive = dir[c].archive,
           main'[c] \in {"lock", "work", "failed", "then", "over"}, InLine(c)'
    PROVE  AllFine'
<1>1. ~Packing(<<"chain", c>>)
  BY ScriptIn
<1>2. PackFine(<<"chain", c>>)'
  BY <1>1 DEF PackFine, Packing
<1> QED
  BY <1>2, OwnStep

LEMMA BootFine ==
    ASSUME AllFine, NEW c \in Chains, Boot(c)
    PROVE  AllFine'
<1>1. main[c] \in InScript /\ ChainStep(c) /\ TypeOK /\ c \in DOMAIN dir /\ c \in DOMAIN main
  BY DEF Boot, InScript, ChainStep, AllFine, TypeOK
<1>2. InLine(c) /\ dir[c] \in Dir /\ at[c] \in Int
  BY <1>1, ScriptIn
<1>3. /\ \A d \in Chains \ {c} : dir'[d] = dir[d] /\ main'[d] = main[d] /\ at'[d] = at[d] /\ helper'[d] = helper[d]
      /\ dir'[c] = [dir[c] EXCEPT !.sid = TRUE] /\ main'[c] = "lock"
  BY <1>1 DEF Boot
<1>4. /\ dir'[c].sid /\ dir'[c].status = dir[c].status /\ dir'[c].archive = dir[c].archive
      /\ dir'[c].steps = dir[c].steps /\ dir'[c].line = dir[c].line
  BY <1>2, <1>3 DEF Dir
<1>5. InLine(c)'
  BY <1>2, <1>3, <1>4 DEF Boot, InLine, Exists
<1>6. TypeOK'
  BY <1>1, ChainTypes
<1> QED
  BY <1>1, <1>3, <1>4, <1>5, <1>6, ScriptGoesOn DEF Boot

LEMMA LockFine ==
    ASSUME AllFine, NEW c \in Chains, Lock(c) \/ Launch(c) \/ WorkFails(c)
    PROVE  AllFine'
<1>1. main[c] \in {"lock", "work"} /\ main[c] \in InScript /\ ChainStep(c) /\ TypeOK
  BY DEF Lock, Launch, WorkFails, InScript, ChainStep, AllFine
<1>2. InLine(c) /\ dir[c].sid
  BY <1>1, ScriptIn
<1>3. /\ \A d \in Chains \ {c} : dir'[d] = dir[d] /\ main'[d] = main[d] /\ at'[d] = at[d] /\ helper'[d] = helper[d]
      /\ dir'[c] = dir[c] /\ main'[c] \in {"work", "failed", "over"} /\ UNCHANGED <<at, pack, start, stop>>
  BY <1>1 DEF Lock, Launch, WorkFails, TypeOK
<1>4. InLine(c)'
  BY <1>1, <1>2, <1>3 DEF InLine, Exists
<1>5. TypeOK'
  BY <1>1, ChainTypes
<1> QED
  BY <1>1, <1>2, <1>3, <1>4, <1>5, ScriptGoesOn

LEMMA ThenFine ==
    ASSUME AllFine, NEW c \in Chains, Then(c)
    PROVE  AllFine'
<1>1. main[c] = "then" /\ main[c] \in InScript /\ ChainStep(c) /\ TypeOK
  BY DEF Then, InScript, ChainStep, AllFine
<1>2. InLine(c) /\ dir[c].sid /\ dir[c] \in Dir /\ at[c] \in Int
  BY <1>1, ScriptIn
<1>3. /\ \A d \in Chains \ {c} : dir'[d] = dir[d] /\ main'[d] = main[d] /\ at'[d] = at[d] /\ helper'[d] = helper[d]
      /\ dir'[c] = dir[c] /\ UNCHANGED <<pack, start, stop>>
      /\ (main'[c] = "lock" /\ at'[c] = at[c] + 1) \/ main'[c] = "over"
  BY <1>1 DEF Then, TypeOK
<1>4. InLine(c)'
  <2>1. CASE main'[c] = "lock" /\ at'[c] = at[c] + 1
    <3>1. Len(dir[c].line) \in Nat
      BY <1>2, LenProperties DEF Dir
    <3>2. /\ at[c] \in 1 .. Len(dir[c].line) /\ at[c] # Len(dir[c].line) /\ Len(dir[c].steps) = at[c]
      BY <1>1, <1>2 DEF InLine, Last
    <3>3. at'[c] \in 1 .. Len(dir[c].line) /\ Len(dir[c].steps) = at'[c] - 1
      BY <2>1, <3>1, <3>2
    <3> QED
      BY <2>1, <3>3, <1>1, <1>2, <1>3 DEF InLine, Exists
  <2>2. CASE main'[c] = "over"
    BY <2>2, <1>2, <1>3 DEF InLine, Exists
  <2> QED
    BY <2>1, <2>2, <1>3
<1>5. TypeOK'
  BY <1>1, ChainTypes
<1> QED
  BY <1>1, <1>2, <1>3, <1>4, <1>5, ScriptGoesOn

(* The records before a step's own, and what adding to them gives.         *)
LEMMA Adds ==
    ASSUME NEW s \in Seq(Results), NEW r \in Seq(Results)
    PROVE  /\ s \o r \in Seq(Results) /\ Len(s \o r) = Len(s) + Len(r)
           /\ Len(s) \in Nat /\ Len(r) \in Nat
           /\ \A i \in 1 .. Len(s) : i \in 1 .. Len(s \o r) /\ (s \o r)[i] = s[i]
           /\ \A i \in 1 .. Len(s) + Len(r) : (s \o r)[i] = IF i <= Len(s) THEN s[i] ELSE r[i - Len(s)]
<1> DEFINE u == s \o r
<1>1. /\ u \in Seq(Results) /\ Len(u) = Len(s) + Len(r)
      /\ \A i \in 1 .. Len(s) + Len(r) : u[i] = IF i <= Len(s) THEN s[i] ELSE r[i - Len(s)]
  BY ConcatProperties
<1>2. Len(s) \in Nat /\ Len(r) \in Nat
  BY LenProperties
<1> HIDE DEF u
<1>3. \A i \in 1 .. Len(s) : i \in 1 .. Len(u) /\ u[i] = s[i]
  BY <1>1, <1>2
<1> QED
  BY <1>1, <1>2, <1>3 DEF u

(* One more, of those a script that goes on leaves. *)
LEMMA AddsOne ==
    ASSUME NEW s \in Seq(Results), NEW line \in Seq(Kinds), NEW r \in {"ok", "FAILED"},
           Len(s) < Len(line), r = "FAILED" => line[Len(s) + 1] = "experiment",
           \A i \in 1 .. Len(s) : s[i] \in {"ok", "FAILED"} /\ (s[i] = "FAILED" => line[i] = "experiment")
    PROVE  /\ s \o <<r>> \in Seq(Results) /\ Len(s \o <<r>>) = Len(s) + 1
           /\ \A i \in 1 .. Len(s) + 1 : /\ (s \o <<r>>)[i] \in {"ok", "FAILED"}
                                         /\ (s \o <<r>>)[i] = "FAILED" => line[i] = "experiment"
           /\ r = "ok" => ((\E i \in DOMAIN (s \o <<r>>) : (s \o <<r>>)[i] = "FAILED") <=> \E i \in DOMAIN s : s[i] = "FAILED")
<1> DEFINE u == s \o <<r>>
<1>1. <<r>> \in Seq(Results) /\ Len(<<r>>) = 1 /\ <<r>>[1] = r
  BY DEF Results
<1>2. /\ u \in Seq(Results) /\ Len(u) = Len(s) + 1 /\ Len(s) \in Nat
      /\ \A i \in 1 .. Len(s) : u[i] = s[i]
      /\ \A i \in 1 .. Len(s) + 1 : u[i] = IF i <= Len(s) THEN s[i] ELSE <<r>>[i - Len(s)]
  BY <1>1, Adds
<1>3. DOMAIN u = 1 .. Len(s) + 1 /\ DOMAIN s = 1 .. Len(s)
  BY <1>2, LenProperties
<1> HIDE DEF u
<1>4. u[Len(s) + 1] = r
  <2>1. Len(s) + 1 \in 1 .. Len(s) + 1 /\ ~(Len(s) + 1 <= Len(s)) /\ (Len(s) + 1) - Len(s) = 1
    BY <1>2
  <2> QED
    BY <1>1, <1>2, <2>1
<1>5. ASSUME NEW i \in 1 .. Len(s) + 1
      PROVE  u[i] \in {"ok", "FAILED"} /\ (u[i] = "FAILED" => line[i] = "experiment")
  <2>1. i \in 1 .. Len(s) \/ i = Len(s) + 1
    BY <1>2
  <2> QED
    BY <2>1, <1>2, <1>4
<1>6. ASSUME r = "ok"
      PROVE  (\E i \in DOMAIN u : u[i] = "FAILED") <=> \E i \in DOMAIN s : s[i] = "FAILED"
  <2>1. \A i \in DOMAIN u : u[i] = "FAILED" => i \in 1 .. Len(s)
    BY <1>2, <1>3, <1>4, <1>6
  <2>2. 1 .. Len(s) \subseteq DOMAIN u
    BY <1>2, <1>3
  <2> QED
    BY <2>1, <2>2, <1>2, <1>3
<1> QED
  BY <1>2, <1>5, <1>6 DEF u

LEMMA BeganFine ==
    ASSUME NEW c \in Chains, NEW status \in {"done", "done-some-failed", "failed", "stopped"}, TypeOK,
           Began(<<"chain", c>>, c, status), main'[c] = "packing", Exists(c)',
           Tells(status, dir'[c].steps, dir'[c].line)
    PROVE  PackFine(<<"chain", c>>)' /\ Packing(<<"chain", c>>)'
<1> DEFINE p == <<"chain", c>>
<1>1. p \in Packers
  BY PackersAre
<1>2. pack'[p] = [at |-> "status", of |-> c, as |-> status, n |-> NoArchive]
  BY <1>1 DEF Began, TypeOK
<1>3. pack'[p].at = "status" /\ pack'[p].of = c /\ pack'[p].as = status
  BY <1>2
<1>4. p[1] = "chain" /\ p[2] = c
  OBVIOUS
<1> HIDE DEF p
<1>5. (Tells(pack[p].as, dir[pack[p].of].steps, dir[pack[p].of].line))'
  BY <1>3
<1>6. PackFine(p)' /\ Packing(p)'
  BY <1>3, <1>4, <1>5 DEF PackFine, Packing, Final
<1> QED
  BY <1>6 DEF p

(* A script that works, or is in its EXIT trap: what its line's place is.  *)
LEMMA Working ==
    ASSUME AllFine, NEW c \in Chains, main[c] \in {"work", "failed"}
    PROVE  /\ dir[c].steps \in Seq(Results) /\ dir[c].line \in Seq(Kinds) /\ Len(dir[c].line) \in Nat
           /\ at[c] \in 1 .. Len(dir[c].line) /\ Len(dir[c].steps) = at[c] - 1 /\ Len(dir[c].steps) + 1 = at[c]
           /\ \A i \in 1 .. Len(dir[c].steps) : /\ dir[c].steps[i] \in {"ok", "FAILED"}
                                                /\ dir[c].steps[i] = "FAILED" => dir[c].line[i] = "experiment"
<1>1. InLine(c) /\ dir[c] \in Dir /\ at[c] \in Int
  BY ScriptIn DEF InScript
<1>2. dir[c].steps \in Seq(Results) /\ dir[c].line \in Seq(Kinds) /\ Len(dir[c].line) \in Nat
  BY <1>1, LenProperties DEF Dir
<1> QED
  BY <1>1, <1>2 DEF InLine

LEMMA RecordedIs ==
    ASSUME TypeOK, NEW c \in Chains, NEW records, Recorded(c, records)
    PROVE  /\ \A d \in Chains \ {c} : dir'[d] = dir[d]
           /\ dir'[c].steps = dir[c].steps \o records /\ dir'[c].line = dir[c].line
           /\ dir'[c].status = dir[c].status /\ dir'[c].archive = dir[c].archive /\ dir'[c].sid = dir[c].sid
<1>1. dir[c] \in Dir /\ dir \in [Chains -> Dir]
  BY DEF TypeOK
<1>2. dir'[c] = [dir[c] EXCEPT !.steps = @ \o records] /\ \A d \in Chains \ {c} : dir'[d] = dir[d]
  BY <1>1 DEF Recorded
<1> QED
  BY <1>1, <1>2 DEF Dir

LEMMA WorkOkFine ==
    ASSUME AllFine, NEW c \in Chains, WorkOk(c)
    PROVE  AllFine'
<1>1. main[c] = "work" /\ main[c] \in InScript /\ ChainStep(c) /\ TypeOK
  BY DEF WorkOk, InScript, ChainStep, AllFine
<1>2. TypeOK'
  BY <1>1, ChainTypes
<1>3. /\ dir[c].sid /\ dir[c].status \in Open /\ InLine(c) /\ Exists(c) /\ ~Packing(<<"chain", c>>)
  BY <1>1, ScriptIn
<1>4. /\ dir[c].steps \in Seq(Results) /\ dir[c].line \in Seq(Kinds) /\ Len(dir[c].line) \in Nat
      /\ at[c] \in 1 .. Len(dir[c].line) /\ Len(dir[c].steps) = at[c] - 1 /\ Len(dir[c].steps) + 1 = at[c]
      /\ \A i \in 1 .. Len(dir[c].steps) : /\ dir[c].steps[i] \in {"ok", "FAILED"}
                                           /\ dir[c].steps[i] = "FAILED" => dir[c].line[i] = "experiment"
  BY <1>1, Working
<1>5. /\ \A d \in Chains \ {c} : dir'[d] = dir[d]
      /\ dir'[c].steps = dir[c].steps \o <<"ok">> /\ dir'[c].line = dir[c].line
      /\ dir'[c].status = dir[c].status /\ dir'[c].archive = dir[c].archive /\ dir'[c].sid = dir[c].sid
  BY <1>1, RecordedIs DEF WorkOk
<1>6. Exists(c)'
  BY <1>3, <1>5 DEF Exists
<1> DEFINE s == dir[c].steps
           u == dir[c].steps \o <<"ok">>
           line == dir[c].line
<1>7. /\ u \in Seq(Results) /\ Len(u) = at[c]
      /\ \A i \in 1 .. at[c] : u[i] \in {"ok", "FAILED"} /\ (u[i] = "FAILED" => line[i] = "experiment")
      /\ (\E i \in DOMAIN u : u[i] = "FAILED") <=> SomeFailed(c)
  <2>1. Len(s) < Len(line)
    BY <1>4
  <2>2. s \in Seq(Results) /\ line \in Seq(Kinds)
    BY <1>4
  <2>3. \A i \in 1 .. Len(s) : s[i] \in {"ok", "FAILED"} /\ (s[i] = "FAILED" => line[i] = "experiment")
    BY <1>4
  <2> HIDE DEF s, line
  <2>4. /\ s \o <<"ok">> \in Seq(Results) /\ Len(s \o <<"ok">>) = Len(s) + 1
        /\ \A i \in 1 .. Len(s) + 1 : /\ (s \o <<"ok">>)[i] \in {"ok", "FAILED"}
                                      /\ (s \o <<"ok">>)[i] = "FAILED" => line[i] = "experiment"
        /\ (\E i \in DOMAIN (s \o <<"ok">>) : (s \o <<"ok">>)[i] = "FAILED") <=> \E i \in DOMAIN s : s[i] = "FAILED"
    BY <2>1, <2>2, <2>3, AddsOne
  <2> QED
    BY <1>4, <2>4 DEF SomeFailed, s
<1> HIDE DEF u
<1>8. \A d \in Chains \ {c} : dir'[d] = dir[d] /\ main'[d] = main[d] /\ at'[d] = at[d] /\ helper'[d] = helper[d]
  BY <1>1, <1>5 DEF WorkOk, TypeOK
<1>9. \A p \in Packers \ {<<"chain", c>>} : pack'[p] = pack[p]
  BY <1>1 DEF WorkOk, TypeOK, Began
<1>10. UNCHANGED <<at, start, stop>> /\ dir'[c].steps = u
  BY <1>5 DEF WorkOk, u
<1>11. CASE Last(c)
  <2>1. main'[c] = "packing" /\ Began(<<"chain", c>>, c, IF SomeFailed(c) THEN "done-some-failed" ELSE "done")
    BY <1>1, <1>11 DEF WorkOk, TypeOK
  <2>2. Tells(IF SomeFailed(c) THEN "done-some-failed" ELSE "done", u, line)
    <3>1. Len(u) = Len(line)
      BY <1>7, <1>11 DEF Last
    <3>2. /\ (\E i \in DOMAIN u : u[i] = "FAILED") => Tells("done-some-failed", u, line)
          /\ ~(\E i \in DOMAIN u : u[i] = "FAILED") => Tells("done", u, line)
      BY <1>4, <1>7, <3>1, AllRan
    <3> QED
      BY <1>7, <3>2
  <2>3. PICK status \in {"done", "done-some-failed", "failed", "stopped"} :
          Began(<<"chain", c>>, c, status) /\ Tells(status, dir'[c].steps, dir'[c].line)
    BY <2>1, <2>2, <1>5, <1>10
  <2>4. PackFine(<<"chain", c>>)' /\ Packing(<<"chain", c>>)'
    BY <2>1, <2>3, <1>1, <1>6, BeganFine
  <2>5. InLine(c)'
    BY <2>1, <1>3, <1>5 DEF InLine
  <2> QED
    BY <2>1, <2>4, <2>5, <1>1, <1>2, <1>3, <1>5, <1>8, <1>9, <1>10, OwnStep
<1>12. CASE ~Last(c)
  <2>1. main'[c] = "then" /\ pack' = pack
    BY <1>1, <1>12 DEF WorkOk, TypeOK
  <2>2. InLine(c)'
    <3>1. at'[c] = at[c] /\ dir'[c].line = line /\ dir'[c].steps = u
      BY <1>5, <1>10
    <3>2. Len(dir'[c].steps) = at'[c] /\ ~(Last(c)')
      BY <3>1, <1>7, <1>12 DEF Last
    <3>3. \A i \in 1 .. Len(dir'[c].steps) : /\ dir'[c].steps[i] \in {"ok", "FAILED"}
                                             /\ dir'[c].steps[i] = "FAILED" => dir'[c].line[i] = "experiment"
      BY <3>1, <3>2, <1>7
    <3>4. dir'[c].line # <<>> /\ at'[c] \in 1 .. Len(dir'[c].line)
      BY <3>1, <1>3, <1>4 DEF InLine
    <3> QED
      BY <2>1, <3>2, <3>3, <3>4 DEF InLine
  <2> QED
    BY <2>1, <2>2, <1>1, <1>2, <1>3, <1>5, <1>8, <1>10, ScriptGoesOn
<1> QED
  BY <1>11, <1>12

LEMMA FailedFine ==
    ASSUME AllFine, NEW c \in Chains, Failed(c)
    PROVE  AllFine'
<1>1. main[c] = "failed" /\ main[c] \in InScript /\ ChainStep(c) /\ TypeOK
  BY DEF Failed, InScript, ChainStep, AllFine
<1>2. TypeOK'
  BY <1>1, ChainTypes
<1>3. /\ dir[c].sid /\ dir[c].status \in Open /\ InLine(c) /\ Exists(c) /\ ~Packing(<<"chain", c>>)
  BY <1>1, ScriptIn
<1>4. /\ dir[c].steps \in Seq(Results) /\ dir[c].line \in Seq(Kinds) /\ Len(dir[c].line) \in Nat
      /\ at[c] \in 1 .. Len(dir[c].line) /\ Len(dir[c].steps) = at[c] - 1 /\ Len(dir[c].steps) + 1 = at[c]
      /\ \A i \in 1 .. Len(dir[c].steps) : /\ dir[c].steps[i] \in {"ok", "FAILED"}
                                           /\ dir[c].steps[i] = "FAILED" => dir[c].line[i] = "experiment"
  BY <1>1, Working
<1> DEFINE s == dir[c].steps
           line == dir[c].line
           goesOn == dir[c].status # "stopping" /\ Kind(c) = "experiment" /\ ~Last(c)
<1>5. PICK r \in {"STOPPED", "FAILED"}, t \in {<<>>, <<"skipped">>} :
         /\ Recorded(c, <<r>> \o t)
         /\ r = "STOPPED" <=> dir[c].status = "stopping"
         /\ goesOn => t = <<>>
         /\ ~goesOn => t = IF Last(c) THEN <<>> ELSE <<"skipped">>
  BY DEF Failed, Skipped
<1>6. /\ \A d \in Chains \ {c} : dir'[d] = dir[d]
      /\ dir'[c].steps = dir[c].steps \o (<<r>> \o t) /\ dir'[c].line = dir[c].line
      /\ dir'[c].status = dir[c].status /\ dir'[c].archive = dir[c].archive /\ dir'[c].sid = dir[c].sid
  BY <1>1, <1>5, RecordedIs
<1>7. Exists(c)'
  BY <1>3, <1>6 DEF Exists
<1>8. \A d \in Chains \ {c} : dir'[d] = dir[d] /\ main'[d] = main[d] /\ at'[d] = at[d] /\ helper'[d] = helper[d]
  BY <1>1, <1>6 DEF Failed, TypeOK
<1>9. \A p \in Packers \ {<<"chain", c>>} : pack'[p] = pack[p]
  BY <1>1 DEF Failed, TypeOK, Began
<1>10. UNCHANGED <<at, start, stop>>
  BY DEF Failed
<1>11. CASE goesOn
  <2>1. main'[c] = "then" /\ pack' = pack
    BY <1>1, <1>11 DEF Failed, TypeOK
  <2>2. <<r>> \o t = <<"FAILED">> /\ line[at[c]] = "experiment"
    <3>1. r = "FAILED" /\ t = <<>> /\ <<"FAILED">> \in Seq(Results)
      BY <1>5, <1>11 DEF Results
    <3> QED
      BY <3>1, <1>11, ConcatEmptySeq DEF Kind
  <2> DEFINE u == s \o <<"FAILED">>
  <2>3. /\ Len(u) = at[c]
        /\ \A i \in 1 .. at[c] : u[i] \in {"ok", "FAILED"} /\ (u[i] = "FAILED" => line[i] = "experiment")
    <3>1. Len(s) < Len(line) /\ line[Len(s) + 1] = "experiment"
      BY <1>4, <2>2
    <3>2. s \in Seq(Results) /\ line \in Seq(Kinds)
      BY <1>4
    <3>3. \A i \in 1 .. Len(s) : s[i] \in {"ok", "FAILED"} /\ (s[i] = "FAILED" => line[i] = "experiment")
      BY <1>4
    <3> HIDE DEF s, line
    <3>4. /\ Len(s \o <<"FAILED">>) = Len(s) + 1
          /\ \A i \in 1 .. Len(s) + 1 : /\ (s \o <<"FAILED">>)[i] \in {"ok", "FAILED"}
                                        /\ (s \o <<"FAILED">>)[i] = "FAILED" => line[i] = "experiment"
      BY <3>1, <3>2, <3>3, AddsOne
    <3> QED
      BY <1>4, <3>4 DEF s
  <2>4. dir'[c].steps = u
    BY <1>6, <2>2
  <2> HIDE DEF u
  <2>5. InLine(c)'
    <3>1. at'[c] = at[c] /\ dir'[c].line = line
      BY <1>6, <1>10
    <3>2. Len(dir'[c].steps) = at'[c] /\ ~(Last(c)')
      BY <3>1, <2>3, <2>4, <1>11 DEF Last
    <3>3. \A i \in 1 .. Len(dir'[c].steps) : /\ dir'[c].steps[i] \in {"ok", "FAILED"}
                                             /\ dir'[c].steps[i] = "FAILED" => dir'[c].line[i] = "experiment"
      BY <3>1, <3>2, <2>3, <2>4
    <3>4. dir'[c].line # <<>> /\ at'[c] \in 1 .. Len(dir'[c].line)
      BY <3>1, <1>3, <1>4 DEF InLine
    <3> QED
      BY <2>1, <3>2, <3>3, <3>4 DEF InLine
  <2> QED
    BY <2>1, <2>5, <1>1, <1>2, <1>3, <1>6, <1>8, <1>10, ScriptGoesOn
<1>12. CASE ~goesOn
  <2>1. main'[c] = "packing" /\ Began(<<"chain", c>>, c, IF dir[c].status = "stopping" THEN "stopped" ELSE "failed")
    BY <1>1, <1>12 DEF Failed, TypeOK
  <2>2. ASSUME dir[c].status = "stopping"
        PROVE  PackFine(<<"chain", c>>)' /\ Packing(<<"chain", c>>)'
    <3>1. Tells("stopped", dir'[c].steps, dir'[c].line)
      BY DEF Tells
    <3>2. PackFine(<<"chain", c>>)' /\ Packing(<<"chain", c>>)'
      BY <2>1, <2>2, <3>1, <1>1, <1>7, BeganFine
    <3> QED
      BY <3>2
  <2>3. ASSUME dir[c].status # "stopping"
        PROVE  PackFine(<<"chain", c>>)' /\ Packing(<<"chain", c>>)'
    <3>1. Tells("failed", dir'[c].steps, dir'[c].line)
      <4>1. r = "FAILED" /\ t = IF Last(c) THEN <<>> ELSE <<"skipped">>
        BY <1>5, <1>12, <2>3
      <4>2. ASSUME Len(s) + 1 < Len(line)
            PROVE  line[Len(s) + 1] = "seed" /\ t = <<"skipped">>
        <5>1. ~Last(c) /\ line[at[c]] # "experiment"
          BY <4>2, <1>4, <1>12, <2>3 DEF Last, Kind
        <5>2. line[at[c]] \in Kinds
          BY <1>4, ElementOfSeq
        <5> QED
          BY <5>1, <5>2, <4>1, <1>4 DEF Kinds
      <4>3. s \in Seq(Results) /\ line \in Seq(Kinds) /\ \A i \in 1 .. Len(s) : s[i] # "skipped"
        BY <1>4
      <4> HIDE DEF s, line
      <4>4. Tells("failed", s \o (<<"FAILED">> \o t), line)
        BY <4>2, <4>3, EndsFailed
      <4> QED
        BY <4>1, <4>4, <1>6 DEF s, line
    <3>2. PackFine(<<"chain", c>>)' /\ Packing(<<"chain", c>>)'
      BY <2>1, <2>3, <3>1, <1>1, <1>7, BeganFine
    <3> QED
      BY <3>2
  <2>4. PackFine(<<"chain", c>>)' /\ Packing(<<"chain", c>>)'
    BY <2>2, <2>3
  <2>5. InLine(c)'
    BY <2>1, <1>3, <1>6 DEF InLine
  <2> QED
    BY <2>1, <2>4, <2>5, <1>1, <1>2, <1>3, <1>6, <1>8, <1>9, <1>10, OwnStep
<1> QED
  BY <1>11, <1>12

LEMMA LaunchedFine ==
    ASSUME AllFine, NEW c \in Chains, Launched(c)
    PROVE  AllFine'
<1>1. ChainStep(c) /\ TypeOK /\ Fine(c) /\ PackFine(<<"chain", c>>)
  BY PackersAre DEF ChainStep, AllFine
<1>2. TypeOK'
  BY <1>1, ChainTypes
<1>3. /\ helper[c] = "copying" /\ helper'[c] = "over" /\ \A d \in Chains \ {c} : helper'[d] = helper[d]
      /\ UNCHANGED <<dir, main, at, pack, start, stop>>
  BY <1>1 DEF Launched, TypeOK
<1>4. \A d \in Chains : (Making(d)' <=> Making(d)) /\ (Owed(d)' <=> Owed(d)) /\ (Packing(<<"chain", d>>)' <=> Packing(<<"chain", d>>))
  BY <1>3 DEF Making, Owed, Packing
<1>5. ~Gone(c) /\ Apart(c)
  BY <1>3, <1>4 DEF Gone, Apart
<1>6. Fine(c)'
  <2>1. Born(c)'
    BY <1>1, <1>3, <1>4 DEF Fine, Born, Exists
  <2>2. Sealed(c)' /\ Owing(c)' /\ Moving(c)' /\ InLine(c)'
    BY <1>1, <1>3, <1>4 DEF Fine, Sealed, Owing, Moving, InLine, Archived, Exists, Up, Last
  <2>3. Tells(dir[c].status, dir[c].steps, dir[c].line)'
    BY <1>1, <1>3 DEF Fine
  <2> QED
    BY <2>1, <2>2, <2>3 DEF Fine
<1>7. PackFine(<<"chain", c>>)'
  <2> DEFINE p == <<"chain", c>>
  <2>1. p[1] = "chain" /\ PackFine(p)
    BY <1>1
  <2> HIDE DEF p
  <2>2. PackFine(p)'
    BY <2>1, <1>3 DEF PackFine, Packing, Exists
  <2> QED
    BY <2>2 DEF p
<1>8. MadeOnce' /\ StopFine'
  BY <1>3 DEF AllFine, MadeOnce, StopFine, Packing
<1> QED
  BY <1>2, <1>5, <1>6, <1>7, <1>8, StepOf
-----------------------------------------------------------------------------
(***************************************************************************)
(* Packing, whoever packs.                                                 *)
(***************************************************************************)
LEMMA PackerIs ==
    ASSUME AllFine, NEW p \in Packers, Packing(p)
    PROVE  \E c \in Chains :
              /\ c = pack[p].of /\ Exists(c) /\ dir[c] \in Dir /\ Fine(c)
              /\ pack[p].as \in Final /\ pack[p].at # "removed" /\ pack[p].n \in Int
              /\ Tells(pack[p].as, dir[c].steps, dir[c].line)
              /\ p[1] = "chain" => p = <<"chain", c>> /\ p[2] = c /\ main[c] = "packing" /\ ~Gone(c)
              /\ p[1] # "chain" => Gone(c)
<1>1. PackFine(p) /\ TypeOK
  BY DEF AllFine
<1>2. pack[p].of \in Chains /\ dir[pack[p].of] \in Dir /\ Fine(pack[p].of)
  BY <1>1 DEF PackFine, TypeOK, AllFine
<1>3. pack[p].n \in Int
  BY <1>1 DEF TypeOK, PackState
<1>4. p[1] = "chain" => p = <<"chain", pack[p].of>> /\ p[2] = pack[p].of /\ main[pack[p].of] = "packing"
  BY <1>1, PackersAre DEF PackFine
<1>5. main[pack[p].of] = "packing" => ~Gone(pack[p].of)
  BY DEF Gone, Up
<1> QED
  BY <1>1, <1>2, <1>3, <1>4, <1>5 DEF PackFine

LEMMA WriteStatusFine ==
    ASSUME AllFine, NEW p \in Packers, WriteStatus(p)
    PROVE  AllFine'
<1>1. Packing(p) /\ Pack(p) /\ TypeOK /\ PackFine(p)
  BY DEF WriteStatus, Packing, Pack, AllFine
<1>2. TypeOK'
  BY <1>1, PackTypes
<1>3. PICK c \in Chains :
         /\ c = pack[p].of /\ Exists(c) /\ dir[c] \in Dir /\ Fine(c)
         /\ pack[p].as \in Final
         /\ Tells(pack[p].as, dir[c].steps, dir[c].line)
         /\ p[1] = "chain" => main[c] = "packing"
         /\ p[1] # "chain" => Gone(c)
  BY <1>1, PackerIs
<1>4. /\ UNCHANGED <<main, at, helper, start, stop>>
      /\ \A d \in Chains \ {c} : dir'[d] = dir[d]
      /\ dir'[c] = [dir[c] EXCEPT !.status = pack[p].as]
      /\ \A q \in Packers \ {p} : pack'[q] = pack[q]
      /\ pack'[p] = [pack[p] EXCEPT !.at = "tar"]
  BY <1>1, <1>3 DEF WriteStatus, TypeOK
<1>5. /\ dir'[c].status = pack[p].as /\ dir'[c].sid = dir[c].sid /\ dir'[c].steps = dir[c].steps
      /\ dir'[c].archive = dir[c].archive /\ dir'[c].line = dir[c].line
  BY <1>3, <1>4 DEF Dir
<1>6. pack[p] \in PackState /\ pack'[p].at = "tar" /\ pack'[p].of = c /\ pack'[p].as = pack[p].as
  BY <1>1, <1>3, <1>4 DEF TypeOK, PackState
<1>7. \A q \in Packers : pack'[q].of = pack[q].of /\ pack'[q].as = pack[q].as /\ (Packing(q)' <=> Packing(q))
  BY <1>1, <1>3, <1>4, <1>6 DEF Packing
<1>8. \A d \in Chains : (Making(d)' <=> Making(d)) /\ (Owed(d)' <=> Owed(d)) /\ (Packing(<<"chain", d>>)' <=> Packing(<<"chain", d>>))
  BY <1>4, <1>7, PackersAre DEF Making, Owed
<1>9. \A d \in Chains : dir'[d].steps = dir[d].steps /\ dir'[d].line = dir[d].line /\ (Exists(d)' <=> Exists(d)) /\ (Gone(d)' <=> Gone(d))
  <2>1. Exists(c)'
    BY <1>3, <1>5 DEF Exists, Final
  <2>2. \A d \in Chains : dir'[d].steps = dir[d].steps /\ dir'[d].line = dir[d].line
    BY <1>3, <1>4, <1>5
  <2>3. \A d \in Chains : Exists(d)' <=> Exists(d)
    <3>1. ASSUME NEW d \in Chains, d # c PROVE Exists(d)' <=> Exists(d)
      BY <3>1, <1>4 DEF Exists
    <3> QED
      BY <3>1, <2>1, <1>3
  <2>4. \A d \in Chains : (Up(d)' <=> Up(d)) /\ helper'[d] = helper[d]
    BY <1>4 DEF Up
  <2> QED
    BY <2>2, <2>3, <2>4, <1>8 DEF Gone
<1>10. ASSUME NEW d \in Chains PROVE Fine(d)'
  <2>1. CASE d # c
    <3>1. Fine(d)
      BY DEF AllFine
    <3> QED
      BY <2>1, <3>1, <1>4, <1>8, FineStays
  <2>2. CASE d = c
    <3>1. Fine(c) /\ ~Making(c)
      BY <1>3 DEF Fine, Born, Gone
    <3>2. Born(c)'
      BY <3>1, <1>4, <1>5, <1>8, <1>9, <1>3 DEF Fine, Born
    <3>3. Sealed(c)'
      BY <3>1, <1>4, <1>5, <1>8, <1>9 DEF Fine, Sealed, Archived, Up
    <3>4. Owing(c)'
      BY <1>1, <1>3, <1>7 DEF Owing, Owed
    <3>5. Moving(c)'
      BY <3>1, <1>3, <1>4, <1>8 DEF Fine, Moving, Up, Gone
    <3>6. InLine(c)'
      <4>1. InLine(c) /\ Exists(c) /\ Exists(c)'
        BY <3>1, <1>3, <1>9 DEF Fine
      <4>2. main'[c] = main[c] /\ at'[c] = at[c] /\ dir'[c].steps = dir[c].steps /\ dir'[c].line = dir[c].line
        BY <1>4, <1>5
      <4> QED
        BY ONLY <4>1, <4>2 DEF InLine, Last
    <3>7. Tells(dir[c].status, dir[c].steps, dir[c].line)'
      BY <1>3, <1>5
    <3> QED
      BY <2>2, <3>2, <3>3, <3>4, <3>5, <3>6, <3>7 DEF Fine
  <2> QED
    BY <2>1, <2>2
<1>11. ASSUME NEW q \in Packers PROVE PackFine(q)'
  <2>1. PackFine(q)
    BY DEF AllFine
  <2>2. CASE q # p
    <3>1. PICK e : e = pack[q].of
      OBVIOUS
    <3>2. Packing(q) => /\ Exists(e)' /\ dir'[e].steps = dir[e].steps /\ dir'[e].line = dir[e].line
                        /\ IF q[1] = "chain" THEN main'[q[2]] = "packing" ELSE Gone(e)'
      BY <2>1, <3>1, <1>4, <1>9 DEF PackFine
    <3> QED
      BY <2>1, <2>2, <3>1, <3>2, <1>4, PackStays
  <2>3. CASE q = p
    <3>1. (Tells(pack[p].as, dir[pack[p].of].steps, dir[pack[p].of].line))'
      BY <1>3, <1>5, <1>6
    <3>2. Exists(c)' /\ (p[1] # "chain" => Gone(c)')
      BY <1>3, <1>9
    <3>3. pack'[p].of \in Chains /\ Exists(pack[p].of)' /\ (p[1] # "chain" => Gone(pack[p].of)')
      BY <3>2, <1>6 DEF Exists, Gone, Up, Making
    <3>4. IF p[1] = "chain" THEN pack'[p].of = p[2] /\ main'[p[2]] = "packing" ELSE Gone(pack[p].of)'
      BY <3>3, <1>1, <1>4, <1>7 DEF PackFine
    <3> QED
      BY <2>3, <3>1, <3>3, <3>4, <1>1, <1>3, <1>6 DEF PackFine
  <2> QED
    BY <2>2, <2>3
<1>12. MadeOnce'
  BY <1>4 DEF AllFine, MadeOnce
<1>13. StopFine'
  <2>1. stop'.of \in Chains => (dir'[stop'.of].sid <=> dir[stop.of].sid)
    BY <1>4, <1>5
  <2> QED
    BY <2>1, <1>4, <1>7, PackersAre DEF AllFine, StopFine
<1> QED
  BY <1>2, <1>10, <1>11, <1>12, <1>13 DEF AllFine

LEMMA TarFine ==
    ASSUME AllFine, NEW p \in Packers, Tar(p)
    PROVE  AllFine'
<1>1. Packing(p) /\ Pack(p) /\ TypeOK /\ PackFine(p)
  BY DEF Tar, Packing, Pack, AllFine
<1>2. TypeOK'
  BY <1>1, PackTypes
<1>3. UNCHANGED <<dir, main, at, helper, start, stop>> /\ \A q \in Packers \ {p} : pack'[q] = pack[q]
  BY <1>1 DEF Tar, TypeOK
<1>4. /\ pack'[p].at = "name" /\ pack'[p].of = pack[p].of /\ pack'[p].as = pack[p].as
      /\ pack'[p].n = Len(dir[pack[p].of].steps)
  <2>1. pack[p] \in PackState
    BY <1>1 DEF TypeOK
  <2>2. pack'[p] = [pack[p] EXCEPT !.at = "name", !.n = Len(dir[pack[p].of].steps)]
    BY <1>1, <2>1 DEF Tar, TypeOK, PackState
  <2> QED
    BY <2>1, <2>2 DEF PackState
<1>5. \A q \in Packers : pack'[q].of = pack[q].of /\ (Packing(q)' <=> Packing(q))
  BY <1>1, <1>3, <1>4 DEF Packing
<1>6. \A d \in Chains : (Making(d)' <=> Making(d)) /\ (Owed(d)' <=> Owed(d)) /\ (Packing(<<"chain", d>>)' <=> Packing(<<"chain", d>>))
  BY <1>3, <1>5, PackersAre DEF Making, Owed
<1>7. ASSUME NEW d \in Chains PROVE Fine(d)'
  <2>1. Fine(d)
    BY DEF AllFine
  <2> QED
    BY <2>1, <1>3, <1>6, FineStays
<1>8. ASSUME NEW q \in Packers PROVE PackFine(q)'
  <2>1. PackFine(q)
    BY DEF AllFine
  <2>2. CASE q # p
    BY <2>1, <2>2, <1>3 DEF PackFine, Packing, Exists, Gone, Up, Making
  <2>3. CASE q = p
    <3>1. (Tells(pack[p].as, dir[pack[p].of].steps, dir[pack[p].of].line))'
      BY <1>1, <1>3, <1>4 DEF PackFine
    <3>2. Gone(pack[p].of) => Gone(pack[p].of)'
      BY <1>3, <1>4 DEF Gone, Exists, Up, Making
    <3>3. pack'[p].of \in Chains /\ Exists(pack[p].of)'
      BY <1>1, <1>3, <1>4 DEF PackFine, Exists
    <3>4. IF p[1] = "chain" THEN pack'[p].of = p[2] /\ main'[p[2]] = "packing" ELSE Gone(pack[p].of)'
      BY <3>2, <1>1, <1>3, <1>4 DEF PackFine
    <3> QED
      BY <2>3, <3>1, <3>3, <3>4, <1>1, <1>3, <1>4 DEF PackFine
  <2> QED
    BY <2>2, <2>3
<1>9. MadeOnce' /\ StopFine'
  BY <1>3, <1>5, PackersAre DEF AllFine, MadeOnce, StopFine
<1> QED
  BY <1>2, <1>7, <1>8, <1>9 DEF AllFine

LEMMA NameFine ==
    ASSUME AllFine, NEW p \in Packers, Name(p)
    PROVE  AllFine'
<1>1. Packing(p) /\ Pack(p) /\ TypeOK /\ PackFine(p)
  BY DEF Name, Packing, Pack, AllFine
<1>2. TypeOK'
  BY <1>1, PackTypes
<1>3. PICK c \in Chains :
         /\ c = pack[p].of /\ Exists(c) /\ dir[c] \in Dir /\ Fine(c)
         /\ pack[p].at # "removed"
         /\ p[1] = "chain" => p = <<"chain", c>> /\ p[2] = c /\ main[c] = "packing" /\ ~Gone(c)
         /\ p[1] # "chain" => Gone(c)
  BY <1>1, PackerIs
<1>4. pack[p].at = "name" /\ pack[p].n = Len(dir[c].steps) /\ Len(dir[c].steps) \in Nat
  BY <1>1, <1>3, LenProperties DEF Name, PackFine, Dir
<1>5. /\ UNCHANGED <<at, helper, start>>
      /\ \A d \in Chains \ {c} : dir'[d] = dir[d] /\ main'[d] = main[d]
      /\ dir'[c] = [dir[c] EXCEPT !.archive = pack[p].n]
      /\ main'[c] = IF p[1] = "chain" THEN "over" ELSE main[c]
      /\ \A q \in Packers \ {p} : pack'[q] = pack[q]
      /\ pack'[p] = NotPacking
      /\ stop' = IF p[1] = "stop" THEN [pc |-> "idle", of |-> 0] ELSE stop
  BY <1>1, <1>3, <1>4 DEF Name, Packed, TypeOK
<1>6. /\ dir'[c].status = dir[c].status /\ dir'[c].sid = dir[c].sid /\ dir'[c].steps = dir[c].steps
      /\ dir'[c].archive = Len(dir[c].steps) /\ dir'[c].line = dir[c].line
  BY <1>3, <1>4, <1>5 DEF Dir
<1>7. /\ \A q \in Packers \ {p} : Packing(q)' <=> Packing(q)
      /\ ~Packing(p)'
  BY <1>5 DEF Packing, NotPacking
<1>8. \A d \in Chains : Making(d)' <=> Making(d)
  BY <1>5 DEF Making
<1>9. ~Making(c) /\ (Up(c) => p[1] = "chain")
  BY <1>3 DEF Fine, Born, Gone
<1>10. ~(Up(c)')
  BY <1>5, <1>9 DEF Up
<1>11. Fine(c)'
  <2>1. Exists(c)'
    BY <1>3, <1>6 DEF Exists
  <2>2. p[1] = "chain" => dir[c].sid
    BY <1>3 DEF Fine, Born, Dir
  <2>3. Born(c)'
    BY <2>1, <2>2, <1>3, <1>5, <1>6, <1>8, <1>9 DEF Fine, Born
  <2>4. Sealed(c)'
    BY <2>1, <1>6, <1>8, <1>9, <1>10 DEF Sealed, Archived
  <2>5. Owing(c)'
    BY <1>4, <1>6 DEF Owing, NoArchive
  <2>6. Moving(c)'
    BY <1>10 DEF Moving, Up
  <2>7. InLine(c)'
    <3>1. InLine(c) /\ Exists(c)
      BY <1>3 DEF Fine
    <3>2. main'[c] \in {"none", "boot"} => main[c] = main'[c]
      BY <1>5
    <3>3. main'[c] \notin {"boot", "lock", "work", "failed", "then"}
      BY <1>10 DEF Up
    <3> QED
      BY ONLY <2>1, <3>1, <3>2, <3>3, <1>6 DEF InLine
  <2>8. Tells(dir[c].status, dir[c].steps, dir[c].line)'
    BY <1>3, <1>6 DEF Fine
  <2> QED
    BY <2>3, <2>4, <2>5, <2>6, <2>7, <2>8 DEF Fine
<1>12. stop.pc = "wait" => stop' = stop
  <2>1. p[1] = "stop" => p = <<"stop", 0>>
    BY PackersAre
  <2> QED
    BY <2>1, <1>1, <1>5 DEF AllFine, StopFine
<1>13. StopFine'
  <2>1. \A d \in Chains : dir'[d].sid <=> dir[d].sid
    BY <1>5, <1>6
  <2>2. CASE p[1] = "stop"
    <3>1. p = <<"stop", 0>> /\ stop' = [pc |-> "idle", of |-> 0]
      BY <2>2, <1>5, PackersAre
    <3> QED
      BY <3>1, <1>7 DEF StopFine
  <2>3. CASE p[1] # "stop"
    <3>1. p # <<"stop", 0>> /\ stop' = stop
      BY <2>3, <1>5
    <3>2. pack'[<<"stop", 0>>] = pack[<<"stop", 0>>]
      BY <3>1, <1>5, PackersAre
    <3> QED
      BY <3>1, <3>2, <2>1 DEF AllFine, StopFine, Packing
  <2> QED
    BY <2>2, <2>3
<1>14. MadeOnce'
  BY <1>5 DEF AllFine, MadeOnce
<1>15. CASE p[1] = "chain"
  <2>1. Apart(c)
    BY <1>3, <1>5, <1>8, <1>12, <1>15 DEF Apart
  <2>2. PackFine(<<"chain", c>>)'
    BY <1>3, <1>7, <1>15 DEF PackFine
  <2> QED
    BY <2>1, <2>2, <1>2, <1>3, <1>11, <1>13, <1>14, <1>15, StepOf
<1>16. CASE p[1] # "chain"
  <2>1. Gone(c) /\ Gone(c)' /\ main' = main
    <3>1. Gone(c) /\ main' = main
      BY <1>1, <1>3, <1>16 DEF Name, Packed
    <3> QED
      BY <3>1, <1>5, <1>6, <1>8 DEF Gone, Exists, Up
  <2>2. ASSUME NEW d \in Chains \ {c} PROVE Fine(d)'
    <3>1. Owed(d) => Owed(d)'
      <4>1. CASE stop.pc = "wait" /\ stop.of = d
        BY <4>1, <1>12 DEF Owed
      <4>2. ASSUME NEW q \in Packers, Packing(q), pack[q].of = d
            PROVE  Owed(d)'
        <5>1. q # p
          BY <4>2, <1>3
        <5> QED
          BY <5>1, <4>2, <1>5, <1>7 DEF Owed
      <4> QED
        BY <4>1, <4>2 DEF Owed
    <3>2. <<"chain", d>> # p /\ <<"chain", d>> \in Packers
      BY <1>16, PackersAre
    <3>3. Fine(d)
      BY DEF AllFine
    <3> QED
      BY <3>1, <3>2, <3>3, <1>5, <1>7, <1>8, FineStays
  <2>3. ASSUME NEW q \in Packers PROVE PackFine(q)'
    <3>1. PackFine(q)
      BY DEF AllFine
    <3>2. CASE q # p
      <4>1. PICK e : e = pack[q].of
        OBVIOUS
      <4>2. Packing(q) => /\ Exists(e)' /\ dir'[e].steps = dir[e].steps /\ dir'[e].line = dir[e].line
                          /\ IF q[1] = "chain" THEN main'[q[2]] = "packing" ELSE Gone(e)'
        <5> SUFFICES ASSUME Packing(q)
                     PROVE  /\ Exists(e)' /\ dir'[e].steps = dir[e].steps /\ dir'[e].line = dir[e].line
                            /\ IF q[1] = "chain" THEN main'[q[2]] = "packing" ELSE Gone(e)'
          OBVIOUS
        <5>1. e \in Chains /\ Exists(e) /\ IF q[1] = "chain" THEN main[q[2]] = "packing" ELSE Gone(e)
          BY <3>1, <4>1 DEF PackFine
        <5>2. CASE e = c
          BY <5>1, <5>2, <2>1, <1>6 DEF Exists
        <5>3. CASE e # c
          <6>1. dir'[e] = dir[e] /\ main'[e] = main[e] /\ helper'[e] = helper[e] /\ (Making(e)' <=> Making(e))
            BY <5>1, <5>3, <1>5, <1>8
          <6>2. Gone(e) => Gone(e)'
            BY <6>1 DEF Gone, Exists, Up
          <6> QED
            BY <5>1, <6>1, <6>2, <2>1 DEF Exists
        <5> QED
          BY <5>2, <5>3
      <4> QED
        BY <3>1, <3>2, <4>1, <4>2, <1>5, PackStays
    <3>3. CASE q = p
      BY <3>3, <1>7 DEF PackFine
    <3> QED
      BY <3>2, <3>3
  <2> QED
    BY <2>2, <2>3, <1>2, <1>11, <1>13, <1>14 DEF AllFine
<1> QED
  BY <1>15, <1>16
-----------------------------------------------------------------------------
(***************************************************************************)
(* Terminals that start a chain, and what they find of earlier ones.       *)
(***************************************************************************)
(* No chain takes a step, and at most one who is not of a chain packs.     *)
LEMMA QuietFine ==
    ASSUME AllFine, TypeOK', UNCHANGED <<dir, main, at, helper>>, MadeOnce', StopFine',
           \A d \in Chains : (Making(d)' => Making(d)) /\ (Owed(d) /\ dir[d].archive = NoArchive => Owed(d)'),
           NEW p \in Packers, p[1] # "chain", PackFine(p)',
           \A q \in Packers \ {p} : pack'[q] = pack[q]
    PROVE  AllFine'
<1>1. ASSUME NEW d \in Chains PROVE Fine(d)'
  <2>1. <<"chain", d>> \in Packers /\ <<"chain", d>> # p
    BY PackersAre
  <2>2. Packing(<<"chain", d>>) => Packing(<<"chain", d>>)'
    BY <2>1 DEF Packing
  <2>3. Fine(d)
    BY DEF AllFine
  <2> QED
    BY <2>2, <2>3, FineStays
<1>2. ASSUME NEW q \in Packers \ {p} PROVE PackFine(q)'
  <2>1. PackFine(q)
    BY DEF AllFine
  <2>2. PICK e : e = pack[q].of
    OBVIOUS
  <2>3. Packing(q) => /\ Exists(e)' /\ dir'[e].steps = dir[e].steps /\ dir'[e].line = dir[e].line
                      /\ IF q[1] = "chain" THEN main'[q[2]] = "packing" ELSE Gone(e)'
    <3>1. Exists(e) => Exists(e)'
      BY DEF Exists
    <3>2. e \in Chains /\ Gone(e) => Gone(e)'
      BY DEF Gone, Exists, Up
    <3> QED
      BY <2>1, <2>2, <3>1, <3>2 DEF PackFine
  <2> QED
    BY <2>1, <2>2, <2>3, PackStays
<1> QED
  BY <1>1, <1>2 DEF AllFine

(* Whoever starts, or gives up, with nobody's packing touched. *)
LEMMA StartsFine ==
    ASSUME AllFine, TypeOK', UNCHANGED <<dir, main, at, helper, pack, stop>>, MadeOnce',
           \A d \in Chains : Making(d)' => Making(d)
    PROVE  AllFine'
<1> DEFINE p == <<"stop", 0>>
<1>1. p \in Packers /\ p[1] # "chain" /\ PackFine(p)
  BY PackersAre DEF AllFine
<1>2. \A d \in Chains : Owed(d) => Owed(d)'
  BY DEF Owed, Packing
<1>3. PICK e : e = pack[p].of
  OBVIOUS
<1>4. PackFine(p)'
  <2>1. e \in Chains /\ Gone(e) => Gone(e)'
    BY DEF Gone, Exists, Up
  <2>2. Packing(p) => Exists(e)' /\ Gone(e)'
    BY <1>1, <1>3, <2>1 DEF PackFine, Exists
  <2> HIDE DEF p
  <2> QED
    BY <1>1, <1>3, <2>2, PackStays
<1>5. StopFine'
  BY DEF AllFine, StopFine, Packing
<1> QED
  BY <1>1, <1>2, <1>4, <1>5, QuietFine

(* Undisturbed, what a start takes for dead is. *)
LEMMA DeadIs ==
    ASSUME AllFine, NEW c \in Chains, Exists(c), ~Alive(c), ~Starting(c)
    PROVE  Gone(c)
<1>1. Fine(c) /\ ~Making(c) /\ main[c] # "boot"
  BY DEF AllFine, Starting, Making
<1>2. CASE dir[c].sid
  BY <1>1, <1>2 DEF Alive, Gone
<1>3. CASE ~dir[c].sid
  BY <1>1, <1>3 DEF Fine, Born, Gone, Up
<1> QED
  BY <1>2, <1>3

LEMMA BeginsPacking ==
    ASSUME AllFine, NEW p \in Packers, p[1] # "chain", ~Packing(p), NEW c \in Chains, Gone(c), Gone(c)',
           NEW status \in {"interrupted", "stopped"}, Began(p, c, status), UNCHANGED dir
    PROVE  /\ PackFine(p)' /\ (Packing(p))' /\ pack'[p].of = c /\ \A q \in Packers \ {p} : pack'[q] = pack[q]
           /\ \A q \in Packers : Packing(q) => Packing(q)' /\ pack'[q].of = pack[q].of
<1>1. pack'[p] = [at |-> "status", of |-> c, as |-> status, n |-> NoArchive] /\ \A q \in Packers \ {p} : pack'[q] = pack[q]
  BY DEF Began, AllFine, TypeOK
<1>2. pack'[p].at = "status" /\ pack'[p].of = c /\ pack'[p].as = status
  BY <1>1
<1>3. (Tells(pack[p].as, dir[pack[p].of].steps, dir[pack[p].of].line))'
  BY <1>2 DEF Tells
<1>4. Exists(pack[p].of)' /\ Gone(pack[p].of)'
  BY <1>2 DEF Gone, Exists, Up, Making
<1>5. PackFine(p)' /\ Packing(p)'
  BY <1>2, <1>3, <1>4 DEF PackFine, Packing, Final
<1> QED
  BY <1>1, <1>2, <1>5 DEF Packing

LEMMA RecoverOneFine ==
    ASSUME Disturbed = FALSE, AllFine, NEW s \in Starters, RecoverOne(s)
    PROVE  AllFine'
<1> DEFINE p == <<"start", s>>
<1>1. TypeOK /\ StartStep(s) /\ p \in Packers /\ p[1] = "start" /\ start \in [Starters -> [pc : {"idle", "recover", "making", "made"}, todo : SUBSET Chains, of : Int]]
  BY PackersAre DEF AllFine, StartStep, TypeOK
<1>2. TypeOK'
  BY <1>1, StartTypes
<1>3. PICK c \in start[s].todo :
        /\ ~Starting(c)
        /\ start' = [start EXCEPT ![s].todo = @ \ {c}]
        /\ IF dir[c].status \in Open /\ ~Alive(c)
             THEN Began(<<"start", s>>, c, "interrupted")
             ELSE UNCHANGED pack
  BY DEF RecoverOne
<1>4. c \in Chains
  BY <1>1
<1>5. \A t \in Starters : start'[t].pc = start[t].pc /\ start'[t].of = start[t].of
  BY <1>1, <1>3
<1>6. MadeOnce' /\ \A d : (Making(d))' <=> Making(d)
  BY <1>5 DEF AllFine, MadeOnce, Making
<1>7. ~Packing(p) /\ UNCHANGED <<dir, main, at, helper, stop>>
  BY DEF RecoverOne
<1>8. CASE UNCHANGED pack
  BY <1>2, <1>6, <1>7, <1>8, StartsFine
<1>9. CASE dir[c].status \in Open /\ ~Alive(c) /\ Began(p, c, "interrupted")
  <2>1. Exists(c)
    BY <1>9 DEF Exists, Open
  <2>2. Gone(c)
    BY <2>1, <1>3, <1>4, <1>9, DeadIs
  <2>3. Gone(c)'
    BY <2>2, <1>6, <1>7 DEF Gone, Exists, Up
  <2> HIDE DEF p
  <2>4. /\ PackFine(p)' /\ \A q \in Packers \ {p} : pack'[q] = pack[q]
        /\ \A q \in Packers : Packing(q) => Packing(q)' /\ pack'[q].of = pack[q].of
    BY <2>2, <2>3, <1>1, <1>4, <1>7, <1>9, BeginsPacking
  <2>5. \A d \in Chains : Owed(d) => Owed(d)'
    BY <2>4, <1>7 DEF Owed
  <2>6. StopFine'
    <3>1. <<"stop", 0>> # p /\ <<"stop", 0>> \in Packers
      BY PackersAre DEF p
    <3> QED
      BY <3>1, <2>4, <1>7 DEF AllFine, StopFine, Packing
  <2> QED
    BY <2>4, <2>5, <2>6, <1>1, <1>2, <1>6, <1>7, QuietFine
<1> QED
  BY <1>3, <1>8, <1>9

LEMMA StartBeginFine ==
    ASSUME Disturbed = FALSE, AllFine, NEW s \in Starters, StartBegin(s) \/ Clean(s) \/ GiveUp(s)
    PROVE  AllFine'
<1>1. TypeOK /\ StartStep(s) /\ start \in [Starters -> [pc : {"idle", "recover", "making", "made"}, todo : SUBSET Chains, of : Int]]
  BY DEF AllFine, StartStep, TypeOK
<1>2. TypeOK'
  BY <1>1, StartTypes
<1>3. \A t \in Starters : start'[t].pc = "made" => start[t].pc = "made" /\ start'[t].of = start[t].of
  BY <1>1 DEF StartBegin, Clean, GiveUp
<1>4. MadeOnce' /\ \A d \in Chains : Making(d)' => Making(d)
  BY <1>3 DEF AllFine, MadeOnce, Making
<1>5. pack' = pack
  <2>1. CASE Clean(s)
    <3>1. pack \in [Packers -> PackState] /\ \A q \in Packers : pack[q].at # "name"
      BY <1>1, <2>1 DEF Clean, TypeOK
    <3> QED
      BY <3>1, <2>1 DEF Clean
  <2> QED
    BY <2>1 DEF StartBegin, GiveUp
<1> QED
  BY <1>2, <1>4, <1>5, StartsFine DEF StartBegin, Clean, GiveUp

LEMMA MakeDirFine ==
    ASSUME AllFine, NEW s \in Starters, MakeDir(s)
    PROVE  AllFine'
<1>1. TypeOK /\ StartStep(s) /\ start \in [Starters -> [pc : {"idle", "recover", "making", "made"}, todo : SUBSET Chains, of : Int]]
  BY DEF AllFine, StartStep, TypeOK
<1>2. TypeOK'
  BY <1>1, StartTypes
<1>3. PICK c \in Chains, line \in Lines :
          /\ ~Exists(c)
          /\ dir' = [dir EXCEPT ![c] = [NoDir EXCEPT !.status = "running", !.line = line]]
          /\ start' = [start EXCEPT ![s].pc = "made", ![s].of = c]
  BY DEF MakeDir
<1>4. start[s].pc = "making" /\ UNCHANGED <<main, at, helper, lockers, pack, stop, crashes>>
  BY DEF MakeDir
<1>5. Fine(c) /\ main[c] = "none" /\ ~Making(c) /\ helper[c] = "none" /\ ~Gone(c)
  <2>1. Fine(c)
    BY DEF AllFine
  <2>2. Born(c) /\ dir[c] = NoDir
    BY <2>1, <1>3 DEF Fine, Born
  <2>3. ~dir[c].sid /\ dir[c].status = "absent"
    BY <2>2 DEF NoDir
  <2> QED
    BY <2>1, <2>2, <2>3, <1>3 DEF Born, Open, Gone
<1>6. /\ \A d \in Chains \ {c} : dir'[d] = dir[d]
      /\ dir'[c].status = "running" /\ ~dir'[c].sid /\ dir'[c].steps = <<>> /\ dir'[c].archive = NoArchive
      /\ dir'[c].line = line
  <2>1. dir'[c] = [NoDir EXCEPT !.status = "running", !.line = line] /\ \A d \in Chains \ {c} : dir'[d] = dir[d]
    BY <1>1, <1>3 DEF TypeOK
  <2> QED
    BY <2>1 DEF NoDir
<1>7. /\ start'[s].pc = "made" /\ start'[s].of = c
      /\ \A t \in Starters \ {s} : start'[t] = start[t]
  BY <1>1, <1>3
<1>8. MadeOnce'
  <2>1. ASSUME NEW t \in Starters \ {s}, start[t].pc = "made" PROVE start[t].of \in Chains \ {c}
    BY <2>1, <1>5 DEF AllFine, MadeOnce, Making
  <2> QED
    BY <2>1, <1>7 DEF AllFine, MadeOnce
<1>9. Apart(c)
  <2>1. ASSUME NEW d \in Chains \ {c} PROVE Making(d)' => Making(d)
    BY <1>7 DEF Making
  <2> QED
    BY <2>1, <1>4, <1>6 DEF Apart
<1>10. line # <<>>
  BY ChainAssumption
<1>11. Fine(c)'
  <2>1. Exists(c)' /\ dir'[c].status \in Open
    BY <1>6 DEF Exists, Open
  <2>2. Born(c)'
    BY <2>1, <1>4, <1>5, <1>6 DEF Born
  <2>3. Sealed(c)' /\ Owing(c)' /\ Moving(c)'
    BY <2>1, <1>4, <1>5, <1>6 DEF Sealed, Owing, Moving, Up
  <2>4. InLine(c)'
    BY <1>4, <1>5, <1>6, <1>10 DEF InLine
  <2>5. Tells(dir[c].status, dir[c].steps, dir[c].line)'
    BY <2>1 DEF Tells, Open
  <2> QED
    BY <2>2, <2>3, <2>4, <2>5 DEF Fine
<1>12. PackFine(<<"chain", c>>)'
  <2>1. PackFine(<<"chain", c>>) /\ ~Packing(<<"chain", c>>)
    BY <1>5, PackersAre DEF AllFine, PackFine
  <2> QED
    BY <2>1, <1>4 DEF PackFine, Packing
<1>13. StopFine'
  <2>1. ASSUME NEW d \in Chains, dir[d].sid PROVE dir'[d].sid
    <3>1. d # c
      BY <2>1, <1>3 DEF AllFine, Fine, Born, NoDir
    <3> QED
      BY <2>1, <3>1, <1>6
  <2> QED
    BY <2>1, <1>4 DEF AllFine, StopFine, Packing
<1> QED
  BY <1>2, <1>5, <1>8, <1>9, <1>11, <1>12, <1>13, StepOf

LEMMA DetachFine ==
    ASSUME AllFine, NEW s \in Starters, Detach(s)
    PROVE  AllFine'
<1>1. TypeOK /\ StartStep(s) /\ start \in [Starters -> [pc : {"idle", "recover", "making", "made"}, todo : SUBSET Chains, of : Int]]
  BY DEF AllFine, StartStep, TypeOK
<1>2. TypeOK'
  BY <1>1, StartTypes
<1>3. PICK c \in Chains : c = start[s].of /\ Making(c)
  BY DEF AllFine, MadeOnce, Making, Detach
<1>4. Fine(c) /\ main[c] = "none" /\ Exists(c) /\ dir[c].status \in Open /\ ~dir[c].sid /\ helper[c] = "none" /\ ~Gone(c)
      /\ dir[c].archive = NoArchive /\ dir[c].steps = <<>> /\ dir[c].line # <<>> /\ dir[c] \in Dir
  <2>1. Fine(c) /\ dir[c] \in Dir
    BY <1>1 DEF AllFine, TypeOK
  <2>2. main[c] = "none" /\ dir[c].status \in Open /\ ~dir[c].sid
    BY <2>1, <1>3 DEF Fine, Born
  <2>3. Exists(c) /\ helper[c] = "none" /\ ~Gone(c)
    BY <2>1, <2>2, <1>3 DEF Fine, Born, Exists, Open, Gone
  <2> QED
    BY <2>1, <2>2, <2>3, <1>3 DEF Fine, Sealed, InLine
<1>5. /\ UNCHANGED <<dir, helper, pack, stop>>
      /\ \A d \in Chains \ {c} : main'[d] = main[d] /\ at'[d] = at[d]
      /\ main'[c] = "boot" /\ at'[c] = 1
      /\ start'[s].pc = "idle" /\ \A t \in Starters \ {s} : start'[t] = start[t]
  BY <1>1, <1>3 DEF Detach, TypeOK
<1>6. MadeOnce'
  BY <1>5 DEF AllFine, MadeOnce
<1>7. /\ \A d \in Chains : Making(d)' => Making(d)
      /\ ~(Making(c)')
  <2>1. \A t \in Starters : start'[t].pc = "made" => start[t].pc = "made" /\ start'[t].of = start[t].of /\ t # s
    BY <1>5
  <2>2. start[s].pc = "made"
    BY DEF Detach
  <2> QED
    BY <2>1, <2>2, <1>3 DEF Making, AllFine, MadeOnce
<1>8. Apart(c)
  BY <1>5, <1>7 DEF Apart
<1>9. Fine(c)'
  <2>1. Born(c)'
    BY <1>4, <1>5, <1>7 DEF Born, Exists
  <2>2. Sealed(c)' /\ Owing(c)' /\ Moving(c)'
    BY <1>4, <1>5 DEF Sealed, Owing, Moving
  <2>3. InLine(c)'
    <3>1. Len(dir[c].line) \in Nat \ {0} /\ Len(dir[c].steps) = 0
      BY <1>4, EmptySeq, LenProperties DEF Dir
    <3>2. 1 \in 1 .. Len(dir[c].line) /\ Len(dir[c].steps) = 1 - 1 /\ \A i \in 1 .. Len(dir[c].steps) : FALSE
      BY <3>1
    <3> QED
      BY <3>2, <1>4, <1>5 DEF InLine
  <2>4. Tells(dir[c].status, dir[c].steps, dir[c].line)'
    BY <1>4, <1>5 DEF Tells, Open
  <2> QED
    BY <2>1, <2>2, <2>3, <2>4 DEF Fine
<1>10. PackFine(<<"chain", c>>)'
  <2>1. PackFine(<<"chain", c>>) /\ ~Packing(<<"chain", c>>)
    BY <1>4, PackersAre DEF AllFine, PackFine
  <2> QED
    BY <2>1, <1>5 DEF PackFine, Packing
<1>11. StopFine'
  BY <1>5 DEF AllFine, StopFine, Packing
<1> QED
  BY <1>2, <1>4, <1>6, <1>8, <1>9, <1>10, <1>11, StepOf
-----------------------------------------------------------------------------
(***************************************************************************)
(* The stop command.                                                       *)
(***************************************************************************)
LEMMA StopBeginFine ==
    ASSUME AllFine, StopBegin
    PROVE  AllFine'
<1> DEFINE p == <<"stop", 0>>
<1>1. TypeOK'
  BY StopTypes DEF AllFine
<1>2. Newest \in Chains /\ stop.pc = "idle"
  BY NewestIs DEF StopBegin
<1>3. stop'.pc = "mark" /\ stop'.of = Newest /\ dir[Newest].sid /\ UNCHANGED <<dir, main, at, helper, pack, start>>
  BY DEF StopBegin, Alive
<1>4. p \in Packers /\ p[1] # "chain" /\ ~Packing(p) /\ \A q \in Packers \ {p} : pack'[q] = pack[q]
  BY <1>2, <1>3, PackersAre DEF AllFine, StopFine
<1>5. MadeOnce' /\ \A d \in Chains : (Making(d)' => Making(d)) /\ (Owed(d) => Owed(d)')
  BY <1>2, <1>3 DEF AllFine, MadeOnce, Making, Owed, Packing
<1>6. PackFine(p)'
  <2> HIDE DEF p
  <2> QED
    BY <1>3, <1>4 DEF PackFine, Packing
<1>7. StopFine'
  BY <1>2, <1>3, <1>4 DEF StopFine, Packing
<1> QED
  BY <1>1, <1>3, <1>4, <1>5, <1>6, <1>7, QuietFine

LEMMA StopMarkFine ==
    ASSUME AllFine, StopMark
    PROVE  AllFine'
<1>1. TypeOK' /\ TypeOK
  BY StopTypes DEF AllFine, StopGoesOn
<1>2. PICK c \in Chains : c = stop.of /\ dir[c].sid
  BY DEF StopMark, AllFine, StopFine
<1>3. /\ UNCHANGED <<main, at, helper, pack, start>> /\ stop'.of = stop.of /\ stop.pc = "mark" /\ stop'.pc = "term"
      /\ \A d \in Chains \ {c} : dir'[d] = dir[d]
      /\ dir'[c] = [dir[c] EXCEPT !.status = "stopping"]
  BY <1>1, <1>2 DEF StopMark, TypeOK
<1>4. /\ dir'[c].status = "stopping" /\ dir'[c].sid /\ dir'[c].steps = dir[c].steps
      /\ dir'[c].archive = dir[c].archive /\ dir'[c].line = dir[c].line
  <2>1. dir[c] \in Dir
    BY <1>1 DEF TypeOK
  <2> QED
    BY <2>1, <1>2, <1>3 DEF Dir
<1>5. \A d \in Chains : (Making(d)' <=> Making(d)) /\ (Owed(d) => Owed(d)') /\ (Packing(<<"chain", d>>)' <=> Packing(<<"chain", d>>))
  BY <1>3 DEF Making, Owed, Packing
<1>6. Fine(c) /\ Exists(c) /\ Exists(c)'
  BY <1>2, <1>4 DEF AllFine, Fine, Born, NoDir, Exists
<1>7. ASSUME NEW d \in Chains PROVE Fine(d)'
  <2>1. CASE d # c
    <3>1. Fine(d)
      BY DEF AllFine
    <3> QED
      BY <2>1, <3>1, <1>3, <1>5, FineStays
  <2>2. CASE d = c
    <3>0. dir'[c].status \in Open
      BY <1>4 DEF Open
    <3>1. Born(c)'
      BY <3>0, <1>2, <1>3, <1>4, <1>5, <1>6 DEF Fine, Born
    <3>2. Sealed(c)'
      BY <1>3, <1>4, <1>5, <1>6 DEF Fine, Sealed, Archived, Up
    <3>3. Owing(c)' /\ Moving(c)'
      BY <3>0, <1>3, <1>5, <1>6 DEF Fine, Owing, Moving, Up
    <3>4. InLine(c)'
      <4>1. InLine(c)
        BY <1>6 DEF Fine
      <4>2. main'[c] = main[c] /\ at'[c] = at[c] /\ dir'[c].steps = dir[c].steps /\ dir'[c].line = dir[c].line
        BY <1>3, <1>4
      <4> QED
        BY ONLY <4>1, <4>2, <1>6 DEF InLine, Last
    <3>5. Tells(dir[c].status, dir[c].steps, dir[c].line)'
      BY <1>4 DEF Tells
    <3> QED
      BY <2>2, <3>1, <3>2, <3>3, <3>4, <3>5 DEF Fine
  <2> QED
    BY <2>1, <2>2
<1>8. \A d \in Chains : /\ dir'[d].steps = dir[d].steps /\ dir'[d].line = dir[d].line
                        /\ Exists(d) => Exists(d)'
                        /\ Gone(d) => Gone(d)'
                        /\ dir[d].sid => dir'[d].sid
  BY <1>3, <1>4, <1>5, <1>6 DEF Exists, Gone, Up
<1>9. ASSUME NEW q \in Packers PROVE PackFine(q)'
  <2>1. PackFine(q)
    BY DEF AllFine
  <2>2. PICK e : e = pack[q].of
    OBVIOUS
  <2>3. Packing(q) => /\ Exists(e)' /\ dir'[e].steps = dir[e].steps /\ dir'[e].line = dir[e].line
                      /\ IF q[1] = "chain" THEN main'[q[2]] = "packing" ELSE Gone(e)'
    BY <2>1, <2>2, <1>3, <1>8 DEF PackFine
  <2> QED
    BY <2>1, <2>2, <2>3, <1>3, PackStays
<1>10. MadeOnce' /\ StopFine'
  BY <1>2, <1>3, <1>8 DEF AllFine, MadeOnce, StopFine, Packing
<1> QED
  BY <1>1, <1>7, <1>9, <1>10 DEF AllFine

LEMMA SignalFine ==
    ASSUME AllFine, TypeOK', NEW c \in Chains, c = stop.of, Alive(c), stop.pc \in {"term", "wait"},
           NEW next \in {"failed", "then", "over"},
           next = "failed" => main[c] = "work", next = "then" => main[c] = "then",
           Signalled(c, next), UNCHANGED <<dir, at, start>>, stop'.pc = "wait", stop'.of = c
    PROVE  AllFine'
<1>1. TypeOK /\ Fine(c) /\ dir[c].sid /\ ~Gone(c)
  BY DEF AllFine, Alive, Gone
<1>2. /\ \A d \in Chains \ {c} : dir'[d] = dir[d] /\ main'[d] = main[d] /\ at'[d] = at[d] /\ helper'[d] = helper[d]
      /\ main'[c] = IF Up(c) THEN next ELSE main[c]
      /\ helper'[c] = IF helper[c] = "copying" THEN "over" ELSE helper[c]
      /\ \A q \in Packers \ {<<"chain", c>>} : pack'[q] = pack[q]
      /\ ~(Packing(<<"chain", c>>)')
  BY <1>1, PackersAre DEF Signalled, TypeOK, Packing, NotPacking
<1>3. \A d \in Chains : Making(d)' <=> Making(d)
  BY DEF Making
<1>4. Apart(c)
  BY <1>2, <1>3 DEF Apart
<1>5. Fine(c)'
  <2>1. Exists(c) /\ Exists(c)' /\ (Up(c)' => Up(c))
    BY <1>1, <1>2 DEF Fine, Born, NoDir, Exists, Up
  <2>2. Born(c)'
    BY <2>1, <1>1, <1>2, <1>3 DEF Fine, Born, Up
  <2>3. Sealed(c)'
    BY <2>1, <1>1, <1>3 DEF Fine, Sealed, Archived
  <2>4. Owing(c)'
    BY DEF Owing, Owed
  <2>5. Moving(c)'
    BY <1>1, <1>2 DEF Fine, Moving, Up
  <2>6. InLine(c)'
    <3>1. InLine(c)
      BY <1>1 DEF Fine
    <3>2. CASE next = "over" \/ ~Up(c)
      BY <3>1, <3>2, <2>1, <1>1, <1>2 DEF InLine, Up
    <3>3. CASE next = "then" /\ Up(c)
      <4>1. main'[c] = main[c]
        BY <3>3, <1>2
      <4> QED
        BY <4>1, <3>1, <2>1 DEF InLine, Last
    <3>4. CASE next = "failed" /\ Up(c)
      <4>1. main[c] = "work" /\ main'[c] = "failed"
        BY <3>4, <1>2
      <4> QED
        BY <4>1, <3>1, <2>1 DEF InLine
    <3> QED
      BY <3>2, <3>3, <3>4
  <2>7. Tells(dir[c].status, dir[c].steps, dir[c].line)'
    BY <1>1 DEF Fine
  <2> QED
    BY <2>2, <2>3, <2>4, <2>5, <2>6, <2>7 DEF Fine
<1>6. PackFine(<<"chain", c>>)'
  BY <1>2 DEF PackFine
<1>7. MadeOnce'
  BY DEF AllFine, MadeOnce
<1>8. StopFine'
  <2>1. pack'[<<"stop", 0>>] = pack[<<"stop", 0>>] /\ ~Packing(<<"stop", 0>>)
    BY <1>2, PackersAre DEF AllFine, StopFine
  <2> QED
    BY <2>1, <1>1 DEF StopFine, Packing
<1> QED
  BY <1>1, <1>4, <1>5, <1>6, <1>7, <1>8, StepOf

LEMMA TermFine ==
    ASSUME AllFine, Term \/ Kill
    PROVE  AllFine'
<1>1. TypeOK /\ TypeOK'
  BY StopTypes DEF AllFine, StopGoesOn
<1>2. PICK c \in Chains : c = stop.of
  BY DEF Term, Kill, AllFine, StopFine
<1>3. /\ Alive(c) /\ stop.pc \in {"term", "wait"} /\ UNCHANGED <<dir, at, start>> /\ stop'.pc = "wait" /\ stop'.of = c
  BY <1>1, <1>2 DEF Term, Kill, TypeOK
<1>4. PICK next \in {"failed", "then", "over"} :
         /\ next = "failed" => main[c] = "work"
         /\ next = "then" => main[c] = "then"
         /\ Signalled(c, next)
  <2>1. CASE Term
    BY <2>1, <1>2 DEF Term
  <2>2. CASE Kill
    BY <2>2, <1>2 DEF Kill
  <2> QED
    BY <2>1, <2>2
<1> QED
  BY <1>1, <1>2, <1>3, <1>4, SignalFine

(* What the stop command finds ended has. *)
LEMMA EndedIs ==
    ASSUME AllFine, NEW c \in Chains, dir[c].sid, ~Alive(c)
    PROVE  Gone(c)
<1>1. Fine(c)
  BY DEF AllFine
<1>2. Exists(c) /\ ~Making(c)
  BY <1>1 DEF Fine, Born, NoDir
<1> QED
  BY <1>2 DEF Alive, Gone

LEMMA StopCheckFine ==
    ASSUME AllFine, StopCheck
    PROVE  AllFine'
<1> DEFINE p == <<"stop", 0>>
<1>1. TypeOK' /\ TypeOK
  BY StopTypes DEF AllFine, StopGoesOn
<1>2. PICK c \in Chains : c = stop.of /\ dir[c].sid
  BY DEF StopCheck, AllFine, StopFine
<1>3. ~Alive(c) /\ stop.pc \in {"term", "wait"} /\ UNCHANGED <<dir, main, at, helper, start>>
  BY <1>2 DEF StopCheck
<1>4. Gone(c)
  BY <1>2, <1>3, EndedIs
<1>5. MadeOnce' /\ \A d \in Chains : Making(d)' <=> Making(d)
  BY <1>3 DEF AllFine, MadeOnce, Making
<1>6. Gone(c)'
  BY <1>3, <1>4, <1>5 DEF Gone, Exists, Up
<1>7. p \in Packers /\ p[1] # "chain" /\ ~Packing(p)
  BY <1>3, PackersAre DEF AllFine, StopFine
<1>8. CASE Began(p, c, "stopped") /\ stop'.pc = "packing" /\ stop'.of = c
  <2> HIDE DEF p
  <2>1. /\ PackFine(p)' /\ Packing(p)' /\ pack'[p].of = c /\ \A q \in Packers \ {p} : pack'[q] = pack[q]
        /\ \A q \in Packers : Packing(q) => Packing(q)' /\ pack'[q].of = pack[q].of
    BY <1>3, <1>4, <1>6, <1>7, <1>8, BeginsPacking
  <2>2. \A d \in Chains : Owed(d) => Owed(d)'
    BY <2>1, <1>2, <1>7 DEF Owed
  <2>3. StopFine'
    BY <2>1, <1>2, <1>3, <1>8 DEF StopFine, p
  <2> QED
    BY <2>1, <2>2, <2>3, <1>1, <1>3, <1>5, <1>7, QuietFine
<1>9. CASE dir[c].archive # NoArchive /\ stop'.pc = "idle" /\ stop'.of = 0 /\ UNCHANGED pack
  <2>1. \A d \in Chains : Owed(d) /\ dir[d].archive = NoArchive => Owed(d)'
    BY <1>2, <1>9 DEF Owed, Packing
  <2>2. StopFine'
    BY <1>7, <1>9 DEF StopFine, Packing
  <2>3. PackFine(p)' /\ \A q \in Packers \ {p} : pack'[q] = pack[q]
    <3> HIDE DEF p
    <3> QED
      BY <1>7, <1>9 DEF PackFine, Packing
  <2> QED
    BY <2>1, <2>2, <2>3, <1>1, <1>3, <1>5, <1>7, QuietFine
<1>10. \/ Began(p, c, "stopped") /\ stop'.pc = "packing" /\ stop'.of = c
       \/ dir[c].archive # NoArchive /\ stop'.pc = "idle" /\ stop'.of = 0 /\ UNCHANGED pack
  BY <1>1, <1>2 DEF StopCheck, TypeOK
<1> QED
  BY <1>8, <1>9, <1>10

LEMMA CutFine ==
    ASSUME Disturbed = FALSE, AllFine, PowerCut
    PROVE  AllFine'
<1>1. TypeOK' /\ TypeOK
  BY CutTypes DEF AllFine
<1>2. /\ UNCHANGED <<dir, at>> /\ stop'.pc = "idle" /\ stop'.of = 0
      /\ \A p \in Packers : ~Packing(p) /\ ~(Packing(p)')
      /\ \A s \in Starters : start'[s].pc = "idle"
      /\ \A c \in Chains : /\ main'[c] = IF Up(c) THEN "over" ELSE main[c]
                           /\ helper'[c] = IF helper[c] = "copying" THEN "over" ELSE helper[c]
      /\ stop.pc = "wait" => dir[stop.of].status = "stopping"
  BY DEF PowerCut, Packing, NotPacking
<1>3. \A c \in Chains : ~(Making(c)')
  BY <1>2 DEF Making
<1>4. ASSUME NEW c \in Chains PROVE Fine(c)'
  <2>1. Fine(c) /\ ~(Up(c)') /\ (Exists(c)' <=> Exists(c))
    BY <1>2 DEF AllFine, Up, Exists
  <2>2. Born(c)'
    BY <2>1, <1>2, <1>3 DEF Fine, Born, Up
  <2>3. Sealed(c)' /\ Moving(c)'
    BY <2>1, <1>2, <1>3 DEF Fine, Sealed, Archived, Moving, Up
  <2>4. Owing(c)'
    BY <2>1, <1>2 DEF Fine, Owing, Owed, Open
  <2>5. InLine(c)'
    <3>1. InLine(c)
      BY <2>1 DEF Fine
    <3>2. main'[c] \notin {"boot", "lock", "work", "failed", "then"} /\ (main'[c] = "none" => main[c] = "none")
      BY <2>1, <1>2 DEF Up
    <3> QED
      BY <3>1, <3>2, <2>1, <1>2 DEF InLine
  <2>6. Tells(dir[c].status, dir[c].steps, dir[c].line)'
    BY <2>1, <1>2 DEF Fine
  <2> QED
    BY <2>2, <2>3, <2>4, <2>5, <2>6 DEF Fine
<1>5. \A p \in Packers : PackFine(p)'
  BY <1>2 DEF PackFine
<1>6. MadeOnce' /\ StopFine'
  BY <1>2, PackersAre DEF MadeOnce, StopFine
<1> QED
  BY <1>1, <1>4, <1>5, <1>6 DEF AllFine
-----------------------------------------------------------------------------
LEMMA FineAtFirst ==
    ASSUME Init
    PROVE  AllFine
<1>1. dir = [c \in Chains |-> NoDir] /\ \A c \in Chains : ~Exists(c) /\ ~Up(c) /\ ~Making(c)
  BY DEF Init, Exists, NoDir, Up, Making
<1>2. NoDir \in Dir
  BY EmptySeq DEF NoDir, NoArchive, Dir
<1>3. NotPacking \in PackState
  BY DEF NotPacking, NoArchive, PackState
<1>4. TypeOK
  BY <1>1, <1>2, <1>3 DEF Init, TypeOK
<1>5. \A p \in Packers : ~Packing(p)
  BY DEF Init, Packing, NotPacking
<1>6. ASSUME NEW c \in Chains PROVE Fine(c)
  <2>1. /\ dir[c] = NoDir /\ dir[c].status = "absent" /\ ~dir[c].sid /\ dir[c].steps = <<>> /\ dir[c].archive = NoArchive
        /\ main[c] = "none" /\ helper[c] = "none"
    BY DEF Init, NoDir
  <2>2. Born(c) /\ Sealed(c) /\ Owing(c) /\ Moving(c) /\ InLine(c)
    BY <2>1, <1>1 DEF Born, Sealed, Owing, Moving, InLine
  <2>3. Tells(dir[c].status, dir[c].steps, dir[c].line)
    BY <2>1 DEF Tells
  <2> QED
    BY <2>2, <2>3 DEF Fine
<1>7. \A p \in Packers : PackFine(p)
  BY <1>5 DEF PackFine
<1>8. MadeOnce /\ StopFine
  BY <1>5, PackersAre DEF Init, MadeOnce, StopFine
<1> QED
  BY <1>4, <1>6, <1>7, <1>8 DEF AllFine

LEMMA FineUnchanged ==
    ASSUME AllFine, UNCHANGED vars
    PROVE  AllFine'
<1>1. UNCHANGED <<dir, main, at, helper, pack, start, stop>>
  BY DEF vars
<1>2. TypeOK' /\ MadeOnce' /\ \A d \in Chains : Making(d)' => Making(d)
  BY <1>1 DEF AllFine, TypeOK, MadeOnce, Making
<1> QED
  BY <1>1, <1>2, StartsFine

LEMMA FineInductive ==
    ASSUME Disturbed = FALSE, AllFine, [Next]_vars
    PROVE  AllFine'
<1>1. ASSUME NEW p \in Packers, Pack(p) PROVE AllFine'
  BY <1>1, WriteStatusFine, TarFine, NameFine DEF Pack
<1>2. ASSUME NEW s \in Starters, StartStep(s) PROVE AllFine'
  BY <1>2, StartBeginFine, RecoverOneFine, MakeDirFine, DetachFine DEF StartStep
<1>3. ASSUME NEW c \in Chains, ChainStep(c) PROVE AllFine'
  BY <1>3, BootFine, LockFine, LaunchedFine, WorkOkFine, FailedFine, ThenFine DEF ChainStep
<1>4. CASE StopBegin \/ StopGoesOn
  BY <1>4, StopBeginFine, StopMarkFine, TermFine, StopCheckFine DEF StopGoesOn
<1>5. CASE PowerCut
  BY <1>5, CutFine
<1>6. CASE UNCHANGED vars
  BY <1>6, FineUnchanged
<1> QED
  BY <1>1, <1>2, <1>3, <1>4, <1>5, <1>6 DEF Next

LEMMA FineAlways ==
    ASSUME Disturbed = FALSE
    PROVE  Spec => []AllFine
<1>1. Init => AllFine
  BY FineAtFirst
<1>2. AllFine /\ [Next]_vars => AllFine'
  BY FineInductive
<1> QED
  BY <1>1, <1>2, PTL DEF Spec

(* With packing undisturbed, a chain that is over is archived with every   *)
(* record of its steps, or is marked for the next start to archive, or     *)
(* somebody is about to (NothingForgotten).                                *)
THEOREM NothingForgottenAlways ==
    ASSUME Disturbed = FALSE
    PROVE  Spec => []NothingForgotten
<1>1. ASSUME AllFine PROVE NothingForgotten
  <2> SUFFICES ASSUME NEW c \in Chains, Exists(c), ~Handled(c), dir[c].status \notin Open
               PROVE  Archived(c)
    BY DEF NothingForgotten
  <2>1. Sealed(c) /\ Owing(c)
    BY <1>1 DEF AllFine, Fine
  <2>2. ~Owed(c)
    BY DEF Handled, Owed
  <2> QED
    BY <2>1, <2>2 DEF Sealed, Owing
<1>2. AllFine => NothingForgotten
  BY <1>1
<1> QED
  BY <1>2, FineAlways, PTL

(* With packing undisturbed, a chain's status says what its steps say      *)
(* (StatusTellsSteps), whoever wrote it last.                              *)
THEOREM StatusTellsStepsAlways ==
    ASSUME Disturbed = FALSE
    PROVE  Spec => []StatusTellsSteps
<1>1. AllFine => StatusTellsSteps
  BY DEF AllFine, Fine, StatusTellsSteps
<1> QED
  BY <1>1, FineAlways, PTL

LEMMA CrashesCounted == Spec => [](crashes \in Int)
<1>1. Init => crashes \in Int
  BY DEF Init
<1>2. crashes \in Int /\ [Next]_vars => (crashes \in Int)'
  <2> SUFFICES ASSUME crashes \in Int, [Next]_vars PROVE crashes' \in Int
    OBVIOUS
  <2>1. ASSUME NEW p \in Packers, Pack(p) PROVE crashes' = crashes
    BY <2>1 DEF Pack, WriteStatus, Tar, Name, Packed
  <2>2. ASSUME NEW s \in Starters, StartStep(s) PROVE crashes' = crashes
    BY <2>2 DEF StartStep, StartBegin, RecoverOne, Clean, GiveUp, MakeDir, Detach
  <2>3. ASSUME NEW c \in Chains, ChainStep(c) PROVE crashes' = crashes
    BY <2>3 DEF ChainStep, Boot, Lock, Launch, Launched, WorkOk, WorkFails, Failed, Then
  <2>4. CASE StopBegin \/ StopGoesOn
    BY <2>4 DEF StopBegin, StopGoesOn, StopMark, Term, Kill, StopCheck
  <2>5. CASE PowerCut
    BY <2>5 DEF PowerCut
  <2>6. CASE UNCHANGED vars
    BY <2>6 DEF vars
  <2> QED
    BY <2>1, <2>2, <2>3, <2>4, <2>5, <2>6 DEF Next
<1> QED
  BY <1>1, <1>2, PTL DEF Spec

LEMMA StopComesBack ==
    ASSUME AllFine, AllFine', crashes \in Int, Next, NEW c \in Chains, Stopped(c)
    PROVE  ~(Alive(c)') /\ Archived(c)'
<1>1. stop.pc # "idle" /\ stop.of = c /\ stop'.pc = "idle" /\ crashes' = crashes /\ stop' # stop
  BY ChainsInt DEF Stopped, AllFine, StopFine
<1>2. ASSUME NEW p \in Packers, Pack(p) PROVE ~(Alive(c)') /\ Archived(c)'
  <2>1. Name(p) /\ p[1] = "stop" /\ p = <<"stop", 0>>
    BY <1>1, <1>2, PackersAre DEF Pack, WriteStatus, Tar, Name, Packed
  <2>2. Packing(p) /\ pack[p].of = c
    BY <1>1, <2>1 DEF Name, Packing, AllFine, StopFine
  <2>3. /\ Exists(c) /\ dir[c] \in Dir /\ pack[p].at # "removed" /\ Gone(c)
    BY <2>1, <2>2, PackerIs
  <2>4. pack[p].at = "name" /\ pack[p].n = Len(dir[c].steps) /\ Len(dir[c].steps) \in Nat
    BY <2>1, <2>2, <2>3, LenProperties DEF Name, AllFine, PackFine, Dir
  <2>5. dir'[c] = [dir[c] EXCEPT !.archive = pack[p].n]
    BY <2>1, <2>2, <2>4 DEF Name, AllFine, TypeOK
  <2>6. dir'[c].archive = Len(dir[c].steps) /\ dir'[c].steps = dir[c].steps
    BY <2>3, <2>4, <2>5 DEF Dir
  <2>7. main' = main /\ helper' = helper
    BY <2>1 DEF Name, Packed
  <2> QED
    BY <2>3, <2>6, <2>7 DEF Archived, Alive, Gone, Up
<1>3. CASE StopCheck
  <2>4. stop \in [pc : {"idle", "mark", "term", "wait", "packing"}, of : Int]
    BY DEF AllFine, TypeOK
  <2>3. [stop EXCEPT !.pc = "packing"].pc = "packing"
    BY <2>4
  <2>1. ~Alive(c) /\ dir[c].archive # NoArchive /\ UNCHANGED <<dir, main, helper>>
    BY <1>1, <1>3, <2>3 DEF StopCheck
  <2>2. Archived(c)
    BY <2>1 DEF AllFine, Fine, Sealed
  <2> QED
    BY <2>1, <2>2 DEF Alive, Up, Archived
<1>4. ASSUME NEW s \in Starters, StartStep(s) PROVE FALSE
  BY <1>1, <1>4 DEF StartStep, StartBegin, RecoverOne, Clean, GiveUp, MakeDir, Detach
<1>5. ASSUME NEW d \in Chains, ChainStep(d) PROVE FALSE
  BY <1>1, <1>5 DEF ChainStep, Boot, Lock, Launch, Launched, WorkOk, WorkFails, Failed, Then
<1>6. CASE StopBegin \/ StopMark \/ Term \/ Kill
  <2>1. stop \in [pc : {"idle", "mark", "term", "wait", "packing"}, of : Int]
    BY DEF AllFine, TypeOK
  <2>2. stop'.pc \in {"mark", "term", "wait"}
    BY <1>6, <2>1 DEF StopBegin, StopMark, Term, Kill
  <2> QED
    BY <1>1, <2>2
<1>7. CASE PowerCut
  BY <1>1, <1>7 DEF PowerCut
<1> QED
  BY <1>2, <1>3, <1>4, <1>5, <1>6, <1>7 DEF Next, StopGoesOn

(* With packing undisturbed, when the stop command comes back its chain is *)
(* dead and archived with every step's record (StopEnds).                  *)
THEOREM StopEndsAlways ==
    ASSUME Disturbed = FALSE
    PROVE  Spec => StopEnds
<1>1. ASSUME AllFine, AllFine', crashes \in Int, [Next]_vars
      PROVE  [\A c \in Chains : Stopped(c) => ~Alive(c)' /\ Archived(c)']_vars
  <2>1. CASE Next
    BY <1>1, <2>1, StopComesBack
  <2>2. CASE UNCHANGED vars
    BY <2>2
  <2> QED
    BY <1>1, <2>1, <2>2
<1>2. AllFine /\ AllFine' /\ crashes \in Int /\ [Next]_vars
        => [\A c \in Chains : Stopped(c) => ~Alive(c)' /\ Archived(c)']_vars
  BY <1>1
<1> QED
  BY <1>2, FineAlways, CrashesCounted, PTL DEF Spec, StopEnds
=============================================================================

-------------------------------- MODULE Trial -------------------------------
(***************************************************************************)
(* lab/evolve/evolve.py's evaluate(): a generation's designs built, held   *)
(* to the cell engine's answers and timed, at 8-byte cells and then at 4,  *)
(* by workers (--jobs) that share the directories of build/evolve and each *)
(* evaluate one design after another with the same globals and             *)
(* environment; and stop_stair() and stop_beaten(), which end it after one *)
(* round.                                                                  *)
(*                                                                         *)
(* What an engine does is its design's fate, of the width it is built for: *)
(* the check it fails, if one, and how, its time, size and memory.  One    *)
(* round strays from the median of them all.                               *)
(***************************************************************************)
EXTENDS Dominance, FiniteSets, Functions

CONSTANTS Workers,
          Designs,                  \* genomes: their scale, and the rest
          Fates,                    \* what a rest can be: see Fate
          TwoByteOnly,              \* rests with no three-byte call or DOES> form
          Audited,                  \* designs measured in full anyway, by their number
          RefTime,                  \* the time the reference (s6) takes, at 8 and at 4
          STOP1,                    \* percent (30); 0: off
          Strays,                   \* bound: by how much one round strays, percent
          Batch                     \* bound: designs of a generation

Width   == {4, 8}
Checks  == {"build", "corpus", "kernel", "far", "full", "measure"}
Fate    == [at : [Width -> [fails : Checks \cup {"nothing"}, how : {"wrong", "quiet", "hangs"},
                            time : Nat \ {0}, total : Nat, rss : Nat \ {0}]],
            hand : BOOLEAN]         \* hand-made: not held to far.fth and full.fth
Rests   == {g.rest : g \in Designs}
NoDesign   == [rest |-> "none", scale |-> 0]

ASSUME TrialAssumption ==
    /\ Fates \subseteq Fate /\ RefTime \in [Width -> Nat \ {0}]
    /\ Designs \subseteq [rest : Rests, scale : 0 .. 3] \ {NoDesign}
    /\ TwoByteOnly \subseteq Rests /\ Audited \subseteq Designs
    /\ STOP1 \in Nat /\ Strays \subseteq -99 .. 99 /\ Batch \in Nat \ {0}

VARIABLES fate,                     \* of each rest
          records,                  \* R
          generation, batch, done,  \* gen_now; its designs not yet taken; the records of those evaluated
          stair,                    \* stop_stair's, when the generation was given out
          job,                      \* of each worker: see Idle
          dirs                      \* the directories: the engine in each, and its work/kernel.img

trialVars == <<fate, records, generation, batch, done, stair, job, dirs>>
given     == <<fate, records, generation, stair>>

NoEngine   == [of |-> NoDesign, width |-> 8, kernel |-> 0]
NotMeasured(status) == [status |-> status, gen |-> generation, speed |-> 0, total |-> 0, rss |-> 0, speed32 |-> 0]

(* A worker's globals: env, the width EVOLVE_CELL builds for; ref, that of  *)
(* REF, KREF and REF_CORPUS.                                               *)
IdleJob == [at |-> "idle", g |-> NoDesign, env |-> 8, ref |-> 8, rec |-> [status |-> "none"]]

TrialInit ==
    /\ fate \in [Rests -> Fates]
    /\ records = <<>> /\ generation = 0 /\ batch = {} /\ done = <<>> /\ stair = {}
    /\ job = [w \in Workers |-> IdleJob] /\ dirs = <<>>
-----------------------------------------------------------------------------
(* stop_stair(): of the living designs of earlier generations, per memory,  *)
(* those with no faster one as small.                                      *)
StopStair ==
    LET living == {i \in DOMAIN records : records[i].status = "ok" /\ records[i].gen < generation + 1}
        pts    == {[speed |-> records[i].speed, total |-> records[i].total, rss |-> records[i].rss] : i \in living}
    IN  {p \in pts : \A q \in pts \ {p} : q.rss = p.rss => q.speed > p.speed \/ q.total > p.total}

(* Not the code: whatever memory it takes. *)
BeatenAnyMemory(s, total, m) == \E p \in stair : p.speed * (100 + STOP1) <= s * 100 /\ p.total <= total

(* stop_beaten(). *)
StopBeaten(s, total, m) ==
    \E p \in stair : p.rss <= m + MEM_TOL /\ p.speed * (100 + STOP1) <= s * 100 /\ p.total <= total

(* reach_lethal(): run, it executes whatever lies past its reach. *)
ReachLethal(g) == g.scale = 0 /\ g.rest \in TwoByteOnly

(* What eval32() builds: a call scale of at most 2.  A 32-bit engine with   *)
(* scale 3 misses its own definitions.                                     *)
Capped(g) == [g EXCEPT !.scale = IF @ > 2 THEN 2 ELSE @]

(* Not the code: its directory is named by what is built. *)
DirOfBuilt(g, width) == <<width, IF width = 4 THEN Capped(g) ELSE g>>

(* ind-<id> and ind32-<id>. *)
Dir(g, width) == <<width, g>>

(* What the engine in directory d does, if there is one. *)
Does(d) ==
    IF d \notin DOMAIN dirs \/ dirs[d].of = NoDesign
    THEN [fails |-> "corpus", how |-> "wrong", time |-> 1, total |-> 0, rss |-> 1]
    ELSE LET run == fate[dirs[d].of.rest].at[dirs[d].width]
         IN  IF dirs[d].width = 4 /\ dirs[d].of.scale > 2 THEN [run EXCEPT !.fails = "corpus", !.how = "wrong"] ELSE run

(* The exception a failed check raises: a run that hangs is timed out, but  *)
(* alive() catches that of the last two itself.                            *)
Death(run) == IF run.how = "hangs" /\ run.fails \notin {"far", "full"} THEN "timed out" ELSE run.fails

(* Caught, by evaluate() or, at 4, by eval32(): no speed32, and at_width    *)
(* has put back what it swapped.                                           *)
Caught(w, why) ==
    job' = [job EXCEPT ![w] = IF @.env = 8 THEN [@ EXCEPT !.at = "clean", !.rec.status = why]
                                          ELSE [@ EXCEPT !.at = "clean", !.env = 8, !.ref = 8]]
Goes(w, at) == job' = [job EXCEPT ![w].at = at]
-----------------------------------------------------------------------------
(* flush(): the children of a generation, given to the workers. *)
Flush ==
    /\ batch = {} /\ done = <<>> /\ \A w \in Workers : job[w].at = "idle"
    /\ batch' \in {b \in SUBSET (Designs \ DOMAIN records) : Cardinality(b) \in 1 .. Batch}
    /\ generation' = generation + 1
    /\ stair' = IF STOP1 = 0 THEN {} ELSE StopStair
    /\ UNCHANGED <<fate, records, done, job, dirs>>

TakeUp(w) ==
    /\ job[w].at = "idle" /\ batch # {}
    /\ \E g \in batch :
       /\ batch' = batch \ {g}
       /\ job' = [job EXCEPT ![w].g = g, ![w].at = IF ReachLethal(g) THEN "clean" ELSE "build",
                             ![w].rec = NotMeasured(IF ReachLethal(g) THEN "reach limit" ELSE "ok")]
    /\ UNCHANGED <<given, done, dirs>>

(* build() and private_work(): a directory made anew, the engine and a copy *)
(* of the reference's kernel in it.                                        *)
BuildDesign(w) ==
    /\ job[w].at = "build"
    /\ LET width == job[w].env
           g     == IF width = 4 THEN Capped(job[w].g) ELSE job[w].g
           run   == fate[g.rest].at[width]
           made  == [of |-> g, width |-> width, kernel |-> job[w].ref]
       IN  IF run.fails = "build"
           THEN Caught(w, Death(run)) /\ dirs' = [d \in DOMAIN dirs \cup {Dir(job[w].g, width)} |->
                                                     IF d = Dir(job[w].g, width) THEN NoEngine ELSE dirs[d]]
           ELSE /\ job' = [job EXCEPT ![w].at = "alive", ![w].rec.total = IF width = 8 THEN run.total ELSE @]
                /\ dirs' = [d \in DOMAIN dirs \cup {Dir(job[w].g, width)} |->
                                                     IF d = Dir(job[w].g, width) THEN made ELSE dirs[d]]
    /\ UNCHANGED <<given, batch, done>>

(* alive(): the corpus; the kernel, its copy removed first and then compared *)
(* with the reference's; and far and full, but for the hand-made.           *)
KernelWritten(d) == IF Does(d).fails = "kernel" THEN 0 ELSE dirs[d].width
HeldToAnswers(w) ==
    /\ job[w].at = "alive"
    /\ LET d    == Dir(job[w].g, job[w].env)
           run  == Does(d)
           hand == fate[job[w].g.rest].hand
       IN  \/ run.fails = "corpus" /\ Caught(w, Death(run)) /\ UNCHANGED dirs
           \/ /\ run.fails # "corpus" /\ KernelWritten(d) # job[w].ref
              /\ Caught(w, IF run.fails = "kernel" THEN Death(run) ELSE "kernel")
              /\ dirs' = [dirs EXCEPT ![d].kernel = KernelWritten(d)]
           \/ /\ run.fails # "corpus" /\ KernelWritten(d) = job[w].ref
              /\ dirs' = [dirs EXCEPT ![d].kernel = KernelWritten(d)]
              /\ IF run.fails \in {"far", "full"} /\ ~hand THEN Caught(w, run.fails)
                 ELSE Goes(w, IF job[w].env = 8 /\ stair # {} THEN "first" ELSE "rounds")
    /\ UNCHANGED <<given, batch, done>>

Speed(run, ref) == (run.time * 100) \div RefTime[ref]

(* One round first: beaten in it, the design is not measured further. *)
FirstRound(w) ==
    /\ job[w].at = "first"
    /\ LET run == Does(Dir(job[w].g, 8))
       IN  \/ run.fails \in {"measure", "corpus"} /\ Caught(w, Death(run))
           \/ /\ run.fails \notin {"measure", "corpus"}
              /\ \E stray \in Strays :
                 LET s == (Speed(run, job[w].ref) * (100 + stray)) \div 100
                 IN  IF StopBeaten(s, job[w].rec.total, run.rss) /\ job[w].g \notin Audited
                     THEN job' = [job EXCEPT ![w].at = "clean", ![w].rec.status = "stopped",
                                             ![w].rec.rss = run.rss]
                     ELSE Goes(w, "rounds")
    /\ UNCHANGED <<given, batch, done, dirs>>

(* measure(), beside the reference; then, with two widths, on to eval32(),  *)
(* or out of it.                                                           *)
Rounds(w) ==
    /\ job[w].at = "rounds"
    /\ LET run == Does(Dir(job[w].g, job[w].env))
       IN  \/ run.fails \in {"measure", "corpus"} /\ Caught(w, Death(run))
           \/ /\ run.fails \notin {"measure", "corpus"} /\ job[w].env = 8
              /\ job' = [job EXCEPT ![w].rec.speed = Speed(run, job[w].ref), ![w].rec.rss = run.rss,
                                    ![w].at = IF TWO_WIDTHS THEN "build" ELSE "clean",
                                    ![w].env = IF TWO_WIDTHS THEN 4 ELSE 8, ![w].ref = IF TWO_WIDTHS THEN 4 ELSE 8]
           \/ /\ run.fails \notin {"measure", "corpus"} /\ job[w].env = 4
              /\ job' = [job EXCEPT ![w].rec.speed32 = Speed(run, job[w].ref), ![w].at = "clean", ![w].env = 8, ![w].ref = 8]
    /\ UNCHANGED <<given, batch, done, dirs>>

(* Its directories removed, its record returned. *)
Clean(w) ==
    /\ job[w].at = "clean"
    /\ dirs' = Restrict(dirs, DOMAIN dirs \ {Dir(job[w].g, 4), Dir(job[w].g, 8)})
    /\ done' = [g \in DOMAIN done \cup {job[w].g} |-> IF g = job[w].g THEN job[w].rec ELSE done[g]]
    /\ job' = [job EXCEPT ![w].at = "idle", ![w].g = NoDesign, ![w].rec = [status |-> "none"]]
    /\ UNCHANGED <<given, batch>>

(* list(imap(...)) has them all: recorded. *)
RecordAll ==
    /\ done # <<>> /\ batch = {} /\ \A w \in Workers : job[w].at = "idle"
    /\ records' = [g \in DOMAIN records \cup DOMAIN done |-> IF g \in DOMAIN done THEN done[g] ELSE records[g]]
    /\ done' = <<>>
    /\ UNCHANGED <<fate, generation, batch, stair, job, dirs>>

AllTried == DOMAIN records = Designs /\ UNCHANGED trialVars

TrialNext ==
    \/ Flush \/ RecordAll \/ AllTried
    \/ \E w \in Workers : TakeUp(w) \/ BuildDesign(w) \/ HeldToAnswers(w) \/ FirstRound(w) \/ Rounds(w) \/ Clean(w)

TrialSpec == TrialInit /\ [][TrialNext]_trialVars
-----------------------------------------------------------------------------
(* How a design would be judged alone, with nothing before or beside it. *)
Outcome(g, run) ==
    IF run.fails = "nothing" \/ (run.fails \in {"far", "full"} /\ fate[g.rest].hand) THEN "ok" ELSE Death(run)
JudgedAlone(g) ==
    LET eight == fate[g.rest].at[8]
        four  == fate[g.rest].at[4]
    IN  [status  |-> IF ReachLethal(g) THEN "reach limit" ELSE Outcome(g, eight),
         speed   |-> (eight.time * 100) \div RefTime[8],
         total   |-> eight.total, rss |-> eight.rss,
         speed32 |-> IF TWO_WIDTHS /\ Outcome(g, four) = "ok" THEN (four.time * 100) \div RefTime[4] ELSE 0]

(* A design's record is its own: whatever its worker evaluated before, at    *)
(* either width, however that died, and whatever the other workers build    *)
(* and remove meanwhile (their 32-bit builds may be of the same design),    *)
(* its life and death and its figures are those it has alone, each speed    *)
(* against the reference of its own width; only one that lives is stopped.  *)
JudgedByItself ==
    \A g \in DOMAIN records :
        LET alone == JudgedAlone(g)
        IN  \/ records[g].status = "stopped" /\ alone.status = "ok" /\ g \notin Audited
            \/ records[g].status = "ok" /\ alone = Restrict(records[g], DOMAIN alone)
            \/ records[g].status \notin {"ok", "stopped"} /\ alone.status = records[g].status

OneWidth(r) == [speed |-> r.speed, total |-> r.total, rss |-> r.rss, speed32 |-> 1]

(* A design stopped after one round, measured in full, would have been      *)
(* dominated, 32-bit speed aside, by one measured in a generation before:   *)
(* a round's luck stops none that would have been on the front.             *)
StoppedIsDominated ==
    \A g \in DOMAIN records : records[g].status = "stopped" =>
        \E p \in DOMAIN records :
            /\ records[p].status = "ok" /\ records[p].gen < records[g].gen
            /\ Dominates(OneWidth(records[p]), OneWidth(JudgedAlone(g)))
=============================================================================

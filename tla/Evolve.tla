------------------------------- MODULE Evolve ------------------------------
(***************************************************************************)
(* lab/evolve/evolve.py's run: it keeps its records in memory and appends  *)
(* each to a database, one line at a time; killed, it is started again     *)
(* with the same seed, loads the database and replays its generations,     *)
(* measuring only what the database does not hold.                         *)
(***************************************************************************)
EXTENDS Breeding

CONSTANTS G,                        \* --gens
          MaxCrashes,               \* bound: crashes of the run
          Cuts                      \* which of the crashes may cut a line being written

ASSUME EvolveAssumption == G \in Nat /\ MaxCrashes \in Nat /\ Cuts \subseteq 1 .. MaxCrashes

VARIABLES db,                       \* the database's lines: <<id, record>>, or Bad
          ended,                    \* its last line ends with a newline
          pc, gen, pop, seen, R, scr,   \* the process: main()'s locals
          kids,                     \* the generation's children
          pending,                  \* those still to be measured
          todo,                     \* evaluated and still to be recorded
          crashes,
          saved,                    \* history: designs whose save() returned, in any attempt
          asked,                    \* history: the children of each generation, the first time it was made
          far                       \* history: the run as far as any attempt brought it

process == <<pc, gen, pop, seen, R, scr, kids, pending, todo>>
disk    == <<db, ended>>
history == <<saved, asked, far>>
vars    == <<disk, process, crashes, history>>

Bad == <<>>                         \* a line json.loads refuses

(* load(): of a design's lines the last counts, unreadable ones do not. *)
Load ==
    LET good    == {k \in DOMAIN db : db[k] # Bad}
        ids     == {db[k][1] : k \in good}
        last(i) == Max({k \in good : db[k][1] = i})
    IN  [i \in ids |-> db[last(i)][2]]

(* A line appended; after one that has no newline it becomes part of it. *)
Appended(line) == IF ended THEN Append(db, line) ELSE Append(Front(db), Bad)

Idle ==
    /\ gen' = 0 /\ pop' = <<>> /\ seen' = {} /\ scr' = NoModel
    /\ kids' = <<>> /\ pending' = <<>> /\ todo' = <<>>

Init ==
    /\ db = <<>> /\ ended = TRUE
    /\ pc = "down" /\ crashes = 0
    /\ gen = 0 /\ pop = <<>> /\ seen = {} /\ R = <<>> /\ scr = NoModel
    /\ kids = <<>> /\ pending = <<>> /\ todo = <<>>
    /\ saved = {} /\ asked = <<>>
    /\ far = [gen |-> 0, pop |-> <<>>, seen |-> {}, R |-> <<>>, scr |-> NoModel]

(* Not the code: a line json.loads refuses stops load(), and the run. *)
StartStrict ==
    /\ pc = "down"
    /\ \/ /\ \A k \in DOMAIN db : db[k] # Bad
          /\ R' = Load
          /\ Idle
          /\ pc' = "ask"
          /\ UNCHANGED <<disk, crashes, history>>
       \/ /\ \E k \in DOMAIN db : db[k] = Bad
          /\ UNCHANGED vars

(* The run started, or started again. *)
Start ==
    /\ pc = "down"
    /\ R' = Load
    /\ Idle
    /\ pc' = "ask"
    /\ UNCHANGED <<disk, crashes, history>>

(* Not the code: a design the database has is not added to seen. *)
AskMarksNew ==
    /\ pc = "ask" /\ ~Barren(gen, pop, R)
    /\ \E made \in {Kids(gen, pop, seen, R)} :
       LET new   == Pending(made, R)
           model == Refitted(scr, new, R, gen)
           out   == Screened(model, new, R, gen)
       IN  /\ kids' = made
           /\ seen' = seen \cup Range(new)
           /\ scr' = model
           /\ pending' = Kept(model, new, R, gen)
           /\ todo' = [k \in DOMAIN out |-> <<out[k], ScreenedRecord(gen)>>]
           /\ asked' = IF gen < Len(asked) THEN asked ELSE Append(asked, made)
    /\ pc' = "record"
    /\ UNCHANGED <<disk, gen, pop, R, crashes, saved, far>>

(* A generation's children asked for, and those the screen beats set aside. *)
Ask ==
    /\ pc = "ask" /\ ~Barren(gen, pop, R)
    /\ \E made \in {Kids(gen, pop, seen, R)} :
       LET new   == Pending(made, R)
           model == Refitted(scr, new, R, gen)
           out   == Screened(model, new, R, gen)
       IN  /\ kids' = made
           /\ seen' = seen \cup Range(made)
           /\ scr' = model
           /\ pending' = Kept(model, new, R, gen)
           /\ todo' = [k \in DOMAIN out |-> <<out[k], ScreenedRecord(gen)>>]
           /\ asked' = IF gen < Len(asked) THEN asked ELSE Append(asked, made)
    /\ pc' = "record"
    /\ UNCHANGED <<disk, gen, pop, R, crashes, saved, far>>

(* Nothing alive to breed from: the run stops with an exception. *)
GiveUp ==
    /\ pc = "ask" /\ Barren(gen, pop, R)
    /\ pc' = "failed"
    /\ UNCHANGED <<disk, gen, pop, seen, R, scr, kids, pending, todo, crashes, history>>

(* One record into memory and into the database. *)
SaveOne ==
    /\ pc = "record" /\ todo # <<>>
    /\ LET i == Head(todo)[1]
       IN  /\ R' = [j \in DOMAIN R \cup {i} |-> IF j = i THEN Head(todo)[2] ELSE R[j]]
           /\ saved' = saved \cup {i}
    /\ db' = Appended(Head(todo)) /\ ended' = TRUE
    /\ todo' = Tail(todo)
    /\ UNCHANGED <<pc, gen, pop, seen, scr, kids, pending, crashes, asked, far>>

(* The batch run by the workers: the gated designs' second readings, which *)
(* are recorded first, and the children.                                   *)
Measure ==
    /\ pc = "record" /\ todo = <<>> /\ pending # <<>>
    /\ LET again == FirstsIn(ByNumber, Again(pending, R))
       IN  \E reread \in [Range(again) -> Readings \cup {Dead}],
              read \in [Range(pending) -> Readings \cup {Dead}] :
             todo' = [k \in DOMAIN again |-> <<again[k], GateAgain(R[again[k]], reread[again[k]])>>]
                     \o [k \in DOMAIN pending |-> <<pending[k], Measured(read[pending[k]], gen, R)>>]
    /\ pending' = <<>>
    /\ UNCHANGED <<disk, pc, gen, pop, seen, R, scr, kids, crashes, history>>

(* Survival, and on to the next generation.  The first attempt to come      *)
(* this far brings the run a generation further.                           *)
Select ==
    /\ pc = "record" /\ todo = <<>> /\ pending = <<>>
    /\ pop' = Survivors(gen, pop, kids, R)
    /\ gen' = gen + 1
    /\ pc' = IF gen = G THEN "done" ELSE "ask"
    /\ far' = IF gen < far.gen THEN far
              ELSE [gen |-> gen', pop |-> pop', seen |-> seen, R |-> R,
                    scr |-> Refitted(far.scr, Pending(kids, far.R), far.R, gen)]
    /\ kids' = <<>>
    /\ UNCHANGED <<disk, seen, R, scr, pending, todo, crashes, saved, asked>>

(* The process killed between two lines. *)
Crash ==
    /\ pc \in {"ask", "record"} /\ crashes < MaxCrashes
    /\ crashes' = crashes + 1
    /\ pc' = "down" /\ R' = <<>> /\ Idle
    /\ UNCHANGED <<disk, history>>

(* The process killed in save(): part of the line is in the file, or all of *)
(* it but its newline.                                                     *)
CrashWriting ==
    /\ pc = "record" /\ todo # <<>> /\ crashes + 1 \in Cuts
    /\ \E written \in {Bad, Head(todo)} :
          db' = Appended(written)
    /\ ended' = FALSE
    /\ crashes' = crashes + 1
    /\ pc' = "down" /\ R' = <<>> /\ Idle
    /\ UNCHANGED history

(* The run is over. *)
Over == pc \in {"done", "failed"} /\ UNCHANGED vars

Next == Start \/ Ask \/ GiveUp \/ SaveOne \/ Measure \/ Select \/ Crash \/ CrashWriting \/ Over

Spec == Init /\ [][Next]_vars

(* A started run takes its steps, and a crashed one is started again. *)
FairSpec == Spec /\ WF_vars(Start \/ Ask \/ GiveUp \/ SaveOne \/ Measure \/ Select)
-----------------------------------------------------------------------------
(* A design already recorded is never evaluated again (evolve.py:18, and    *)
(* lab/evolve/README.md:15), whatever attempt recorded it.                 *)
NoneMeasuredTwice == Range(pending) \cap saved = {}

(* A replay asks for the children the first attempt asked for, generation   *)
(* by generation: it resumes and does not fork (evolve.py:2218).           *)
ReplayAsksTheSame == pc = "record" /\ kids # <<>> => kids = asked[gen + 1]

(* Of a design the database has its one reading, or the gated first one and *)
(* then the two joined: no reading counts twice, whatever was interrupted   *)
(* between the first and the second (evolve.py:2260).                      *)
EachReadingCountsOnce ==
    \A j, k \in DOMAIN db :
       j < k /\ db[j] # Bad /\ db[k] # Bad /\ db[j][1] = db[k][1] =>
          db[j][2].gated = 1 /\ db[k][2].gated = 2

(* The run as far as it came is one an uninterrupted process could have     *)
(* made: the same children, screened by the same model, and the survivors   *)
(* of each generation those the readings in the database choose.           *)
Run == INSTANCE EvolveRun WITH gen <- far.gen, pop <- far.pop, seen <- far.seen,
                               R <- far.R, scr <- far.scr
SomeUninterruptedRun == Run!Spec

(* Killed and started again, with a line cut short in its database or not,  *)
(* the run comes to its last generation (or has nothing alive to breed).   *)
Finishes == <>(pc \in {"done", "failed"})
=============================================================================

-------------------------------- MODULE Chain -------------------------------
(***************************************************************************)
(* Chains of runs (lab/evolve/next-run.sh, lab/evolve/chainctl.py): one    *)
(* line "A then B", its steps one after another in a session of its own,   *)
(* one directory, one archive.  Beside a chain's own processes there are   *)
(* the terminals next-run.sh is started from, each of which first archives *)
(* what an earlier chain left, and the stop command; the power may go.     *)
(* A chain's number is its place in the order of the directories' names.   *)
(*                                                                         *)
(* The files are the state that is kept (dir); processes, locks and the    *)
(* rest go with the power.  ps and the kills after it are one step.        *)
(***************************************************************************)
EXTENDS Integers, Sequences, FiniteSets

CONSTANTS NC,                       \* bound: chains there may be
          Lines,                    \* what a chain's line may be: its steps' kinds
          Starters,                 \* terminals next-run.sh is started from
          MaxCrashes,               \* bound: power cuts
          Disturbed                 \* may packing be disturbed: see PowerCut, Clean, RecoverOne

Kinds == {"seed", "experiment"}

ASSUME ChainAssumption ==
    /\ NC \in Nat \ {0} /\ MaxCrashes \in Nat /\ Disturbed \in BOOLEAN
    /\ Starters \subseteq Int
    /\ Lines \subseteq Seq(Kinds) \ {<<>>}

VARIABLES dir,                      \* each chain's directory
          main,                     \* where each chain's script is
          at,                       \* and in which step of its line
          helper,                   \* the copying to the remotes, left in the background
          lockers,                  \* who has RUNS/.lock open under the lock
          pack,                     \* who is packing which chain
          start,                    \* the terminals
          stop,                     \* the stop command
          crashes

vars == <<dir, main, at, helper, lockers, pack, start, stop, crashes>>

Chains == 1..NC

Open == {"running", "stopping"}
Final == {"done", "done-some-failed", "failed", "stopped", "interrupted"}

NoArchive == -1
NoDir == [status |-> "absent", sid |-> FALSE, steps |-> <<>>, archive |-> NoArchive, line |-> <<>>]

(* Packing is a process of the chain, of a start or of the stop command.   *)
Packers == {"chain"} \X Chains \cup {"start"} \X Starters \cup {<<"stop", 0>>}
NotPacking == [at |-> "no", of |-> 0, as |-> "none", n |-> NoArchive]
Packing(p) == pack[p].at # "no"

Exists(c) == dir[c].status # "absent"
Newest == CHOOSE c \in Chains : Exists(c) /\ \A d \in Chains : Exists(d) => d <= c
AnyChain == \E c \in Chains : Exists(c)

Up(c) == main[c] \notin {"none", "over"}
Kind(c) == dir[c].line[at[c]]
Last(c) == at[c] = Len(dir[c].line)

(* chainctl.py's alive: a process in the session the directory names.      *)
Alive(c) == dir[c].sid /\ (Up(c) \/ helper[c] = "copying")

(* next-run.sh's running(): an evolution, of any chain.                    *)
Running == \E c \in Chains : main[c] = "work" /\ Kind(c) = "seed"

Init ==
    /\ dir = [c \in Chains |-> NoDir]
    /\ main = [c \in Chains |-> "none"]
    /\ at = [c \in Chains |-> 0]
    /\ helper = [c \in Chains |-> "none"]
    /\ lockers = {}
    /\ pack = [p \in Packers |-> NotPacking]
    /\ start = [s \in Starters |-> [pc |-> "idle", todo |-> {}, of |-> 0]]
    /\ stop = [pc |-> "idle", of |-> 0]
    /\ crashes = 0

-----------------------------------------------------------------------------
(* The archive: the status first, then the tar of what is there, then its  *)
(* name and its path in the directory.                                     *)

Began(p, c, status) == pack' = [pack EXCEPT ![p] = [at |-> "status", of |-> c, as |-> status, n |-> NoArchive]]

WriteStatus(p) ==
    /\ pack[p].at = "status"
    /\ pack' = [pack EXCEPT ![p].at = "tar"]
    /\ dir' = [dir EXCEPT ![pack[p].of].status = pack[p].as]
    /\ UNCHANGED <<main, at, helper, lockers, start, stop, crashes>>

Tar(p) ==
    /\ pack[p].at = "tar"
    /\ pack' = [pack EXCEPT ![p].at = "name", ![p].n = Len(dir[pack[p].of].steps)]
    /\ UNCHANGED <<dir, main, at, helper, lockers, start, stop, crashes>>

(* Who has packed goes on: a chain's script and the stop command end, a    *)
(* start has the rest of its list.                                         *)
Released(p) == IF p[1] = "chain" THEN lockers \ {<<p[2], "main">>} ELSE lockers
Packed(p) ==
    /\ pack' = [pack EXCEPT ![p] = NotPacking]
    /\ main' = IF p[1] = "chain" THEN [main EXCEPT ![p[2]] = "over"] ELSE main
    /\ lockers' = Released(p)
    /\ stop' = IF p[1] = "stop" THEN [pc |-> "idle", of |-> 0] ELSE stop
    /\ UNCHANGED <<at, helper, start, crashes>>

(* With its .partial removed under it, os.replace raises: no archive.      *)
Name(p) ==
    /\ pack[p].at \in {"name", "removed"}
    /\ dir' = IF pack[p].at = "removed" THEN dir ELSE [dir EXCEPT ![pack[p].of].archive = pack[p].n]
    /\ Packed(p)

-----------------------------------------------------------------------------
(* next-run.sh in a terminal.                                              *)

StartBegin(s) ==
    /\ start[s].pc = "idle"
    /\ ~Running
    /\ AnyChain => ~Alive(Newest)
    /\ start' = [start EXCEPT ![s] = [pc |-> "recover", todo |-> {c \in Chains : Exists(c)}, of |-> 0]]
    /\ UNCHANGED <<dir, main, at, helper, lockers, pack, stop, crashes>>

(* A chain that is only starting: its directory is there, its session not. *)
Starting(c) == main[c] = "boot" \/ \E t \in Starters : start[t].pc = "made" /\ start[t].of = c

(* One directory of recover's list.  Nothing tells a chain that is         *)
(* starting from one that is dead: undisturbed, the start waits there.     *)
RecoverRunning(s) ==                \* Not the code: alive not asked.
    /\ start[s].pc = "recover"
    /\ ~Packing(<<"start", s>>)
    /\ \E c \in start[s].todo :
        /\ \A d \in start[s].todo : c <= d
        /\ Disturbed \/ ~Starting(c)
        /\ start' = [start EXCEPT ![s].todo = @ \ {c}]
        /\ IF dir[c].status \in Open
             THEN Began(<<"start", s>>, c, "interrupted")
             ELSE UNCHANGED pack
    /\ UNCHANGED <<dir, main, at, helper, lockers, stop, crashes>>
RecoverOne(s) ==
    /\ start[s].pc = "recover"
    /\ ~Packing(<<"start", s>>)
    /\ \E c \in start[s].todo :
        /\ \A d \in start[s].todo : c <= d
        /\ Disturbed \/ ~Starting(c)
        /\ start' = [start EXCEPT ![s].todo = @ \ {c}]
        /\ IF dir[c].status \in Open /\ ~Alive(c)
             THEN Began(<<"start", s>>, c, "interrupted")
             ELSE UNCHANGED pack
    /\ UNCHANGED <<dir, main, at, helper, lockers, stop, crashes>>

(* The end of recover: every .partial in RUNS removed, as an archive that  *)
(* was never finished; undisturbed, the start comes when there is none.    *)
Clean(s) ==
    /\ start[s].pc = "recover" /\ start[s].todo = {}
    /\ ~Packing(<<"start", s>>)
    /\ Disturbed \/ \A p \in Packers : pack[p].at # "name"
    /\ start' = [start EXCEPT ![s].pc = "making"]
    /\ pack' = [p \in Packers |-> IF pack[p].at = "name" THEN [pack[p] EXCEPT !.at = "removed"] ELSE pack[p]]
    /\ UNCHANGED <<dir, main, at, helper, lockers, stop, crashes>>

(* No bundle, local changes, no perf, a line that is not one.              *)
GiveUp(s) ==
    /\ start[s].pc \in {"making", "made"}
    /\ start' = [start EXCEPT ![s] = [pc |-> "idle", todo |-> {}, of |-> 0]]
    /\ UNCHANGED <<dir, main, at, helper, lockers, pack, stop, crashes>>

MakeDir(s) ==
    /\ start[s].pc = "making"
    /\ \E c \in Chains, line \in Lines :
        /\ ~Exists(c) /\ \A d \in Chains : d < c => Exists(d)
        /\ dir' = [dir EXCEPT ![c] = [NoDir EXCEPT !.status = "running", !.line = line]]
        /\ start' = [start EXCEPT ![s].pc = "made", ![s].of = c]
    /\ UNCHANGED <<main, at, helper, lockers, pack, stop, crashes>>

Detach(s) ==
    /\ start[s].pc = "made"
    /\ start' = [start EXCEPT ![s] = [pc |-> "idle", todo |-> {}, of |-> 0]]
    /\ main' = [main EXCEPT ![start[s].of] = "boot"]
    /\ at' = [at EXCEPT ![start[s].of] = 1]
    /\ UNCHANGED <<dir, helper, lockers, pack, stop, crashes>>

-----------------------------------------------------------------------------
(* The chain's own script.                                                 *)

Boot(c) ==
    /\ main[c] = "boot"
    /\ dir' = [dir EXCEPT ![c].sid = TRUE]
    /\ main' = [main EXCEPT ![c] = "lock"]
    /\ UNCHANGED <<at, helper, lockers, pack, start, stop, crashes>>

(* The lock without waiting, or the end: the traps are not set yet.        *)
LockAnyway(c) ==                    \* Not the code: flock's answer not looked at.
    /\ main[c] = "lock"
    /\ main' = [main EXCEPT ![c] = "work"] /\ lockers' = lockers \cup {<<c, "main">>}
    /\ UNCHANGED <<dir, at, helper, pack, start, stop, crashes>>
Lock(c) ==
    /\ main[c] = "lock"
    /\ IF lockers = {}
         THEN main' = [main EXCEPT ![c] = "work"] /\ lockers' = {<<c, "main">>}
         ELSE main' = [main EXCEPT ![c] = "over"] /\ UNCHANGED lockers
    /\ UNCHANGED <<dir, at, helper, pack, start, stop, crashes>>

(* The copying to the remotes, in the background of a seed step, once a    *)
(* chain: a child, with the lock's descriptor open as its parent has it.   *)
Launch(c) ==
    /\ main[c] = "work" /\ Kind(c) = "seed" /\ helper[c] = "none"
    /\ helper' = [helper EXCEPT ![c] = "copying"]
    /\ lockers' = lockers \cup {<<c, "helper">>}
    /\ UNCHANGED <<dir, main, at, pack, start, stop, crashes>>

Launched(c) ==
    /\ helper[c] = "copying"
    /\ helper' = [helper EXCEPT ![c] = "over"]
    /\ lockers' = lockers \ {<<c, "helper">>}
    /\ UNCHANGED <<dir, main, at, pack, start, stop, crashes>>

Recorded(c, records) == dir' = [dir EXCEPT ![c].steps = @ \o records]

SomeFailed(c) == \E i \in DOMAIN dir[c].steps : dir[c].steps[i] = "FAILED"

WorkOkDone(c) ==                    \* Not the code: an earlier step's FAILED not looked for.
    /\ main[c] = "work"
    /\ Recorded(c, <<"ok">>)
    /\ IF Last(c)
         THEN main' = [main EXCEPT ![c] = "packing"] /\ Began(<<"chain", c>>, c, "done")
         ELSE main' = [main EXCEPT ![c] = "then"] /\ UNCHANGED pack
    /\ UNCHANGED <<at, helper, lockers, start, stop, crashes>>
WorkOk(c) ==
    /\ main[c] = "work"
    /\ Recorded(c, <<"ok">>)
    /\ IF Last(c)
         THEN /\ main' = [main EXCEPT ![c] = "packing"]
              /\ Began(<<"chain", c>>, c, IF SomeFailed(c) THEN "done-some-failed" ELSE "done")
         ELSE main' = [main EXCEPT ![c] = "then"] /\ UNCHANGED pack
    /\ UNCHANGED <<at, helper, lockers, start, stop, crashes>>

WorkFails(c) ==
    /\ main[c] = "work"
    /\ main' = [main EXCEPT ![c] = "failed"]
    /\ UNCHANGED <<dir, at, helper, lockers, pack, start, stop, crashes>>

(* The EXIT trap: a stopped chain and a failed seed run end here; after a  *)
(* failed experiment the line goes on.                                     *)
Skipped(c) == IF Last(c) THEN <<>> ELSE <<"skipped">>
Failed(c) ==
    /\ main[c] = "failed"
    /\ LET stopping == dir[c].status = "stopping"
           goesOn   == ~stopping /\ Kind(c) = "experiment" /\ ~Last(c)
           result   == IF stopping THEN "STOPPED" ELSE "FAILED"
       IN  /\ Recorded(c, <<result>> \o IF goesOn THEN <<>> ELSE Skipped(c))
           /\ main' = [main EXCEPT ![c] = IF goesOn THEN "then" ELSE "packing"]
           /\ IF goesOn THEN UNCHANGED pack
              ELSE Began(<<"chain", c>>, c, IF stopping THEN "stopped" ELSE "failed")
    /\ UNCHANGED <<at, helper, lockers, start, stop, crashes>>

(* then_next: the lock's descriptor closed, and the script begins again in *)
(* the same session; it may refuse the step's words, with no trap set.     *)
Then(c) ==
    /\ main[c] = "then"
    /\ lockers' = lockers \ {<<c, "main">>}
    /\ \/ main' = [main EXCEPT ![c] = "lock"] /\ at' = [at EXCEPT ![c] = @ + 1]
       \/ main' = [main EXCEPT ![c] = "over"] /\ UNCHANGED at
    /\ UNCHANGED <<dir, helper, pack, start, stop, crashes>>

-----------------------------------------------------------------------------
(* next-run.sh stop.                                                       *)

StopBegin ==
    /\ stop.pc = "idle"
    /\ AnyChain /\ Alive(Newest)
    /\ stop' = [pc |-> "mark", of |-> Newest]
    /\ UNCHANGED <<dir, main, at, helper, lockers, pack, start, crashes>>

StopMark ==
    /\ stop.pc = "mark"
    /\ dir' = [dir EXCEPT ![stop.of].status = "stopping"]
    /\ stop' = [stop EXCEPT !.pc = "term"]
    /\ UNCHANGED <<main, at, helper, lockers, pack, start, crashes>>

(* What a signal leaves of a chain: its script where survives says.        *)
Signalled(c, survives) ==
    /\ main' = [main EXCEPT ![c] = IF Up(c) THEN survives ELSE @]
    /\ helper' = [helper EXCEPT ![c] = IF @ = "copying" THEN "over" ELSE @]
    /\ lockers' = lockers \ ({<<c, "helper">>} \cup IF survives = "over" THEN {<<c, "main">>} ELSE {})
    /\ pack' = [pack EXCEPT ![<<"chain", c>>] = NotPacking]

(* SIGTERM: a step that works runs its EXIT trap; between two steps a      *)
(* process begun after ps has read the list is missed.                     *)
Term ==
    /\ stop.pc = "term" /\ Alive(stop.of)
    /\ \E next \in CASE main[stop.of] = "work" -> {"failed"}
                     [] main[stop.of] = "then" -> {"then", "over"}
                     [] OTHER                  -> {"over"} :
            Signalled(stop.of, next)
    /\ stop' = [stop EXCEPT !.pc = "wait"]
    /\ UNCHANGED <<dir, at, start, crashes>>

(* SIGKILL, for what is there after 60 seconds.                            *)
Kill ==
    /\ stop.pc = "wait" /\ Alive(stop.of)
    /\ Signalled(stop.of, "over")
    /\ UNCHANGED <<dir, at, start, stop, crashes>>

(* The session has ended: packed, unless the chain has done so itself.     *)
StopCheckSoon ==                    \* Not the code: the session not waited for.
    /\ stop.pc = "wait"
    /\ IF dir[stop.of].archive = NoArchive \/ dir[stop.of].status = "stopping"
         THEN /\ Began(<<"stop", 0>>, stop.of, "stopped")
              /\ stop' = [stop EXCEPT !.pc = "packing"]
         ELSE stop' = [pc |-> "idle", of |-> 0] /\ UNCHANGED pack
    /\ UNCHANGED <<dir, main, at, helper, lockers, start, crashes>>
StopCheck ==
    /\ stop.pc \in {"term", "wait"} /\ ~Alive(stop.of)
    /\ IF dir[stop.of].archive = NoArchive \/ dir[stop.of].status = "stopping"
         THEN /\ Began(<<"stop", 0>>, stop.of, "stopped")
              /\ stop' = [stop EXCEPT !.pc = "packing"]
         ELSE stop' = [pc |-> "idle", of |-> 0] /\ UNCHANGED pack
    /\ UNCHANGED <<dir, main, at, helper, lockers, start, crashes>>

-----------------------------------------------------------------------------
(* The power: undisturbed, it goes only when no archive is half made.      *)
PowerCut ==
    /\ crashes < MaxCrashes
    /\ Disturbed \/ /\ \A p \in Packers : ~Packing(p)
                    /\ stop.pc = "wait" => dir[stop.of].status = "stopping"
    /\ crashes' = crashes + 1
    /\ main' = [c \in Chains |-> IF Up(c) THEN "over" ELSE main[c]]
    /\ helper' = [c \in Chains |-> IF helper[c] = "copying" THEN "over" ELSE helper[c]]
    /\ lockers' = {}
    /\ pack' = [p \in Packers |-> NotPacking]
    /\ start' = [s \in Starters |-> [pc |-> "idle", todo |-> {}, of |-> 0]]
    /\ stop' = [pc |-> "idle", of |-> 0]
    /\ UNCHANGED <<dir, at>>

Pack(p) == WriteStatus(p) \/ Tar(p) \/ Name(p)

StartStep(s) ==
    \/ StartBegin(s) \/ RecoverOne(s) \/ Clean(s) \/ GiveUp(s) \/ MakeDir(s) \/ Detach(s)

ChainStep(c) ==
    \/ Boot(c) \/ Lock(c) \/ Launch(c) \/ Launched(c)
    \/ WorkOk(c) \/ WorkFails(c) \/ Failed(c) \/ Then(c)

StopGoesOn == StopMark \/ Term \/ Kill \/ StopCheck

Next ==
    \/ \E p \in Packers : Pack(p)
    \/ \E s \in Starters : StartStep(s)
    \/ \E c \in Chains : ChainStep(c)
    \/ StopBegin \/ StopGoesOn
    \/ PowerCut

Spec == Init /\ [][Next]_vars

-----------------------------------------------------------------------------
(* Two runs never measure at once, whatever is started, stopped or cut off *)
(* and when: flock on RUNS/.lock (next-run.sh:319) is what holds it, also  *)
(* while it is let go between two steps of a line.                         *)
MeasureAlone == \A c, d \in Chains : main[c] = "work" /\ main[d] = "work" => c = d

(* A chain that is over, and that nothing is about to pack, is either      *)
(* still marked for the next start to archive or is archived with every    *)
(* record of its steps (chainctl.py's pack, stop and recover between them: *)
(* "the one archive, whatever happened").                                  *)
Handled(c) ==
    \/ Up(c) \/ helper[c] = "copying"
    \/ \E p \in Packers : Packing(p) /\ pack[p].of = c
    \/ stop.pc # "idle" /\ stop.of = c
Archived(c) == dir[c].archive = Len(dir[c].steps)
NothingForgotten == \A c \in Chains : Exists(c) /\ ~Handled(c) => dir[c].status \in Open \/ Archived(c)

(* What a chain's status says, its steps say: done, that every step of its *)
(* line went well; done-some-failed, that only experiments did not, and    *)
(* all of the line was gone through; failed, that the last that ran did    *)
(* not (next-run.sh:363-370, 450, 548), whoever wrote it last.             *)
Ran(steps) == {i \in DOMAIN steps : steps[i] # "skipped"}
WentWrong(steps) == {i \in Ran(steps) : steps[i] # "ok"}
Tells(status, steps, line) ==
    /\ status = "done" => Ran(steps) = DOMAIN line /\ WentWrong(steps) = {}
    /\ status = "done-some-failed" =>
          /\ Ran(steps) = DOMAIN line /\ WentWrong(steps) # {}
          /\ \A i \in WentWrong(steps) : line[i] = "experiment"
    /\ status = "failed" => \E last \in Ran(steps) :
          /\ Ran(steps) = 1 .. last /\ steps[last] = "FAILED"
          /\ last < Len(line) => line[last] = "seed" /\ Ran(steps) # DOMAIN steps
StatusTellsSteps == \A c \in Chains : Tells(dir[c].status, dir[c].steps, dir[c].line)

(* When the stop command comes back, its chain is dead and its archive     *)
(* made, with the record of every step that ran (chainctl.py:151-170),     *)
(* also when the chain was just finishing, failing or packing itself.      *)
Stopped(c) == stop.of = c /\ stop'.pc = "idle" /\ crashes' = crashes
StopEnds == [][\A c \in Chains : Stopped(c) => ~Alive(c)' /\ Archived(c)']_vars
=============================================================================

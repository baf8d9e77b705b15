------------------------------ MODULE MCChain ------------------------------
(* Chain with the lines that are run: a search and what measures it, and   *)
(* two measurements, each of which may fail.  Or the search of a chain's   *)
(* first step, on a small genome space, its fast gate and its screen on    *)
(* (Evolve).                                                               *)
EXTENDS Chain

SearchThenMeasure == {<<"seed", "experiment">>, <<"experiment", "experiment">>}
-----------------------------------------------------------------------------
VARIABLES db, ended, pc, gen, pop, seen, R, scr, kids, pending, todo, kills, saved, asked, far
searchVars == <<db, ended, pc, gen, pop, seen, R, scr, kids, pending, todo, kills, saved, asked, far>>

Search == INSTANCE Evolve WITH
              crashes <- kills, MaxCrashes <- 2, Cuts <- {}, G <- 2, N <- 2, M <- 8, Tries <- 2, Readings <- {1, 2},
              FASTGATE <- 1, SCREEN_FROM <- 1, SCREEN_EVERY <- 2, SCREEN_MIN <- 1, SCREEN_AUDIT <- 3

(* With the gate and the screen on, of a design the database has its one    *)
(* reading, or the gated first one and then the two joined, whatever was    *)
(* interrupted between the first and the second (evolve.py:2260).           *)
EachReadingCountsOnce == Search!EachReadingCountsOnce

NoSearch ==
    /\ pc = "none" /\ ended = TRUE /\ gen = 0 /\ kills = 0 /\ seen = {} /\ saved = {}
    /\ db = <<>> /\ pop = <<>> /\ R = <<>> /\ scr = <<>> /\ kids = <<>> /\ pending = <<>> /\ todo = <<>>
    /\ asked = <<>> /\ far = <<>>

(* Each by itself: a chain knows of its search only that it ended and how.  *)
MCInit == Init /\ (NoSearch \/ Search!Init)
MCNext ==
    \/ pc = "none" /\ Next /\ UNCHANGED searchVars
    \/ pc # "none" /\ Search!Next /\ UNCHANGED vars
MCSpec == MCInit /\ [][MCNext]_<<vars, searchVars>>
=============================================================================

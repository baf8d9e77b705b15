------------------------------ MODULE EvolveRun -----------------------------
(***************************************************************************)
(* What a run of lab/evolve/evolve.py promises: it is the run of its seed, *)
(* whatever interrupts it.  Generations, each one step, with no database   *)
(* and no interruption: only the readings are not determined.              *)
(***************************************************************************)
EXTENDS Breeding

CONSTANT G                          \* --gens: generations bred

VARIABLES gen,                      \* the generation to be made next
          pop,                      \* the population it is made from
          seen,                     \* the designs asked for so far
          R,                        \* the records of those
          scr                       \* the screen's model

vars == <<gen, pop, seen, R, scr>>

Init ==
    /\ gen = 0
    /\ pop = <<>>
    /\ seen = {}
    /\ R = <<>>
    /\ scr = NoModel

(* The records once the children's readings are in. *)
Recorded(again, screened, kept, read, reread) ==
    [i \in DOMAIN R \cup Range(screened) \cup Range(kept) |->
        CASE i \in Range(screened) -> ScreenedRecord(gen)
          [] i \in Range(kept)     -> Measured(read[i], gen, R)
          [] i \in again           -> GateAgain(R[i], reread[i])
          [] OTHER                 -> R[i]]

Generation ==
    /\ gen <= G
    /\ gen' = gen + 1
    /\ ~Barren(gen, pop, R)
    /\ LET kids     == Kids(gen, pop, seen, R)
           new      == Pending(kids, R)
           model    == Refitted(scr, new, R, gen)
           screened == Screened(model, new, R, gen)
           kept     == Kept(model, new, R, gen)
           again    == Again(kept, R)
       IN  \E read \in [Range(kept) -> Readings \cup {Dead}],
              reread \in [again -> Readings \cup {Dead}] :
             LET rec == Recorded(again, screened, kept, read, reread)
             IN  /\ R' = rec
                 /\ pop' = Survivors(gen, pop, kids, rec)
                 /\ seen' = seen \cup Range(kids)
                 /\ scr' = model

Next == Generation

Spec == Init /\ [][Next]_vars
=============================================================================

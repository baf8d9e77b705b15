-------------------------------- MODULE Genome --------------------------------
(***************************************************************************)
(* One design of the evolver bred from another (src/lab/evolve/evolve.py,  *)
(* breed() and get()): crossed with a second parent, borrowed into,        *)
(* mutated, then asked for - its frozen genes put at their values - and    *)
(* its own descendants bred from it.                                       *)
(***************************************************************************)
EXTENDS Build, Variation

CONSTANTS
    HandMade,       \* the hand-made founders: asked for as they are
    Drawn,          \* genomes random_genome can draw, the evolver's first designs
    Base,           \* the hand-made genome random_genome starts from
    MaxSteps,       \* bound: variation steps from a first design
    Varied(_),      \* bound: the genes mutated after so many steps
    Partners(_)     \* bound: the second parents and donors after so many steps

ASSUME DrawnAssumption == \A d \in Drawn : Random(d, Base)
ASSUME FoundersAssumption == \A h \in HandMade \cup {Base} : Genome(h)
ASSUME PartnersAssumption ==
    /\ MaxSteps \in Nat
    /\ \A n \in 0..MaxSteps : \A p \in Partners(n) : Genome(p)

VARIABLES g,        \* the genome in hand
          stage,    \* which operators may still change it, in breed()'s order
          steps     \* how many have since the first design

vars == <<g, stage, steps>>

(* The genome get() asks for.                                              *)
Asked(h) == Canon(Require(h))

Init == /\ g \in HandMade \cup {Asked(d) : d \in Drawn}
        /\ stage = "parent"
        /\ steps = 0

Step(to) == /\ steps < MaxSteps
            /\ steps' = steps + 1
            /\ stage' = to

Cross == /\ stage = "parent"
         /\ \E p \in Partners(steps) : g' \in Crossed(Canon(g), Canon(p))
         /\ Step("crossed")

Borrow == /\ stage \in {"parent", "crossed"}
          /\ \E donor \in Partners(steps) : g' \in Borrowed(g, donor)
          /\ Step("borrowed")

Mutate == /\ stage # "mutated"
          /\ \E k \in Pool(g) \cap Varied(steps) : \E h \in Changed(Canon(g), k) : g' \in Mutated(g, h)
          /\ Step("mutated")

Ask == /\ stage # "parent"
       /\ g' = Asked(g)
       /\ stage' = "parent"
       /\ UNCHANGED steps

Next == Cross \/ Borrow \/ Mutate \/ Ask
Spec == Init /\ [][Next]_vars

-----------------------------------------------------------------------------

(* No two things the engine decodes share an opcode: what format-10 words   *)
(* and pairs are given is apart from one another, from the primitives kept, *)
(* the folds and the specialisations (super_slots, ops10_in, supers_in).    *)
OpcodesApart ==
    LET tens  == Ops10Codes(g)
        pairs == SuperCodes(g)
        taken == <<ToSet(tens), ToSet(pairs), FoldCodes(g), SpecCodes(g), PrimCodes(g)>>
    IN  Cv8(g) =>
          /\ \A i, j \in 1..5 : i # j => taken[i] \cap taken[j] = {}
          /\ IsInjective(tens) /\ IsInjective(pairs)

(* A run-time compiler built into the image has the opcodes it writes: all  *)
(* eight loop words for the compact one, I+ for its fused form (build()'s   *)
(* dump; the converter's LOOPTAB assertion).                                *)
OverlaysHaveTheirOpcodes ==
    Cv8(Asked(g)) =>
        LET h == Asked(g)
        IN  /\ Dump(h).loops = "loopall" => Loop10 \subseteq Given10(h)
            /\ Dump(h).iplus => "I+" \in Given10(h)

(* One step changing only genes that do nothing makes the same files: two   *)
(* genomes of one id are one engine source, one set of macros, one image -  *)
(* get() builds only the first it is asked for.                             *)
SameIdSameFiles ==
    [][Express(Asked(g)) = Express(Asked(g'))
         => Files(Asked(g)) = Files(Asked(g'))]_vars

(* "Two genomes that differ only in dormant genes build the same design,    *)
(* and are measured once" (express()): the compiler's flags too.            *)
SameIdSameBuild ==
    [][Express(Asked(g)) = Express(Asked(g'))
         => Built(Asked(g)) = Built(Asked(g'))]_vars

(* Repaired a second time, rtloopall is never blocked: whatever the list    *)
(* and whatever claims slots before it (rtloopall_repair).                  *)
SecondRepairIsEnough ==
    LET h == Asked([g EXCEPT !.rtloopall = 1])
    IN  Blocked(h) => ~Blocked(Repaired(Repaired(h)))
==============================================================================

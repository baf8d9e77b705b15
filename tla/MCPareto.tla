------------------------------ MODULE MCPareto -----------------------------
(* Records on either side of the tolerances, 2% and 8 KB: designs that      *)
(* trade one objective for another, rings among them; fronts() and          *)
(* first_front() on lists of them, or the population bred from them; or    *)
(* designs being evaluated.                                                *)
EXTENDS Pareto, Selection, Trial

Steps  == {<<1000, 0>>, <<1015, 1>>, <<1030, 2>>}
Memory == {<<0, 0>>, <<6, 1>>, <<12, 2>>}
MCMeasured ==
    {[speed |-> s[1], total |-> t, rss |-> m[1], speed32 |-> w[1]] :
        <<s, m, w, t>> \in {q \in Steps \X Memory \X Steps \X {1, 2} :
                              q[1][2] + q[2][2] + q[3][2] + q[4] = 4}}

(* Two families, genes one design has alone and genes several share. *)
Design(f, gs, s, t, m, w) ==
    [enc |-> f, genes |-> {f} \cup gs, speed |-> s, total |-> t, rss |-> m, speed32 |-> w]
MCMeasures ==
    << Design("cv8", {"a"}, 1000, 2, 6, 1015), Design("cpt16", {"b"}, 1030, 3, 12, 1030),
       Design("cv8", {"c"}, 1015, 1, 12, 1000), Design("cv8", {"a", "d"}, 1000, 3, 12, 1000),
       Design("cpt16", {"b", "d"}, 1030, 1, 6, 1000) >>
MCFamilies == <<"cpt16", "cv8">>

(* Trial: two designs that are one at 32 bits, and two of which one is not  *)
(* run at all; what a rest can be is fast or slow, small or lean, or ends  *)
(* at one of the checks.                                                   *)
Engine(f, h, t, z, m) == [fails |-> f, how |-> h, time |-> t, total |-> z, rss |-> m]
Living32(t, z, m) ==
    [at |-> [w \in Width |-> Engine("nothing", "wrong", IF w = 4 THEN 2 * t ELSE t, z, m)], hand |-> FALSE]
Fast == Living32(60, 10, 100)
Slow == Living32(100, 12, 96)
Lean == Living32(100, 10, 80)
Ends(f, w, check, how) == [f EXCEPT !.at[w].fails = check, !.at[w].how = how]

MCFates == {Fast, Slow, Lean, Ends(Slow, 8, "kernel", "quiet"), Ends(Slow, 8, "far", "hangs"),
            Ends(Lean, 8, "measure", "hangs"), Ends(Fast, 4, "build", "wrong"), Ends(Fast, 4, "full", "wrong"),
            [Ends(Slow, 8, "full", "hangs") EXCEPT !.hand = TRUE]}
MCDesigns == {[rest |-> "a", scale |-> s] : s \in {2, 3}} \cup {[rest |-> "b", scale |-> s] : s \in {0, 1}}
MCTwoByteOnly == {"b"}
MCAudited == {[rest |-> "a", scale |-> 3]}
MCRefTime == [w \in Width |-> IF w = 4 THEN 120 ELSE 80]
MCStrays == {-7, 7}
-----------------------------------------------------------------------------
NoPareto    == R = <<>> /\ todo = {} /\ arch = {} /\ out = {} /\ unchecked = {} /\ pc = "none"
               /\ n = <<>> /\ F = <<>> /\ stage = "none"
NoSelection == isl = <<>> /\ attic = <<>> /\ dead = {} /\ kids = <<>> /\ gen = 0 /\ phase = "none"
NoTrial     == fate = <<>> /\ records = <<>> /\ generation = 0 /\ batch = {} /\ done = <<>> /\ stair = {}
               /\ job = <<>> /\ dirs = <<>>
MCInit ==
    \/ ParetoInit /\ NoSelection /\ NoTrial
    \/ NoPareto /\ SelInit /\ NoTrial
    \/ NoPareto /\ NoSelection /\ TrialInit
MCNext ==
    \/ stage # "none" /\ ParetoNext /\ UNCHANGED <<selVars, trialVars>>
    \/ phase # "none" /\ SelNext /\ UNCHANGED <<ParetoVars, trialVars>>
    \/ job # <<>> /\ TrialNext /\ UNCHANGED <<ParetoVars, selVars>>
MCSpec == MCInit /\ [][MCNext]_<<ParetoVars, selVars, trialVars>>
=============================================================================

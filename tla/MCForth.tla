------------------------------ MODULE MCForth ------------------------------
(* The kernel's input source and the JIT's cache, which share no state: a    *)
(* behaviour is one's or the other's, whose variables never move.            *)
EXTENDS InputSource, MCJit

NoJit ==
    /\ m = <<>> /\ dict = <<>>
    /\ jit = [hdr |-> <<>>, k |-> <<>>, code |-> <<>>, nic |-> 0, deep |-> FALSE, f |-> 0, ic |-> <<>>]
NoInput ==
    /\ source = [sid |-> 0, src |-> TIB, len |-> 0, in |-> 0]
    /\ ip = 0 /\ handler = 0 /\ rs = <<>> /\ open = {} /\ text = [a \in 0 .. ROOM + LINE |-> 0]

MCInit == (Init /\ NoJit) \/ (JitInit /\ NoInput)
MCNext ==
    \/ m = <<>> /\ Next /\ UNCHANGED jitVars
    \/ m # <<>> /\ JitNext /\ UNCHANGED vars
MCSpec == MCInit /\ [][MCNext]_<<vars, jitVars>>
=============================================================================

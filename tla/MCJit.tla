------------------------------- MODULE MCJit -------------------------------
(* JitWords on small dictionaries: chains of calls deeper than the           *)
(* translator goes; a kernel's words without headers, a defining word's       *)
(* children and constants; EXECUTE from sites that are shared; a cold word.   *)
EXTENDS JitWords

ColonOf(ops)   == [kind |-> "colon", ops |-> ops, does |-> <<>>, of |-> 0]
BareOf(ops)    == [kind |-> "bare", ops |-> ops, does |-> <<>>, of |-> 0]
ChildOf(p)     == [kind |-> "child", ops |-> <<>>, does |-> <<>>, of |-> p]
DefiningOf(d)  == [kind |-> "colon", ops |-> <<<<"bad", 0>>>>, does |-> d, of |-> 0]
O(n) == <<"op", n>>
L(n) == <<"lit", n>>
C(p) == <<"call", 2 * p>>
X    == <<"execute", 0>>
Bad  == <<"bad", 0>>

Chains ==
    [image |-> <<ColonOf(<<O(1)>>)>>, places |-> 4, depth |-> 1, mem |-> 3, slots |-> 1, sites |-> 1,
     does |-> FALSE, exec |-> FALSE, inl |-> FALSE, cold |-> {}, low |-> 2,
     forms |-> <<{}, {ColonOf(<<C(1)>>), ColonOf(<<O(2), C(2)>>), ColonOf(<<X>>)},
                 {ColonOf(<<C(2), C(1)>>), ColonOf(<<Bad, C(2)>>)},
                 {ColonOf(<<C(3)>>), ColonOf(<<Bad, C(2), C(3)>>)}>>]
Kernel ==
    [image |-> <<BareOf(<<O(1), O(2)>>), BareOf(<<C(1), O(1)>>), DefiningOf(<<O(3)>>)>>,
     places |-> 5, depth |-> 3, mem |-> 4, slots |-> 3, sites |-> 1,
     does |-> TRUE, exec |-> FALSE, inl |-> FALSE, cold |-> {}, low |-> 2,
     forms |-> <<{}, {}, {}, {ChildOf(3), BareOf(<<L(0)>>), BareOf(<<L(1)>>), ColonOf(<<C(2)>>)},
                 {ColonOf(<<C(4)>>), ColonOf(<<C(4), C(1)>>)}>>]
Executes ==
    [image |-> <<DefiningOf(<<O(3)>>), ColonOf(<<X, O(1)>>), ColonOf(<<O(1), X>>)>>,
     places |-> 4, depth |-> 2, mem |-> 4, slots |-> 2, sites |-> 2,
     does |-> TRUE, exec |-> TRUE, inl |-> TRUE, cold |-> {}, low |-> 2,
     forms |-> <<{}, {}, {}, {ChildOf(1), BareOf(<<L(0)>>), BareOf(<<L(1)>>), ColonOf(<<Bad>>), ColonOf(<<O(4)>>)}>>]
Cold ==
    [image |-> <<BareOf(<<Bad>>), BareOf(<<L(1)>>)>>, places |-> 4, depth |-> 2, mem |-> 3, slots |-> 2, sites |-> 2,
     does |-> FALSE, exec |-> TRUE, inl |-> TRUE, cold |-> {1}, low |-> 2,
     forms |-> <<{}, {}, {ColonOf(<<C(2), C(1)>>), BareOf(<<L(0)>>)},
                 {ColonOf(<<C(3), C(1)>>), ColonOf(<<Bad, C(3)>>)}>>]

MCSetups == {Chains, Kernel, Executes, Cold}

(* A chain of calls that ends in the kernel's own words.                    *)
DeepKernel == {[Kernel EXCEPT !.depth = 2]}
=============================================================================

------------------------------ MODULE Huffman ------------------------------
(***************************************************************************)
(* tools/gen_huffman.py, which turns the code of RFC 7541 into a decoder   *)
(* that reads four bits at a time, and huffman_decode(), which runs it.    *)
(* The widths are parameters: 4 bits a lookup, codes of 5 to 30 bits and   *)
(* bytes of two lookups in the code, less of each for model checking.      *)
(*                                                                         *)
(* A code is [code, bits], the symbols are the positions of a table of     *)
(* codes, counted from 0, and the last one is EOS.  A node of the code     *)
(* tree is the sequence of bits that leads to it.                          *)
(***************************************************************************)
EXTENDS Integers, Sequences, FiniteSets, Accumulate

CONSTANTS
    Nibble,            \* bits per lookup
    Shortest, Longest, \* bits of a code
    Symbols,           \* symbols in a table, EOS included
    Nothing            \* what a lookup that emits no symbol has for one

Eos == Symbols - 1
ByteBits == 2 * Nibble
----------------------------------------------------------------------------
(* gen_huffman.py *)

(* The bits of a code, the most significant first. *)
Path(c) == [k \in 1..c.bits |-> (c.code \div (2 ^ (c.bits - k))) % 2]

Kraft(codes) == Accumulated(LAMBDA n, c : n + 2 ^ (Longest - c.bits), 0, codes)

(* What validate() lets through. *)
validate(codes) ==
    /\ Len(codes) = Symbols
    /\ \A k \in DOMAIN codes : /\ codes[k].bits \in Shortest..Longest
                               /\ codes[k].code < 2 ^ codes[k].bits
    /\ Kraft(codes) = 2 ^ Longest
    /\ \A k \in DOMAIN codes : \A shorter \in Shortest..(codes[k].bits - 1) :
          ~\E j \in DOMAIN codes :
              /\ codes[j].bits = shorter
              /\ codes[j].code = codes[k].code \div (2 ^ (codes[k].bits - shorter))

(* The nodes of the tree, and the symbol at one: the last one put there. *)
build_tree(codes) ==
    [nodes  |-> UNION {{SubSeq(Path(codes[k]), 1, n) : n \in 0..codes[k].bits} : k \in DOMAIN codes},
     symbol |-> [p \in {Path(codes[k]) : k \in DOMAIN codes} |->
                   CHOOSE s \in 0..Eos : /\ Path(codes[s + 1]) = p
                                         /\ \A t \in (s + 1)..Eos : Path(codes[t + 1]) # p]]

Fail == [to |-> <<>>, fail |-> TRUE, symbol |-> Nothing]

(* One bit down the tree; a symbol sends the walk back to the root. *)
Step(tree, walk, bit) ==
    LET child == Append(walk.to, bit)
    IN IF walk.fail \/ child \notin tree.nodes THEN Fail
       ELSE IF child \in DOMAIN tree.symbol
            THEN IF tree.symbol[child] = Eos THEN Fail
                 ELSE [to |-> <<>>, fail |-> FALSE, symbol |-> tree.symbol[child]]
            ELSE [walk EXCEPT !.to = child]

Nibbles == [1..Nibble -> {0, 1}]

Transition(tree, node, nibble) ==
    Accumulated(LAMBDA walk, bit : Step(tree, walk, bit),
                [to |-> node, fail |-> FALSE, symbol |-> Nothing], nibble)

(* The nodes that whole nibbles lead to, in rounds from the root. *)
Reached(tree) ==
    Accumulated(
        LAMBDA old, n : old \cup {t.to : t \in {Transition(tree, p, b) : p \in old, b \in Nibbles}},
        {<<>>}, [n \in 1..Longest |-> n])

Ones(n) == [k \in 1..n |-> 1]

(* Faulty: one bit more than padding may have. *)
_acceptingByte(tree) ==
    {Ones(n) : n \in {m \in 0..ByteBits :
        \A j \in 0..m : Ones(j) \in tree.nodes /\ Ones(j) \notin DOMAIN tree.symbol}}

(* Where a string may end: the root, and less than a byte of ones below it. *)
_accepting(tree) ==
    {Ones(n) : n \in {m \in 0..(ByteBits - 1) :
        \A j \in 0..m : Ones(j) \in tree.nodes /\ Ones(j) \notin DOMAIN tree.symbol}}

build_states(codes) ==
    Once(build_tree(codes), LAMBDA tree :
        Once(Reached(tree), LAMBDA reached :
            [states    |-> reached,
             table     |-> [p \in reached |-> [b \in Nibbles |-> Transition(tree, p, b)]],
             accepting |-> _accepting(tree) \cap reached]))
----------------------------------------------------------------------------
(* httpx/_proto/h2/huffman.mojo *)

(* One lookup; what was refused stays refused. *)
Lookup(made, limit, at, nibble) ==
    LET t == made.table[at.state][nibble]
    IN IF at.refused THEN at
       ELSE IF t.fail \/ (t.symbol # Nothing /\ Len(at.out) >= limit)
            THEN [at EXCEPT !.refused = TRUE]
            ELSE [state |-> t.to, refused |-> FALSE,
                  out |-> IF t.symbol = Nothing THEN at.out ELSE Append(at.out, t.symbol)]

(* The symbols of a string of whole bytes, or Nothing where it raises. *)
huffman_decode(made, nibbles, limit) ==
    Once(Accumulated(LAMBDA at, n : Lookup(made, limit, at, n),
                     [state |-> <<>>, refused |-> FALSE, out |-> <<>>], nibbles),
         LAMBDA end : IF end.refused \/ end.state \notin made.accepting THEN Nothing ELSE end.out)
----------------------------------------------------------------------------
(* RFC 7541, section 5.2 *)

Encoded(codes, s) == Joined([k \in DOMAIN s |-> Path(codes[s[k] + 1])])

Begins(p, s) == Len(p) <= Len(s) /\ SubSeq(s, 1, Len(p)) = p

(* What bits stand for: symbols other than EOS, then less than a byte of    *)
(* the first bits of EOS.                                                   *)
Meanings(codes, bits, limit) ==
    {s \in UNION {[1..n -> 0..(Eos - 1)] : n \in 0..limit} :
        LET e == Encoded(codes, s)
        IN /\ Begins(e, bits)
           /\ Len(bits) - Len(e) < ByteBits
           /\ Begins(SubSeq(bits, Len(e) + 1, Len(bits)), Path(codes[Symbols]))}
=============================================================================

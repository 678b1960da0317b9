----------------------------- MODULE Accumulate -----------------------------
(* A loop over a sequence that carries a value along.                        *)
EXTENDS Integers, Sequences, FiniteSets

IsList(s) == s \in Seq({s[k] : k \in DOMAIN s})

(* Op(x), with x bound by a set of one element: TLC evaluates it once then,  *)
(* however often Op refers to it.                                            *)
Once(x, Op(_)) == CHOOSE y \in {Op(v) : v \in {x}} : TRUE

Accumulated(Step(_, _), start, s) ==
    Once(s, LAMBDA items :
        LET after[k \in 0..Len(items)] ==
                IF k = 0 THEN start
                ELSE Once(after[k - 1], LAMBDA before : Step(before, items[k]))
        IN after[Len(items)])

(* The sequences of a sequence, end to end. *)
Joined(ss) == Accumulated(LAMBDA all, s : all \o s, <<>>, ss)

(* Every item replaced by the sequence it stands for, n times over. *)
Expanded(Item(_), s, n) ==
    Accumulated(LAMBDA t, k : Joined([i \in DOMAIN t |-> Item(t[i])]), s, [k \in 1..n |-> k])

(* A set of numbers in order. *)
Ascending(S) ==
    [k \in 1..Cardinality(S) |-> CHOOSE n \in S : Cardinality({m \in S : m < n}) = k - 1]

(* What a list has at some positions, in its order. *)
Picked(s, at) == [k \in 1..Cardinality(at) |-> s[Ascending(at)[k]]]
=============================================================================

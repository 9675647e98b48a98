------------------------------- MODULE Orders -------------------------------
(***************************************************************************)
(* A finite set in an order, and what a list has at some of its places:    *)
(* what sorted() and a comprehension with an if make of a list.            *)
(* Neither is recursive, so that both can be reasoned about.               *)
(***************************************************************************)
EXTENDS Integers, Sequences, FiniteSets

\* The members that come before one of them.  An order is a set of pairs.
Ahead(i, S, order) == {j \in S : <<j, i>> \in order}

\* A set from its first member to its last: the k-th has k - 1 before it.
Ranked(S, order) == [k \in 1..Cardinality(S) |-> CHOOSE i \in S : Cardinality(Ahead(i, S, order)) = k - 1]

Upwards(S) == {p \in S \X S : p[1] < p[2]}

\* The entries of a list at some of its places, in the list's order.
Picked(list, places) == [k \in 1..Cardinality(places) |-> list[Ranked(places, Upwards(places))[k]]]
=============================================================================

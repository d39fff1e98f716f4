------------------------------ MODULE Listing -------------------------------
(***************************************************************************)
(* The lists of message numbers that the drivers make when they scan a     *)
(* base (raw_scan) and shorten when a message is deleted (GTag::Del), and  *)
(* the list of areas, which are numbered in the order of their names.      *)
(***************************************************************************)
EXTENDS Integers, FiniteSets

\* The k-th of a set of numbers.
Nth(S, k) == CHOOSE i \in S : Cardinality({j \in S : j <= i}) = k

\* What a sequence has at the places of a set, in order.
Chosen(seq, S) == [k \in 1..Cardinality(S) |-> seq[Nth(S, k)]]

\* A set of numbers in order.
InOrder(numbers) == Chosen([n \in numbers |-> n], numbers)
=============================================================================

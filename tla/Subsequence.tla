---------------------------- MODULE Subsequence ----------------------------
(***************************************************************************)
(* The part of a sequence that a loop with append collects: the elements   *)
(* at some of its places, in their order.  SelectSeq says the same by      *)
(* recursion, which no theorem can follow; here the place of the k-th one  *)
(* is that with k of the chosen places up to it.                           *)
(***************************************************************************)
EXTENDS Naturals, FiniteSets, Sequences

UpTo(S, i) == {j \in S : j <= i}

\* The members of a finite set of numbers, in their order.
InOrder(S) ==
  [k \in 1 .. Cardinality(S) |-> CHOOSE i \in S : Cardinality(UpTo(S, i)) = k]

\* The elements of s at the places in S.
Select(s, S) == [k \in 1 .. Cardinality(S) |-> s[InOrder(S)[k]]]
=============================================================================

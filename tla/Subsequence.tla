---------------------------- MODULE Subsequence -----------------------------
(***************************************************************************)
(* The part of a sequence that a filter keeps (Rust's iter().filter()), by *)
(* the places it keeps.  It is SelectSeq with a set of places in place of  *)
(* a test: what SelectSeq returns cannot be reasoned about with TLAPS, and *)
(* what these return follows from counting.                                *)
(***************************************************************************)
EXTENDS Integers, Sequences, FiniteSets

(* How many members of K are not above n.                                  *)
Rank(K, n) == Cardinality({m \in K : m <= n})

(* The members of a finite set of numbers in their order.                  *)
InOrder(K) == [k \in 1..Cardinality(K) |-> CHOOSE n \in K : Rank(K, n) = k]

(* What is left of s when only the places in K are kept.                   *)
Kept(s, K) == LET places == InOrder(K) IN [k \in DOMAIN places |-> s[places[k]]]
=============================================================================

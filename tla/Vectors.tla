------------------------------ MODULE Vectors -------------------------------
(***************************************************************************)
(* What the contracts do with the Vec and Map values they keep in storage. *)
(* A Vec is a sequence, a family of storage keys such as Route(name) is a  *)
(* function whose domain is the set of keys present.                       *)
(*                                                                         *)
(* The contracts remove from a Vec by rebuilding it without the unwanted   *)
(* entries.  Without is that loop, written without recursion so that the   *)
(* proofs of VectorLemmas can reason about it.                             *)
(***************************************************************************)
EXTENDS Integers, Sequences, FiniteSets, Functions

\* The elements of s at the positions I, in the same order: the k-th one is
\* the one with k positions of I up to and including its own.
Kept(s, I) ==
    LET rank(i) == Cardinality({j \in I : j <= i})
    IN  [k \in 1 .. Cardinality(I) |-> s[CHOOSE i \in I : rank(i) = k]]

\* s without the elements of R, in the same order.
Without(s, R) == Kept(s, {i \in 1 .. Len(s) : s[i] \notin R})

\* The elements of s that are in S, in the same order.
Among(s, S) == Kept(s, {i \in 1 .. Len(s) : s[i] \in S})

\* Store v under k, whether or not k is present.
Put(f, k, v) == [x \in DOMAIN f \cup {k} |-> IF x = k THEN v ELSE f[x]]

\* Remove the keys of S.
Delete(f, S) == [x \in DOMAIN f \ S |-> f[x]]

=============================================================================

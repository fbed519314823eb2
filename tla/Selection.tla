------------------------------- MODULE Selection -------------------------------
(***************************************************************************)
(* What a condition keeps of a list, in the order of the list.  The k-th   *)
(* element that is kept is the one with k kept elements up to it.          *)
(***************************************************************************)
EXTENDS Naturals, Sequences, FiniteSets

Positions(s, S) == {i \in DOMAIN s : s[i] \in S}

Rank(I, i) == Cardinality({j \in I : j <= i})

Select(s, S) ==
    LET I == Positions(s, S)
    IN  [k \in 1 .. Cardinality(I) |-> s[CHOOSE i \in I : Rank(I, i) = k]]

=============================================================================

----------------------------- MODULE Selection ------------------------------
(***************************************************************************)
(* The elements of a sequence that stand at given places, in their order.  *)
(* This is SelectSeq with a set of places where that has a test of the     *)
(* elements: a test is an operator, about which nothing can be proved.     *)
(***************************************************************************)
EXTENDS Integers, Sequences

\* The numbers from 1 to n that are in P, as a loop over them collects them.
InOrder(P, n) ==
  LET upTo[i \in 0 .. n] ==
        IF i = 0 THEN <<>> ELSE IF i \in P THEN Append(upTo[i - 1], i) ELSE upTo[i - 1]
  IN  upTo[n]

Selected(s, P) ==
  LET places == InOrder(P, Len(s))
  IN  [k \in 1 .. Len(places) |-> s[places[k]]]

=============================================================================

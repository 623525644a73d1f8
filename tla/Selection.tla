----------------------------- MODULE Selection -----------------------------
(* What SelectSeq computes, said with the positions of the elements that    *)
(* are kept, so that more than one element can be looked at, and so that it *)
(* can be reasoned about.                                                   *)
EXTENDS Integers, Sequences

\* The elements of s at the positions in `at', in their order.
Selected(s, at) ==
  LET part[n \in 0 .. Len(s)] ==
        IF n = 0 THEN <<>> ELSE IF n \in at THEN Append(part[n - 1], s[n]) ELSE part[n - 1]
  IN  part[Len(s)]
=============================================================================

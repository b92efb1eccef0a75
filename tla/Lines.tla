------------------------------- MODULE Lines -------------------------------
(* Lists of which a loop keeps some elements, in their order. *)
EXTENDS Integers, Sequences

\* The elements of s that are in S.
Selected(s, S) ==
  LET out[i \in 0..Len(s)] ==
        IF i = 0 THEN <<>>
        ELSE IF s[i] \in S THEN Append(out[i - 1], s[i]) ELSE out[i - 1]
  IN out[Len(s)]
=============================================================================

------------------------------ MODULE Subsequences ------------------------------
(***************************************************************************)
(* What a loop makes of a slice when it appends some of its elements to    *)
(* another and skips the rest.                                             *)
(*                                                                         *)
(* SelectSeq says it of a predicate of the element, and the folds of the   *)
(* community modules of a step; this is a function that the provers can    *)
(* unfold, of the places the loop keeps.                                   *)
(***************************************************************************)
EXTENDS Integers, Sequences

\* The elements of s at the places in keep, in their order.
Pick(s, keep) ==
  LET picked[i \in 0..Len(s)] ==
        IF i = 0 THEN <<>>
        ELSE IF i \in keep THEN Append(picked[i - 1], s[i])
        ELSE picked[i - 1] IN
    picked[Len(s)]

==============================================================================

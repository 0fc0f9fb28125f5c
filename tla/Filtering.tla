----------------------------- MODULE Filtering -----------------------------
(***************************************************************************)
(* Filter(s, S): the elements of s that are in S, in their order.  It is   *)
(* what SelectSeq does, with a set for a test and as a recursive function, *)
(* which the proofs can expand.                                            *)
(***************************************************************************)
EXTENDS Integers, Sequences

Filter(s, S) ==
    LET taken[i \in 0..Len(s)] ==
            IF i = 0 THEN <<>>
            ELSE IF s[i] \in S THEN Append(taken[i - 1], s[i])
            ELSE taken[i - 1]
    IN  taken[Len(s)]
=============================================================================

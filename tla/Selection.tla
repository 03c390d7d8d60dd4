----------------------------- MODULE Selection -----------------------------
(***************************************************************************)
(* Python's list comprehension with a condition, [x for x in s if x in S]: *)
(* SelectSeq of module Sequences, of which the provers know no definition. *)
(***************************************************************************)
EXTENDS Integers, Sequences

(* The elements of the sequence s that are in S, in their order.           *)
Selected(s, S) ==
    LET upTo[i \in 0..Len(s)] ==
            IF i = 0 THEN <<>>
            ELSE IF s[i] \in S THEN Append(upTo[i - 1], s[i]) ELSE upTo[i - 1]
    IN  upTo[Len(s)]
=============================================================================

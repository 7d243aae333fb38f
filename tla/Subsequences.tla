---------------------------- MODULE Subsequences ----------------------------
(* The members of a sequence that are in a set, in their order: SelectSeq   *)
(* with a set for its test, and a definition that proofs can expand.        *)
EXTENDS Naturals, Sequences

Only(s, S) ==
  LET Upto[i \in Nat] ==
        IF i = 0 THEN <<>>
        ELSE IF s[i] \in S THEN Append(Upto[i - 1], s[i]) ELSE Upto[i - 1]
  IN Upto[Len(s)]
=============================================================================

------------------------------ MODULE Recursion ------------------------------
(***************************************************************************)
(* Two recursions that the models share, over the natural numbers so that  *)
(* RecursionLemmas can say what they compute.                              *)
(***************************************************************************)
EXTENDS Naturals, Sequences

(* 2^n *)
Pow2(n) ==
  LET pow[k \in Nat] == IF k = 0 THEN 1 ELSE 2 * pow[k - 1]
  IN  pow[n]

(* What a filter that pushes the elements at the places in I makes of s.   *)
Picked(s, I) ==
  LET kept[k \in Nat] ==
        IF k = 0 THEN <<>>
        ELSE IF k \in I THEN Append(kept[k - 1], s[k]) ELSE kept[k - 1]
  IN  kept[Len(s)]
=============================================================================

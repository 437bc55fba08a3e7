----------------------------- MODULE MCDictObj -----------------------------
(* DictObj with the literals a small program contains.                      *)
EXTENDS DictObj

CONSTANTS a, b, c, d, v1, v2

\* Literals in which no key is repeated.
PlainLiterals ==
  { << >>,
    <<[key |-> a, value |-> v1], [key |-> b, value |-> v2]>>,
    <<[key |-> c, value |-> v2], [key |-> a, value |-> v2],
      [key |-> d, value |-> v1]>> }

\* {"a": v1, "a": v2}
RepeatingLiterals == { <<[key |-> a, value |-> v1], [key |-> a, value |-> v2]>> }
=============================================================================

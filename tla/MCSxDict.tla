------------------------------ MODULE MCSxDict ------------------------------
(* SxDict on a few keys whose probe paths collide and wrap around.          *)
EXTENDS SxDict, TLC

CONSTANTS k1, k2, k3, k4, k5, v1

\* In every table k1 and k2 collide in the last bucket, so that their chain
\* wraps around into k3's and k5's; k4 parts from them when the table doubles.
CollidingHash ==
  [k \in Keys |-> IF k \in {k1, k2} THEN 15 ELSE IF k = k4 THEN 3 ELSE 0]

\* All keys share one probe path, in tables of any size.
OneChainHash == [k \in Keys |-> 2]

Stores(k) == [key |-> k, value |-> v1]

\* What dict_merge is given: entries of which the table may have some, and with
\* which it passes its load factor half way.
MergeSources == {<<Stores(k3), Stores(k1), Stores(k2)>>}

NoSources == {}
=============================================================================

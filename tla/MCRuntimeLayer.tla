--------------------------- MODULE MCRuntimeLayer ---------------------------
(* RuntimeLayer on four manifests over two keys: no faults at all, one     *)
(* fault, two faults with another value for the first, and one with a key  *)
(* expandRuntimeLayer refuses beside a good one.                           *)
EXTENDS RuntimeLayer

CONSTANTS none, one, both, unsafe, k1, k2, up, v1, v2

MCDesired ==
  [m \in {none, one, both, unsafe} |->
     CASE m = none   -> [k \in {k1, k2, up} |-> Absent]
       [] m = one    -> [k \in {k1, k2, up} |-> IF k = k1 THEN v1 ELSE Absent]
       [] m = both   -> [k \in {k1, k2, up} |-> IF k = up THEN Absent ELSE v2]
       [] m = unsafe -> [k \in {k1, k2, up} |-> IF k = k2 THEN Absent ELSE v1]]
=============================================================================

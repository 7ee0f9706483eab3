---------------------------- MODULE MCEventPages ----------------------------
(* Constants for model-checking EventPages: four events, two of which begin at
   the same time. *)
EXTENDS EventPages

CONSTANTS e1, e2, e3, e4
MCEvents == {e1, e2, e3, e4}
MCStartTime ==
  [e \in MCEvents |-> CASE e = e1 -> 1 [] e = e2 -> 2 [] e = e3 -> 3 [] OTHER -> 3]
MCLimits == {-2, -1, 0, 1, 2, 3}
=============================================================================

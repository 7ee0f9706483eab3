------------------------- MODULE MCSeatTransactions -------------------------
(* Constants for model-checking SeatTransactions: every seat belongs to the
   one event e1, except s0 when it is among the seats; it then stands for a
   seat number the event does not have. *)
EXTENDS SeatTransactions, TLC

CONSTANTS e1, e2, s0

MCEventOf == [s \in Seats |-> IF s = s0 THEN e2 ELSE e1]
MCSymmetry == Permutations(Seats \ {s0}) \cup Permutations(Users)
                \cup Permutations(Refs) \cup Permutations(Payments)
=============================================================================

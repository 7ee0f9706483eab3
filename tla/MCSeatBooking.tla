---------------------------- MODULE MCSeatBooking ----------------------------
(* Constants for model-checking SeatBooking: event a has two seats, which can
   be reserved together; b is the event that a client may send by mistake. *)
EXTENDS SeatBooking, TLC

CONSTANTS a, b, s1, s2
MCSeats == {s1, s2}
MCEvents == {a, b}
MCEventOf == [s \in MCSeats |-> a]
MCNumberOf == [s \in MCSeats |-> IF s = s1 THEN "1" ELSE "2"]
MCConfigKeys == {"seetlock"}
MCSymmetry == Permutations(Users) \cup Permutations(Refs) \cup Permutations(Payments)
=============================================================================

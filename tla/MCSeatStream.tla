---------------------------- MODULE MCSeatStream ----------------------------
(* SeatStream for TLC.  Its .cfg gives all constants their values; connections
   are interchangeable, but liveness is checked, so that there is no
   symmetry. *)
EXTENDS SeatStream
=============================================================================

-------------------------- MODULE MCEventListings --------------------------
(* EventListings for TLC.  Its .cfg gives all constants their values; requests of one
   kind are interchangeable, but liveness is checked, so that there is no
   symmetry. *)
EXTENDS EventListings
=============================================================================

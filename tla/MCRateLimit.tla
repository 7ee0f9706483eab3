---------------------------- MODULE MCRateLimit ----------------------------
(* Constants for model-checking RateLimit: users, and addresses, are
   interchangeable. *)
EXTENDS RateLimit, TLC

MCSymmetry == Permutations(Users) \cup Permutations(Ips)
=============================================================================

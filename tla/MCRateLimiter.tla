---------------------------- MODULE MCRateLimiter ----------------------------
(***************************************************************************)
(* The instance of RateLimiter for TLC.  Client addresses are              *)
(* interchangeable.                                                        *)
(***************************************************************************)
EXTENDS RateLimiter, TLC

Symmetry == Permutations(Clients)
=============================================================================

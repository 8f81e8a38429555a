---------------------------- MODULE MCForecastCache ----------------------------
(* A small instance of ForecastCache for TLC. *)
EXTENDS ForecastCache, TLC

Symmetry == Permutations(Requests)
=============================================================================

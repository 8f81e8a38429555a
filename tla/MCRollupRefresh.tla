---------------------------- MODULE MCRollupRefresh -----------------------------
(* Instances of RollupRefresh: three instants, the last two of one recent   *)
(* day and of different hours.                                              *)
EXTENDS RollupRefresh

MCBucket == [hourly |-> <<1, 2, 3>>, daily |-> <<1, 2, 2>>]
=============================================================================

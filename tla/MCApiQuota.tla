------------------------------- MODULE MCApiQuota -------------------------------
(* Two requests of callers with or without a key; the caches remember for    *)
(* one minute, as in the code.                                               *)
EXTENDS ApiQuota, TLC

Symmetry == Permutations(Requests) \cup Permutations(Ips) \cup Permutations(ApiKeys)
=============================================================================

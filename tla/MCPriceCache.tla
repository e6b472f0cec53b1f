---------------------------- MODULE MCPriceCache ----------------------------
(* Model-checking instance of PriceCache. *)
EXTENDS PriceCache, TLC

CacheSymmetry == Permutations(Requests) \cup Permutations(Keys)
=============================================================================

---------------------------- MODULE MCQuoteForm ----------------------------
(* Model-checking instance of QuoteForm: two chains and the token that     *)
(* each starts with, which is in no list of the other.                     *)
EXTENDS QuoteForm, TLC

MCChains == {"ethereum", "base"}
MCFirst  == "ethereum"
MCTokens == {"usdc", "usdbc"}
MCPair   == [c \in MCChains |-> IF c = "base" THEN "usdbc" ELSE "usdc"]
MCSymmetry == Permutations(Submits)
MCListed == {<<"usdc", "ethereum">>, <<"usdbc", "base">>}
=============================================================================

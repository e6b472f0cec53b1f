------------------------- MODULE MCBackgroundWarmup -------------------------
(* Model-checking instance of BackgroundWarmup: one prewarm that may raise *)
(* (uniswap) and two that may not stand for the six of the source.         *)
EXTENDS BackgroundWarmup

MCPrewarms == {"uniswap", "compound", "aave"}
MCFallible == {"uniswap"}
=============================================================================

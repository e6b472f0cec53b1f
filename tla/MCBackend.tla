----------------------------- MODULE MCBackend -----------------------------
(* Model-checking instance of Backend: two prewarms, one may raise, and    *)
(* the two required prewarms of Base.                                      *)
EXTENDS Backend

MCPrewarms == {"uniswap", "compound"}
MCFallible == {"uniswap"}
MCRequired == {"curve", "usdc"}
=============================================================================

--------------------------- MODULE MCCheckBucket ---------------------------
(* Model-checking instance of CheckBucket: one address in two spellings,   *)
(* and another address.                                                    *)
EXTENDS CheckBucket

MCSpellings == {"0xAB", "0xab", "0xcd"}
MCAddress(s) == IF s = "0xAB" THEN "0xab" ELSE s
=============================================================================

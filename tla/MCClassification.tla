--------------------------- MODULE MCClassification ---------------------------
(* Three classifications over two permits and a line of one; two spellings *)
(* of one address.                                                         *)
EXTENDS Classification

MCAddress(s) == "usdc"
=============================================================================

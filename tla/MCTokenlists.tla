---------------------------- MODULE MCTokenlists ----------------------------
(* Model-checking instance of Tokenlists: a URL and a file, whose lists     *)
(* have different names.                                                    *)
EXTENDS Tokenlists

MCUrls  == {"u1"}
MCFiles == {"f1"}
MCName  == [s \in MCUrls \cup MCFiles |-> s]
=============================================================================

----------------------------- MODULE MCIkeClient -----------------------------
(* An instance of IkeClient for TLC: the gateway says anything it likes.   *)
EXTENDS IkeClient

CONSTANT n1

OneNetwork == <<n1>>
=============================================================================

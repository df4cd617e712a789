----------------------------- MODULE MCIkeTunnel -----------------------------
(* Instances of IkeTunnel for TLC.                                         *)
EXTENDS IkeTunnel

CONSTANTS n1, n2

NoNetwork == <<>>
OneNetwork == <<n1>>
TwoNetworks == <<n1, n2>>
=============================================================================

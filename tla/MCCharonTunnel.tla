--------------------------- MODULE MCCharonTunnel ---------------------------
(* Instances of CharonTunnel for TLC.                                      *)
EXTENDS CharonTunnel

\* A pre-shared key with EAP, and a certificate.
SomeCredentials == {{"psk", "eap"}, {"key"}}
=============================================================================

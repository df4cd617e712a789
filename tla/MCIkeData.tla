----------------------------- MODULE MCIkeData -----------------------------
(* Instances of IkeData for TLC.                                           *)
EXTENDS IkeData

Aes(bits) == Word("cipher", [id |-> "aes", bits |-> bits, aead |-> FALSE])
Gcm(bits) == Word("cipher", [id |-> "gcm", bits |-> bits, aead |-> TRUE])
ChaCha == Word("cipher", [id |-> "chacha", bits |-> 0, aead |-> TRUE])
Sha == Word("integrity", "sha256")
PrfSha == Word("prf", "sha256")
Group(g) == Word("group", g)

\* Sets that differ in the key length only, in the group only, and a cipher
\* without a key length; then settings that make no algorithms.
SomeSettings ==
  {[ike |-> <<<<Aes(256), Sha, Group("g1")>>, <<Aes(128), Sha, Group("g1")>>>>,
    esp |-> <<<<Aes(256), Sha, Group("g1")>>, <<Aes(128), Sha, Group("g2")>>>>,
    method |-> "mschapv2"],
   [ike |-> <<<<Gcm(256), Sha, Group("g1")>>, <<ChaCha, PrfSha, Group("g2")>>>>,
    esp |-> <<<<ChaCha>>, <<Gcm(256), Group("g1")>>>>,
    method |-> "any"],
   [ike |-> <<<<Aes(128), Sha, Group("g1")>>, <<Gcm(128), Group("g1")>>>>,
    esp |-> <<<<Aes(128), Sha>>>>,
    method |-> "gtc"]}

T(kind, id, bits) == Transform(kind, id, bits)

\* Answers that are none of our proposals.
SomeForeign ==
  {[Proposal("ike", {T("cipher", "aes", 256), T("prf", "sha256", 0), T("integrity", "sha256", 0),
                     T("group", "g1", 0)}) EXCEPT !.foreign = TRUE],
   Proposal("esp", {T("cipher", "aes", 192), T("integrity", "sha256", 0), T("esn", "no", 0)}),
   Proposal("esp", {T("cipher", "chacha", 0), T("esn", "yes", 0)})}

\* A proposal with a choice; one for a group we do not have, then one we do.
SomeIkeOffers ==
  {<<Proposal("ike", {T("cipher", "aes", 128), T("cipher", "gcm", 256), T("prf", "sha256", 0),
                      T("integrity", "sha256", 0), T("group", "g1", 0), T("group", "g2", 0)})>>,
   <<Proposal("ike", {T("cipher", "chacha", 0), T("prf", "sha256", 0), T("group", "g9", 0)}),
     Proposal("ike", {T("cipher", "chacha", 0), T("prf", "sha256", 0), T("group", "g2", 0)})>>,
   <<[Proposal("ike", {T("cipher", "aes", 256), T("prf", "sha256", 0), T("integrity", "sha256", 0),
                       T("group", "g1", 0)}) EXCEPT !.spi = FALSE]>>}

SomeEspOffers ==
  {<<Proposal("esp", {T("cipher", "aes", 128), T("integrity", "sha256", 0), T("esn", "no", 0),
                      T("cipher", "chacha", 0)})>>,
   <<Proposal("esp", {T("cipher", "aes", 256), T("integrity", "sha256", 0), T("group", "g1", 0),
                      T("group", "g2", 0), T("cipher", "gcm", 256)})>>}

\* Long EAP conversations; many requests on both sides; much traffic.
SomeLoads ==
  {[rounds |-> 5, asks |-> 0, orders |-> 0, traffic |-> FALSE],
   [rounds |-> 2, asks |-> 0, orders |-> 3, traffic |-> FALSE],
   [rounds |-> 2, asks |-> 0, orders |-> 1, traffic |-> TRUE]}
=============================================================================

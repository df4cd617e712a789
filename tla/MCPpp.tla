------------------------------- MODULE MCPpp -------------------------------
(* Instances of Ppp for TLC: what the gateway's packets may hold.          *)
EXTENDS Ppp

Opt(k, v) == [kind |-> k, value |-> v]

\* LCP: options we take, and our own magic number together with an MRU too
\* large to take from a Nak.
LcpVaried == {<<Opt("mru", 0), Opt("magic", OurMagic + 1)>>,
              <<Opt("magic", OurMagic), Opt("mru", DefaultMru + 1)>>}

\* IPCP: nothing, an address and a nameserver, and options that are refused
\* as requests and ignored as suggestions.
IpcpVaried == {<<>>, <<Opt("address", 5), Opt("dns1", 6)>>,
               <<Opt("address", Unspecified), Opt("dns1", Wrong)>>}
=============================================================================

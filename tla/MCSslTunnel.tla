---------------------------- MODULE MCSslTunnel ----------------------------
(* Instances of SslTunnel for TLC.                                         *)
EXTENDS SslTunnel

Search(words) == Line("search", words)
Server(s) == Line("nameserver", <<s>>)

\* Hosts: a default route with and without a metric, one more default route
\* behind it, a route to the gateway or to a network that exists already.
PlainHost == {Route("default", "eth", 0)}
MetricHost == {Route("default", "eth", 100)}
BusyHost == {Route("default", "eth", 0), Route("default", "other", 100),
             Route("gateway", "other", 0), Route("net", "other", 0)}

Resolv == <<Search(<<"home">>), Server("s0")>>

\* A configuration with everything at its usual value.
Usual ==
  [login |-> "password", otp |-> FALSE, push |-> FALSE, v4 |-> TRUE,
   platform |-> "linux", routing |-> "full", networks |-> {}, peerIsGateway |-> FALSE,
   dns |-> "file", servers |-> <<"s1">>, domains |-> <<"vpn">>,
   table |-> PlainHost, resolv |-> Resolv]

\* Each of the others differs from it in what one part of the code looks at.
VariedConfigs == {
  [Usual EXCEPT !.otp = TRUE, !.push = TRUE, !.routing = "off", !.dns = "off"],
  [Usual EXCEPT !.push = TRUE, !.routing = "off", !.dns = "off"],
  [Usual EXCEPT !.login = "cookie", !.table = MetricHost, !.dns = "resolvconf"],
  [Usual EXCEPT !.login = "cookie", !.table = {}, !.resolv = <<>>,
                !.servers = <<"s1", "s0">>],
  [Usual EXCEPT !.login = "cookie", !.platform = "bsd", !.peerIsGateway = TRUE,
                !.servers = <<"s1", "s0">>, !.domains = <<"vpn", "home">>],
  [Usual EXCEPT !.login = "cookie", !.routing = "half", !.dns = "resolvectl",
                !.table = BusyHost, !.peerIsGateway = TRUE],
  [Usual EXCEPT !.login = "cookie", !.routing = "half", !.peerIsGateway = TRUE,
                !.resolv = <<Server("s1"), Server("s0")>>],
  [Usual EXCEPT !.login = "cookie", !.table = BusyHost, !.domains = <<>>],
  [Usual EXCEPT !.login = "saml", !.networks = {"net", "gateway"}, !.dns = "off"],
  [Usual EXCEPT !.login = "cookie", !.networks = {"net", "lan"}, !.platform = "bsd",
                !.table = BusyHost \ {Route("default", "other", 100)}],
  [Usual EXCEPT !.login = "cookie", !.networks = {"default"}, !.table = MetricHost,
                !.dns = "off"],
  [Usual EXCEPT !.login = "cookie", !.networks = {"low", "high"}, !.peerIsGateway = TRUE,
                !.dns = "off"],
  [Usual EXCEPT !.login = "cookie", !.networks = {"around"}, !.dns = "off"],
  [Usual EXCEPT !.login = "cookie", !.v4 = FALSE]}

SomeBatches == {<<"send">>, <<"up">>, <<"up", "deliver">>, <<"send", "up", "down", "send">>,
                <<"down">>}

SomeOther == Server("s2")
=============================================================================

------------------------------ MODULE HostNet ------------------------------
(***************************************************************************)
(* What a tunnel does to the host: the routes of net/src/routes.rs, the    *)
(* nameservers of net/src/dns.rs and the interface of net/src/tun.rs.      *)
(*                                                                         *)
(* A host h is a record.  What anybody on the machine sees:                *)
(*   tun       the tunnel's interface exists                               *)
(*   table     the routing table                                           *)
(*   resolv    the lines of /etc/resolv.conf                               *)
(*   record    resolvconf has a record of ours                             *)
(* What the client remembers of its own doing, to undo it:                 *)
(*   gateway, networks, replaced   the fields of struct Routes             *)
(*   dns                           enum Installed                          *)
(* Every command the client runs may fail: f is the set of the names of    *)
(* those that do.  An operator stands for one function of the code.        *)
(***************************************************************************)
EXTENDS Vec, SequencesExt

CONSTANTS
  Networks,   \* networks the gateway may ask to have routed into the tunnel
  Around,     \* those its own address is in, but for the halves and the default
  Names,      \* addresses of nameservers, and domains
  NoRoute     \* a model value: no default route is remembered

\* The gateway's own address may be among the networks, and so may the default
\* route and the two halves of the address space.
Destinations == Networks \cup {"default", "gateway", "low", "high"}

\* The commands that set up routes, by what they are for, and those for DNS.
RouteCommands ==
  {"get", "delvia", "getagain", "pin", "default", "show", "replace", "low", "high"}
    \cup Networks
DnsCommands == {"dns", "domain"}

\* A route: its next hop is taken to be its interface.
Route(dest, dev, metric) == [dest |-> dest, dev |-> dev, metric |-> metric]

Routes == [dest : Destinations, dev : {"eth", "other", "tun"}, metric : Nat]

Defaults(table) == {r \in table : r.dest = "default"}

\* A table as the system has it before there is a tunnel: one route to a
\* destination with a metric and, elsewhere than on Linux, one default route.
Ordinary(table, platform) ==
  /\ table \subseteq Routes
  /\ \A r \in table : r.dev # "tun"
  /\ \A r, s \in table : r.dest = s.dest /\ r.metric = s.metric => r = s
  /\ platform # "linux" => \A r, s \in Defaults(table) : r = s

\* A route added without a metric gets metric 0, and the system refuses a
\* second one to the same destination ("File exists").
Exists(table, dest) == \E r \in table : r.dest = dest /\ r.metric = 0

Best(routes) == CHOOSE r \in routes : \A s \in routes : r.metric <= s.metric

\* `ip route get`: the most specific route to the gateway.  The two halves of
\* the address space together are more specific than a default route.
Towards(table) ==
  LET pins == {r \in table : r.dest = "gateway"}
      around == {r \in table : r.dest \in Around}
      halves == {r \in table : r.dest \in {"low", "high"}}
  IN  IF pins # {} THEN Best(pins)
      ELSE IF around # {} THEN Best(around)
      ELSE IF halves # {} THEN Best(halves)
      ELSE IF Defaults(table) # {} THEN Best(Defaults(table))
      ELSE NoRoute

NothingInstalled == [tool |-> "none", added |-> {}, search |-> <<>>]

\* Tun::create; a peer address equal to the gateway's brings a route to it
\* through the interface, set by the kernel.
CreateTun(h, peerIsGateway) ==
  [h EXCEPT !.tun = TRUE,
            !.table = IF peerIsGateway /\ ~Exists(h.table, "gateway")
                      THEN @ \cup {Route("gateway", "tun", 0)} ELSE @]

\* Dropping the interface takes its routes along.
DropTun(h) ==
  [h EXCEPT !.tun = FALSE, !.table = {r \in @ : r.dev # "tun"}]

-----------------------------------------------------------------------------
\* Routes.

\* The wrong route to the gateway is removed; what is left of the table.
Unwrapped(h, f) ==
  IF "delvia" \in f THEN h.table ELSE h.table \ {Route("gateway", "tun", 0)}

\* A plausible mistake: a route that existed is remembered as ours.
ProtectGatewayGreedily(h, f) ==
  LET first == Towards(h.table)
      wrong == first # NoRoute /\ first.dev = "tun"
      table == IF wrong THEN Unwrapped(h, f) ELSE h.table
      current == Towards(table)
  IN  IF "get" \in f \/ first = NoRoute
      THEN <<h, FALSE>>
      ELSE IF \/ wrong /\ {"delvia", "getagain"} \cap f # {}
              \/ current = NoRoute
              \/ current # NoRoute /\ current.dev = "tun"
              \/ "pin" \in f
      THEN <<[h EXCEPT !.table = table], FALSE>>
      ELSE IF Exists(table, "gateway")
      THEN <<[h EXCEPT !.table = table, !.gateway = TRUE], TRUE>>
      ELSE <<[h EXCEPT !.table = table \cup {Route("gateway", current.dev, 0)},
                       !.gateway = TRUE], TRUE>>

\* protect_gateway: <<the host, whether the gateway is protected>>.
ProtectGateway(h, f) ==
  LET first == Towards(h.table)
      wrong == first # NoRoute /\ first.dev = "tun"
      table == IF wrong THEN Unwrapped(h, f) ELSE h.table
      current == Towards(table)
  IN  IF "get" \in f \/ first = NoRoute
      THEN <<h, FALSE>>
      ELSE IF \/ wrong /\ {"delvia", "getagain"} \cap f # {}
              \/ current = NoRoute
              \/ current # NoRoute /\ current.dev = "tun"
              \/ "pin" \in f
      THEN <<[h EXCEPT !.table = table], FALSE>>
      ELSE IF Exists(table, "gateway")
      THEN <<[h EXCEPT !.table = table], TRUE>>
      ELSE <<[h EXCEPT !.table = table \cup {Route("gateway", current.dev, 0)},
                       !.gateway = TRUE], TRUE>>

\* add, for several networks: those that exist already are left alone and
\* not remembered.
AddNetworks(h, nets, f) ==
  LET new == {n \in nets \ f : ~Exists(h.table, n)}
  IN  [h EXCEPT !.table = @ \cup {Route(n, "tun", 0) : n \in new},
                !.networks = @ \cup new]

\* replace_default on Linux: a default route of metric 0 is replaced and
\* remembered; one with a metric stays behind ours.
ReplaceDefaultLinux(h, f) ==
  LET current == Best(Defaults(h.table))
  IN  IF "default" \in f THEN h
      ELSE IF ~Exists(h.table, "default")
      THEN [h EXCEPT !.table = @ \cup {Route("default", "tun", 0)}]
      ELSE IF {"show", "replace"} \cap f # {} THEN h
      ELSE [h EXCEPT !.table = (@ \ {current}) \cup {Route("default", "tun", 0)},
                     !.replaced = current]

\* replace_default elsewhere: there is one default route, deleted first.
ReplaceDefaultBsd(h, f) ==
  LET current == Best(Defaults(h.table))
      ours == IF "default" \in f THEN {} ELSE {Route("default", "tun", 0)}
  IN  IF Defaults(h.table) = {} \/ {"show", "replace"} \cap f # {} THEN h
      ELSE [h EXCEPT !.table = (@ \ {current}) \cup ours, !.replaced = current]

ReplaceDefault(h, platform, f) ==
  IF platform = "linux" THEN ReplaceDefaultLinux(h, f) ELSE ReplaceDefaultBsd(h, f)

\* set_default: the second half is not tried when the first one failed.
SetDefault(h, platform, half, f) ==
  IF half THEN AddNetworks(h, IF "low" \in f THEN {} ELSE {"low", "high"}, f)
  ELSE ReplaceDefault(h, platform, f)

\* A plausible mistake: everything is routed past an unprotected gateway.
SetRoutesAnyway(h, protected, platform, half, nets, f) ==
  IF nets = {} THEN SetDefault(h, platform, half, f)
  ELSE AddNetworks(h, nets \ {"gateway"}, f)

\* set_routes of the SSL VPN tunnel, after protect_gateway: everything, but
\* only past a protected gateway, or the networks the gateway named, whatever
\* they are: the code only warns when the gateway could not be protected.
SetRoutes(h, protected, platform, half, nets, f) ==
  IF nets = {}
  THEN IF protected THEN SetDefault(h, platform, half, f) ELSE h
  ELSE AddNetworks(h, nets \ {"gateway"}, f)

\* put_default_back, the table: on Linux one command replaces the route of the
\* same metric.
PutDefaultBackLinux(h, f) ==
  IF "back" \in f THEN h.table
  ELSE {r \in h.table : r.dest # "default" \/ r.metric # h.replaced.metric}
         \cup {h.replaced}

\* Elsewhere the route is deleted first, and a failure to add leaves none.
PutDefaultBackBsd(h, f) ==
  (h.table \ Defaults(h.table)) \cup (IF "back" \in f THEN {} ELSE {h.replaced})

PutDefaultBack(h, platform, f) ==
  IF h.replaced = NoRoute THEN h.table
  ELSE IF platform = "linux" THEN PutDefaultBackLinux(h, f) ELSE PutDefaultBackBsd(h, f)

\* restore.
RestoreRoutes(h, platform, f) ==
  LET fewer == [h EXCEPT !.table = @ \ {Route(n, "tun", 0) : n \in h.networks \ f},
                         !.networks = {}]
      table == PutDefaultBack(fewer, platform, f)
      pin == {r \in table : h.gateway /\ r.dest = "gateway" /\ r.metric = 0}
  IN  [fewer EXCEPT !.table = IF "unpin" \in f THEN table ELSE table \ pin,
                    !.replaced = NoRoute, !.gateway = FALSE]

-----------------------------------------------------------------------------
\* Nameservers.  A line of resolv.conf is a keyword and its words.

Line(key, words) == [key |-> key, words |-> words]
Lines == [key : {"search", "nameserver", "other"}, words : Seq(Names)]

\* The usual resolv.conf: of two search lines the last one counts.
OneSearch(lines) ==
  \A i, j \in DOMAIN lines : lines[i].key = "search" /\ lines[j].key = "search" => i = j

\* edit_resolv_conf: our domains go first on the search line, the servers
\* that are missing go to the top of the file, each once.
EditResolvConf(lines, servers, domains) ==
  LET at == SelectInSeq(lines, LAMBDA l : l.key = "search")
      kept == IF at = 0 THEN <<>>
              ELSE Retained(lines[at].words, {k \in DOMAIN lines[at].words :
                                                lines[at].words[k] \notin ToSet(domains)})
      ours == Line("search", domains \o kept)
      searched == IF domains = <<>> THEN lines
                  ELSE IF at = 0 THEN <<ours>> \o lines
                  ELSE ReplaceAt(lines, at, ours)
      ServerLine(k) == Line("nameserver", <<servers[k]>>)
      missing == {k \in DOMAIN servers :
                    /\ ServerLine(k) \notin ToSet(searched)
                    /\ \A j \in DOMAIN servers : j > k => servers[j] # servers[k]}
      served == Retained([k \in DOMAIN servers |-> ServerLine(k)], missing) \o searched
  IN  [lines |-> served,
       added |-> (IF domains = <<>> THEN {} ELSE {ours})
                   \cup (ToSet(served) \ ToSet(searched)),
       search |-> IF domains = <<>> \/ at = 0 THEN <<>> ELSE <<lines[at]>>]

\* A plausible mistake: the search line that was replaced does not come back.
RestoreServersOnly(lines, added, search) ==
  SelectSeq(lines, LAMBDA l : l \notin added)

\* restore_resolv_conf: our lines go, the search line we replaced comes back
\* in the place of ours, whatever else the file holds by now stays.
RestoreResolvConf(lines, added, search) ==
  LET Stays(l) == l \notin added \/ (search # <<>> /\ l.key = "search")
      rest == Retained(lines, {i \in DOMAIN lines : Stays(lines[i])})
  IN  IF added = {} THEN lines
      ELSE [i \in DOMAIN rest |-> IF rest[i] \in added THEN search[1] ELSE rest[i]]

\* Dns::install with the tool the host has.  Settings made with resolvectl
\* belong to the interface and go with it.
InstallDns(h, tool, servers, domains, f) ==
  LET edit == EditResolvConf(h.resolv, servers, domains)
  IN  IF "dns" \in f \/ (servers = <<>> /\ domains = <<>>) THEN h
      ELSE CASE tool = "resolvconf" ->
                  [h EXCEPT !.record = TRUE, !.dns.tool = tool]
             [] tool = "resolvectl" ->
                  IF domains # <<>> /\ "domain" \in f THEN h
                  ELSE [h EXCEPT !.dns.tool = tool]
             [] tool = "file" ->
                  [h EXCEPT !.resolv = edit.lines,
                            !.dns = [tool |-> "file", added |-> edit.added,
                                     search |-> edit.search]]

\* Dns::remove.
RemoveDns(h, f) ==
  LET gone == [h EXCEPT !.dns = NothingInstalled]
  IN  IF "undns" \in f THEN gone
      ELSE CASE h.dns.tool = "resolvconf" -> [gone EXCEPT !.record = FALSE]
             [] h.dns.tool = "file" ->
                  [gone EXCEPT !.resolv =
                     RestoreResolvConf(@, h.dns.added, h.dns.search)]
             [] OTHER -> gone
=============================================================================

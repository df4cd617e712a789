----------------------------- MODULE SslTunnel -----------------------------
(***************************************************************************)
(* The SSL VPN from the command line down to the host: `run` and `Link` of *)
(* sslvpn/src/tunnel.rs, over Portal (login and logout), HostNet (what is  *)
(* done to the host) and Supervisor (attempts and signals).                *)
(*                                                                         *)
(* PPP itself is module Ppp.  What is used of it here is what is proved    *)
(* there: it reports Up once (UpOnce) and, once closed, neither Up nor a   *)
(* packet (QuietAfterClose), so that closing the link touches no host.     *)
(***************************************************************************)
EXTENDS Supervisor, Portal, HostNet, FiniteSets

CONSTANTS
  Configs,         \* settings, together with the host and the gateway met
  Batches,         \* lists of what PPP may ask for at once
  MaxFailures,     \* commands that may fail in one function
  MaxBadRequests,  \* MAX_BAD_REQUESTS
  OtherLine        \* a line another program may add to resolv.conf

\* Commands that fail in one function.
Failures(commands) == {f \in SUBSET commands : Cardinality(f) <= MaxFailures}
RouteFailures == Failures(RouteCommands)
DnsFailures == Failures(DnsCommands)
RestoreFailures == Failures({"back", "unpin"} \cup (Destinations \ {"gateway"}))

ASSUME MaxBadRequestsAssumption == MaxBadRequests \in Nat \ {0}

ASSUME ConfigsAssumption ==
  /\ NoRoute \notin Routes
  /\ \A c \in Configs :
       /\ Ordinary(c.table, c.platform)
       /\ c.networks \subseteq Networks
       /\ c.dns \in {"off", "file", "resolvconf", "resolvectl"}

\* The resolv.conf there is has one search line at most, and what others add
\* to it is no other search line.
ASSUME ResolvAssumption ==
  /\ \A c \in Configs :
       /\ c.resolv \in Seq(Lines) /\ OneSearch(c.resolv)
       /\ c.servers \in Seq(Names) /\ c.domains \in Seq(Names)
  /\ OtherLine \in Lines /\ OtherLine.key # "search"

\* PPP reports Up once (UpOnce of module Ppp), hence not twice in a list.
ASSUME BatchesAssumption ==
  \A b \in Batches :
    /\ b \in Seq({"send", "deliver", "up", "down"})
    /\ \A i, j \in DOMAIN b : b[i] = "up" /\ b[j] = "up" => i = j

VARIABLES
  at,        \* where `run` waits: see the actions
  bad,       \* redirects that were none (saml)
  todo,      \* what perform has still to carry out
  wasUp,     \* PPP has reported Up in this link
  outcome,   \* what Link::run or the setup returned
  host,      \* the host, see HostNet
  before,    \* history: what others see of the host, had this tunnel not come up
  spoiled,   \* history: a command that restores the host failed
  exposed    \* history: networks were routed past an unprotected gateway

hostVars == <<host, before, spoiled, exposed>>
linkVars == <<todo, wasUp>>
vars == <<supVars, config, portalVars, at, bad, linkVars, outcome, hostVars>>

\* What others see of the host, and what a tunnel has to put back.
Visible(h) == [table |-> h.table, resolv |-> h.resolv, record |-> h.record]

NewHost(c) ==
  [tun |-> FALSE, table |-> c.table, resolv |-> c.resolv, record |-> FALSE,
   gateway |-> FALSE, networks |-> {}, replaced |-> NoRoute, dns |-> NothingInstalled]

Init ==
  /\ SupInit
  /\ config \in Configs
  /\ step = "idle" /\ stream = FALSE /\ retried = FALSE /\ code = "none"
  /\ cookie = FALSE /\ logout = "none"
  /\ session = IF config.login = "cookie" THEN "open" ELSE "none"
  /\ at = "none" /\ bad = 0 /\ todo = <<>> /\ wasUp = FALSE /\ outcome = "none"
  /\ host = NewHost(config) /\ before = Visible(host) /\ spoiled = FALSE
  /\ exposed = FALSE

-----------------------------------------------------------------------------
\* An attempt begins and ends.

\* run up to its first wait: for the browser, or in the portal.
StartAttempt ==
  /\ Answered \/ WakeUp
  /\ IF config.login = "saml"
     THEN at' = "saml" /\ bad' = 0 /\ UNCHANGED portalVars
     ELSE at' = "setup" /\ StartPortal /\ UNCHANGED bad
  /\ UNCHANGED <<config, linkVars, outcome, hostVars>>

\* run returns to keep_running.
Returns(result) ==
  /\ at' = "none" /\ outcome' = "none"
  /\ step' = "idle" /\ stream' = FALSE /\ retried' = FALSE /\ code' = "none"
  /\ Ends(result)
  /\ UNCHANGED <<cookie, session, logout>>

\* A plausible mistake: only a tunnel that ran logs out.
LogOutAfterTunnel(result) ==
  IF cookie /\ result # "error"
  THEN at' = "logout" /\ StartLogout /\ outcome' = result /\ UNCHANGED supVars
  ELSE Returns(result)

\* The end of run: a session that is known is logged out first.
LogOutAndReturn(result) ==
  IF cookie
  THEN at' = "logout" /\ StartLogout /\ outcome' = result /\ UNCHANGED supVars
  ELSE Returns(result)

-----------------------------------------------------------------------------
\* wait_for_session and redirect::wait_for.

\* A plausible mistake: one bad request more is accepted than counted.
SamlRequestTolerant(good) ==
  /\ at = "saml"
  /\ IF good
     THEN at' = "setup" /\ bad' = 0 /\ StartPortal /\ UNCHANGED <<outcome, supVars>>
     ELSE /\ bad' = bad + 1
          /\ IF bad < MaxBadRequests
             THEN UNCHANGED <<at, outcome, portalVars, supVars>>
             ELSE Returns("error")
  /\ UNCHANGED <<config, linkVars, hostVars>>

\* The browser brings the session id back, or something else.
SamlRequest(good) ==
  /\ at = "saml"
  /\ IF good
     THEN at' = "setup" /\ bad' = 0 /\ StartPortal /\ UNCHANGED <<outcome, supVars>>
     ELSE /\ bad' = bad + 1
          /\ IF bad + 1 < MaxBadRequests
             THEN UNCHANGED <<at, outcome, portalVars, supVars>>
             ELSE Returns("error")
  /\ UNCHANGED <<config, linkVars, hostVars>>

\* The port cannot be bound.
SamlUnavailable ==
  /\ at = "saml" /\ bad = 0
  /\ Returns("error")
  /\ UNCHANGED <<config, bad, linkVars, hostVars>>

CancelSaml ==
  /\ at = "saml" /\ cancelled
  /\ Returns("stopped")
  /\ UNCHANGED <<config, bad, linkVars, hostVars>>

-----------------------------------------------------------------------------
\* The set-up over the portal, raced with the token.

Elsewhere == UNCHANGED <<supVars, at, bad, linkVars, outcome, hostVars>>

InPortal == at \in {"setup", "logout"}

PortalConnect == InPortal /\ (\E ok \in BOOLEAN : Connect(ok)) /\ Elsewhere
PortalBroken == InPortal /\ (\E processed \in BOOLEAN : Broken(processed)) /\ Elsewhere
PortalMalformed == InPortal /\ Malformed /\ Elsewhere
PortalRefusal == InPortal /\ OnRefusal /\ Elsewhere
PortalBadForm == InPortal /\ OnBadForm /\ Elsewhere
PortalOtpForm == InPortal /\ OnOtpForm(first) /\ Elsewhere
PortalToken == InPortal /\ (\E token \in {"push", "code"} : OnToken(token, first)) /\ Elsewhere
PortalCookie == InPortal /\ (\E check \in BOOLEAN : OnCookie(check)) /\ Elsewhere
PortalPrompt == InPortal /\ (\E ok \in BOOLEAN : OnPrompt(ok)) /\ Elsewhere
PortalReply == InPortal /\ (\E ok \in BOOLEAN : OnReply(ok)) /\ Elsewhere
PortalConfig == InPortal /\ (\E ok \in BOOLEAN : OnConfig(ok)) /\ Elsewhere
PortalStart == InPortal /\ (\E ok \in BOOLEAN : StartTunnel(ok)) /\ Elsewhere
PortalLogout == InPortal /\ (\E ok \in BOOLEAN : OnLogoutReply(ok)) /\ Elsewhere

SetupFails ==
  /\ at = "setup" /\ step = "failed"
  /\ LogOutAndReturn("error")
  /\ UNCHANGED <<config, bad, linkVars, hostVars>>

\* Link::new and the start of Link::run: PPP asks for its first request to be sent.
SetupReady ==
  /\ at = "setup" /\ step = "ready"
  /\ at' = "perform" /\ step' = "idle" /\ todo' = <<"send">> /\ wasUp' = FALSE
  /\ UNCHANGED <<supVars, config, stream, retried, code, cookie, session, logout, bad,
                 outcome, hostVars>>

\* The set-up is dropped wherever it waits.  A prompt on the terminal, unlike one
\* of pinentry, goes on in its thread: keep_running returns, and the end of the
\* runtime waits for the user, with nobody left to look at a signal.
CancelSetup ==
  /\ at = "setup" /\ step \notin {"failed", "ready"} /\ cancelled
  /\ \/ LogOutAndReturn("stopped")
     \/ step \in Prompts /\ at' = "lingering" /\ UNCHANGED <<supVars, portalVars, outcome>>
  /\ UNCHANGED <<config, bad, linkVars, hostVars>>

\* The user answers all the same.
PromptEnds ==
  /\ at = "lingering"
  /\ Returns("stopped")
  /\ UNCHANGED <<config, bad, linkVars, hostVars>>

-----------------------------------------------------------------------------
\* Link::run and perform.

\* What is left to perform; with nothing left, the loop waits again.
Continue(rest) == todo' = rest /\ at' = IF rest = <<>> THEN "link" ELSE "perform"

\* A plausible mistake: an error leaves Link::run past the teardown.
LinkEndsAbruptly(result) ==
  /\ outcome' = result /\ todo' = <<>> /\ wasUp' = FALSE
  /\ at' = IF host.tun /\ result # "error" THEN "undns" ELSE "close"

\* Link::run returns, and teardown begins.
LinkEnds(result) ==
  /\ outcome' = result /\ todo' = <<>> /\ wasUp' = FALSE
  /\ at' = IF host.tun THEN "undns" ELSE "close"

\* PPP has something to be done, on a packet or a deadline.
PppActs(batch) ==
  /\ at = "link"
  /\ (\E i \in DOMAIN batch : batch[i] = "up") => ~wasUp
  /\ Continue(batch)
  /\ wasUp' = (wasUp \/ \E i \in DOMAIN batch : batch[i] = "up")
  /\ UNCHANGED <<supVars, config, portalVars, bad, outcome, hostVars>>

\* The next action is to send or to deliver a packet, or there is a Down, which
\* drops what follows it.  A packet that cannot be sent ends the link.
Perform ==
  /\ at = "perform"
  /\ \/ /\ Head(todo) \in {"send", "deliver"}
        /\ Continue(Tail(todo)) /\ UNCHANGED <<wasUp, outcome>>
     \/ Head(todo) = "send" /\ LinkEnds("error")
     \/ Head(todo) = "down" /\ LinkEnds("down")
  /\ UNCHANGED <<supVars, config, portalVars, bad, hostVars>>

\* The connection ends or breaks, a frame is bad, or the interface fails; the
\* actions of the frames before a bad one are lost.
LinkBreaks(result) ==
  /\ at = "link"
  /\ LinkEnds(result)
  /\ UNCHANGED <<supVars, config, portalVars, bad, hostVars>>

\* A plausible mistake: the token is looked at only once the link is up.
CancelLinkOnceUp ==
  /\ at = "link" /\ cancelled /\ wasUp
  /\ LinkEnds("stopped")
  /\ UNCHANGED <<supVars, config, portalVars, bad, hostVars>>

CancelLink ==
  /\ at = "link" /\ cancelled
  /\ LinkEnds("stopped")
  /\ UNCHANGED <<supVars, config, portalVars, bad, hostVars>>

-----------------------------------------------------------------------------
\* bring_up, which nothing interrupts, and teardown.

\* The interface is created, or the link ends with nothing changed.
RaiseTun(ok) ==
  /\ at = "perform" /\ Head(todo) = "up"
  /\ IF ok
     THEN /\ host' = CreateTun(host, config.peerIsGateway)
          /\ before' = Visible(host)
          /\ spoiled' = FALSE /\ exposed' = FALSE
          /\ at' = "routes"
          /\ UNCHANGED <<linkVars, outcome>>
     ELSE LinkEnds("error") /\ UNCHANGED hostVars
  /\ UNCHANGED <<supVars, config, portalVars, bad>>

\* set_routes.  A gateway without an IPv4 address needs no protection.
RaiseRoutes ==
  /\ at = "routes"
  /\ \E f \in RouteFailures :
       LET protect == IF config.v4 THEN ProtectGateway(host, f) ELSE <<host, TRUE>>
       IN  /\ host' = IF config.routing = "off" THEN host
                      ELSE SetRoutes(protect[1], protect[2], config.platform,
                                     config.routing = "half", config.networks, f)
           /\ exposed' = (config.networks # {} /\ ~protect[2])
  /\ at' = "dns"
  /\ UNCHANGED <<supVars, config, portalVars, bad, linkVars, outcome, before, spoiled>>

\* Dns::install; a failure is only logged.
RaiseDns ==
  /\ at = "dns"
  /\ \E f \in DnsFailures :
       host' = IF config.dns = "off" THEN host
               ELSE InstallDns(host, config.dns, config.servers, config.domains, f)
  /\ Continue(Tail(todo))
  /\ UNCHANGED <<supVars, config, portalVars, bad, wasUp, outcome, before, spoiled, exposed>>

\* teardown: nameservers, then routes and interface, then the link.
TeardownDns ==
  /\ at = "undns"
  /\ \E f \in SUBSET {"undns"} :
       /\ host' = RemoveDns(host, f)
       /\ spoiled' = (spoiled \/ (f # {} /\ host.dns.tool \in {"resolvconf", "file"}))
  /\ at' = "unroute"
  /\ UNCHANGED <<supVars, config, portalVars, bad, linkVars, outcome, before, exposed>>

TeardownRoutes ==
  /\ at = "unroute"
  /\ \E f \in RestoreFailures :
       /\ host' = DropTun(RestoreRoutes(host, config.platform, f))
       /\ spoiled' = \/ spoiled
                     \/ "back" \in f /\ host.replaced # NoRoute
                     \/ "unpin" \in f /\ host.gateway
  /\ at' = "close"
  /\ UNCHANGED <<supVars, config, portalVars, bad, linkVars, outcome, before, exposed>>

\* close_ppp, whatever comes of it within CLOSE_GRACE, and the connection's end.
ClosePpp ==
  /\ at = "close"
  /\ LogOutAndReturn(outcome)
  /\ UNCHANGED <<config, bad, linkVars, hostVars>>

\* The logout has an answer or has failed.
LoggedOut ==
  /\ at = "logout" /\ step \in {"idle", "failed"}
  /\ Returns(outcome)
  /\ UNCHANGED <<config, bad, linkVars, hostVars>>

\* LOGOUT_GRACE is over: the logout is dropped, done by the gateway or not.
LogoutTimeout ==
  /\ at = "logout" /\ step \notin {"idle", "failed"}
  /\ step' = "failed" /\ logout' = "failed"
  /\ \E processed \in BOOLEAN : Acts(processed)
  /\ UNCHANGED <<supVars, config, stream, retried, code, cookie, at, bad, linkVars,
                 outcome, hostVars>>

-----------------------------------------------------------------------------
\* The rest of the world.

\* Another program adds a line to resolv.conf while the tunnel is up.
OtherEdits ==
  /\ at = "link" /\ host.tun
  /\ \A i \in DOMAIN host.resolv : host.resolv[i] # OtherLine
  /\ host' = [host EXCEPT !.resolv = Append(@, OtherLine)]
  /\ before' = [before EXCEPT !.resolv = Append(@, OtherLine)]
  /\ UNCHANGED <<supVars, config, portalVars, at, bad, linkVars, outcome, spoiled, exposed>>

SignalArrives ==
  /\ Signal
  /\ UNCHANGED <<config, portalVars, at, bad, linkVars, outcome, hostVars>>

\* The program ends with no attempt under way.
GivesUp ==
  /\ PromptFails \/ StopSleeping
  /\ UNCHANGED <<config, portalVars, at, bad, linkVars, outcome, hostVars>>

\* The process exits at once; its interface goes with it.
ProcessExits ==
  /\ SecondSignal /\ at # "lingering"
  /\ at' = "none" /\ step' = "idle"
  /\ host' = DropTun(host)
  /\ UNCHANGED <<config, stream, retried, code, cookie, session, logout, bad, linkVars,
                 outcome, before, spoiled, exposed>>

-----------------------------------------------------------------------------

PortalStep ==
  \/ PortalConnect \/ PortalBroken \/ PortalMalformed
  \/ PortalRefusal \/ PortalBadForm \/ PortalOtpForm \/ PortalToken \/ PortalCookie
  \/ PortalPrompt \/ PortalReply \/ PortalConfig \/ PortalStart \/ PortalLogout

\* What the program does without the gateway's answer or the user's.
Inner ==
  \/ SetupFails \/ SetupReady \/ Perform \/ ClosePpp \/ LoggedOut \/ LogoutTimeout
  \/ \E ok \in BOOLEAN : RaiseTun(ok)
  \/ RaiseRoutes \/ RaiseDns \/ TeardownDns \/ TeardownRoutes

Next ==
  \/ StartAttempt \/ SignalArrives \/ GivesUp \/ ProcessExits
  \/ \E good \in BOOLEAN : SamlRequest(good)
  \/ SamlUnavailable \/ CancelSaml
  \/ PortalStep \/ CancelSetup \/ PromptEnds
  \/ \E b \in Batches : PppActs(b)
  \/ \E result \in {"down", "error"} : LinkBreaks(result)
  \/ CancelLink \/ OtherEdits
  \/ Inner

\* The program waits with neither the token nor a timeout to end the wait: for a
\* gateway to read what is sent (perform, the Terminate-Request of close_ppp, the
\* end of the connection), or for an answer on the terminal.
Blocked ==
  \/ at = "perform" /\ Head(todo) = "send"
  \/ at \in {"close", "lingering"}

\* Elsewhere the code runs on by itself, the commands it runs on the host come to
\* an end, and each select! comes to look at the token.
Fairness ==
  /\ WF_vars(~Blocked /\ Inner) /\ WF_vars(sup = "sleeping" /\ (StartAttempt \/ GivesUp))
  /\ WF_vars(CancelSaml) /\ WF_vars(CancelSetup) /\ SF_vars(CancelLink)

Spec == Init /\ [][Next]_vars /\ Fairness

-----------------------------------------------------------------------------

TypeOK ==
  /\ SupTypeOK /\ PortalTypeOK
  /\ config \in Configs
  /\ at \in {"none", "saml", "setup", "link", "perform", "routes", "dns", "undns",
             "unroute", "close", "logout", "lingering"}
  /\ bad \in 0..MaxBadRequests
  /\ todo \in Seq({"send", "deliver", "up", "down"})
  /\ {wasUp, spoiled, exposed, host.tun, host.gateway, host.record} \subseteq BOOLEAN
  /\ outcome \in {"none", "stopped", "down", "error"}
  /\ host.table \subseteq Routes /\ before.table \subseteq Routes
  /\ host.networks \subseteq Destinations
  /\ host.replaced \in Routes \cup {NoRoute}

\* Whatever was set up of the routes, in whatever order commands failed while
\* the tunnel came up, the routing table is as it was once the interface is
\* gone, unless a command that restores it failed too (teardown, Routes::restore).
RoutesRestored ==
  ~host.tun /\ ~spoiled /\ sup # "killed" => host.table = before.table

\* The same of the nameservers, and of what another program wrote to
\* resolv.conf in the meantime: it is kept (Dns::remove, restore_resolv_conf).
ResolvRestored ==
  ~host.tun /\ ~spoiled /\ sup # "killed" =>
    host.resolv = before.resolv /\ (host.record => before.record)

\* The connection the tunnel runs on is never routed into the tunnel when
\* something else is: set_default only happens past a protected gateway, and
\* the networks the gateway names, which may hold its own address, come with a
\* warning when it could not be protected.
GatewayOutside ==
  host.tun /\ config.v4 /\ ~exposed
    /\ (\E r \in host.table : r.dev = "tun" /\ r.dest # "gateway")
  => Towards(host.table) # NoRoute /\ Towards(host.table).dev # "tun"

\* However an attempt ended, a session whose cookie was known is not left open
\* at the gateway by a client that did not even try to log out (the end of run).
SessionsClosed ==
  at = "none" /\ sup \in {"sleeping", "done"} /\ cookie /\ session = "open"
    => logout = "failed"

\* Once asked to stop, the program ends, whatever the gateway answers or fails to
\* answer, or is kept for ever by a gateway that does not read or by a prompt on
\* the terminal (stop_on_signal, the select!s, LOGOUT_GRACE).
StopEnds == (cancelled /\ sup # "asking") ~> (Over \/ []Blocked)

Differs ==
  \/ host.table # before.table \/ host.resolv # before.resolv
  \/ host.record /\ ~before.record

\* What a user and the rest of the system see of it.
Phase ==
  IF sup \in {"asking", "sleeping"} THEN "waiting"
  ELSE IF Over THEN "finished"
  ELSE IF at \in {"undns", "unroute", "close", "logout", "lingering"} THEN "closing"
  ELSE IF host.tun THEN "up" ELSE "connecting"

Traces == host.tun \/ (~spoiled /\ Differs)

\* The whole is the service the program promises: see Service.
Promised == INSTANCE Service WITH phase <- Phase, traces <- Traces, asked <- cancelled

ImplementsService == Promised!Spec
=============================================================================

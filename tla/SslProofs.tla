----------------------------- MODULE SslProofs -----------------------------
(***************************************************************************)
(* Proofs about SslTunnel, for every set of settings and hosts, every list *)
(* of what PPP asks for and every set of commands that fail.               *)
(***************************************************************************)
EXTENDS SslTunnel, LeastNumber, TLAPS

-----------------------------------------------------------------------------
(* Sessions at the gateway.                                                *)

\* What the end of run relies on: while logging out, an attempt that is over
\* has closed the session or failed to; before the portal is used, and after
\* an attempt, nothing is open that was not tried to be closed.
SessionInv ==
  /\ at = "saml" \/ (at = "none" /\ sup # "killed") =>
       (cookie /\ session = "open" => logout = "failed")
  /\ at = "logout" =>
       /\ step \in {"relogin", "logout", "idle", "failed"}
       /\ step = "idle" => session = "closed"
       /\ step = "failed" => logout = "failed"
  /\ at # "none" => sup = "running"
  /\ at = "lingering" \/ (at = "setup" /\ step \in LoginRequests \cup Prompts) => ~cookie

LEMMA SessionInit == Init => SessionInv
  BY DEF Init, SupInit, SessionInv

\* A step of the portal keeps the invariant, wherever run waits.
LEMMA PortalKeepsSession ==
  ASSUME SessionInv, PortalStep
  PROVE  SessionInv'
<1> USE DEF SessionInv, InPortal, Elsewhere, Requests, LoginRequests, Connections, Prompts,
            Fail, Request, supVars
<1>1. CASE PortalConnect
  BY <1>1 DEF PortalConnect, Connect
<1>2. CASE PortalBroken
  BY <1>2 DEF PortalBroken, Broken, Acts
<1>3. CASE PortalMalformed
  BY <1>3 DEF PortalMalformed, Malformed, Acts
<1>4. CASE PortalRefusal \/ PortalBadForm
  BY <1>4 DEF PortalRefusal, OnRefusal, PortalBadForm, OnBadForm
<1>5. CASE PortalOtpForm \/ PortalToken
  BY <1>5 DEF PortalOtpForm, OnOtpForm, PortalToken, OnToken, Answer
<1>6. CASE PortalCookie \/ PortalPrompt
  BY <1>6 DEF PortalCookie, OnCookie, PortalPrompt, OnPrompt
<1>7. CASE PortalReply \/ PortalConfig \/ PortalStart
  BY <1>7 DEF PortalReply, OnReply, PortalConfig, OnConfig, PortalStart, StartTunnel
<1>8. CASE PortalLogout
  BY <1>8 DEF PortalLogout, OnLogoutReply
<1> QED
  BY <1>1, <1>2, <1>3, <1>4, <1>5, <1>6, <1>7, <1>8 DEF PortalStep

\* However an attempt ends, the session is closed first or was not known.
LEMMA EndKeepsSession ==
  ASSUME SessionInv, NEW result, at \notin {"none", "saml", "logout"}, LogOutAndReturn(result)
  PROVE  SessionInv'
  BY DEF SessionInv, LogOutAndReturn, StartLogout, Returns, Ends, supVars

\* A cancelled set-up ends like a failed one, or its prompt is still open.
Lingers ==
  /\ at = "setup" /\ step \in Prompts /\ at' = "lingering"
  /\ UNCHANGED <<supVars, portalVars, config, linkVars, outcome, hostVars>>

LEMMA CancelSetupCases ==
  ASSUME CancelSetup
  PROVE  \/ Lingers /\ bad' = bad
         \/ /\ at = "setup" /\ LogOutAndReturn("stopped")
            /\ UNCHANGED <<config, bad, linkVars, hostVars>>
  BY DEF CancelSetup, Lingers

LEMMA StepKeepsSession ==
  ASSUME SessionInv, [Next]_vars
  PROVE  SessionInv'
<1> USE DEF SessionInv, supVars, portalVars, linkVars, hostVars
<1>1. CASE StartAttempt
  BY <1>1 DEF StartAttempt, Answered, WakeUp, Running, StartPortal, LoginRequests, Prompts
<1>2. CASE SignalArrives \/ GivesUp
  BY <1>2 DEF SignalArrives, GivesUp, Signal, PromptFails, StopSleeping
<1>3. CASE ProcessExits
  BY <1>3 DEF ProcessExits, SecondSignal
<1>4. CASE \E good \in BOOLEAN : SamlRequest(good)
  BY <1>4 DEF SamlRequest, StartPortal, Returns, Ends, LoginRequests, Prompts
<1>5. CASE SamlUnavailable \/ CancelSaml
  BY <1>5 DEF SamlUnavailable, CancelSaml, Returns, Ends
<1>6. CASE PortalStep
  BY <1>6, PortalKeepsSession
<1>7. CASE SetupFails \/ ClosePpp
  BY <1>7, EndKeepsSession DEF SetupFails, ClosePpp
<1>15. CASE CancelSetup
  <2>1. CASE Lingers
    BY <2>1 DEF Lingers
  <2> QED
    BY <1>15, <2>1, CancelSetupCases, EndKeepsSession
<1>8. CASE LoggedOut \/ LogoutTimeout \/ PromptEnds
  BY <1>8 DEF LoggedOut, LogoutTimeout, PromptEnds, Returns, Ends
<1>9. CASE SetupReady
  BY <1>9 DEF SetupReady
<1>10. CASE \/ \E b \in Batches : PppActs(b)
            \/ \E result \in {"down", "error"} : LinkBreaks(result)
            \/ CancelLink \/ OtherEdits
  BY <1>10 DEF PppActs, LinkBreaks, CancelLink, OtherEdits, Continue, LinkEnds
<1>14. CASE Perform
  BY <1>14 DEF Perform, Continue, LinkEnds
<1>11. CASE (\E ok \in BOOLEAN : RaiseTun(ok)) \/ RaiseRoutes \/ RaiseDns
  BY <1>11 DEF RaiseTun, RaiseRoutes, RaiseDns, Continue, LinkEnds
<1>12. CASE TeardownDns \/ TeardownRoutes
  BY <1>12 DEF TeardownDns, TeardownRoutes
<1>13. CASE UNCHANGED vars
  BY <1>13 DEF vars
<1> QED
  BY <1>1, <1>2, <1>3, <1>4, <1>5, <1>6, <1>7, <1>8, <1>9, <1>10, <1>11, <1>12, <1>13, <1>14,
     <1>15
  DEF Next, Inner

\* However an attempt ended, a client that knew the cookie of an open session
\* tried to log out: `run` of tunnel.rs leaves no other way out.
THEOREM SessionsAreClosed == Spec => []SessionsClosed
<1>1. SessionInv => SessionsClosed
  BY DEF SessionInv, SessionsClosed
<1> QED
  BY SessionInit, StepKeepsSession, <1>1, PTL DEF Spec

-----------------------------------------------------------------------------
(* The routes, operator by operator.                                       *)

Fields == {"tun", "table", "resolv", "record", "gateway", "networks", "replaced", "dns"}

\* The table of host h is one the system can have, seen past our own routes.
SoundTable(h, platform) ==
  /\ \A r \in h.table : r \in Routes /\ r # NoRoute /\ r.metric \in Nat
  /\ \A r, s \in h.table :
       r.dev # "tun" /\ s.dev # "tun" /\ r.dest = s.dest /\ r.metric = s.metric => r = s
  /\ platform # "linux" =>
       \A r, s \in Defaults(h.table) : r.dev # "tun" /\ s.dev # "tun" => r = s

\* What Routes::restore and the end of the interface will leave of the table.
Left(h) ==
  {r \in h.table : r.dev # "tun" /\ ~(h.gateway /\ r.dest = "gateway" /\ r.metric = 0)}
    \cup (IF h.replaced = NoRoute THEN {} ELSE {h.replaced})

\* The default route that is remembered can be put back.
Remembered(h, platform) ==
  h.replaced # NoRoute =>
    /\ h.replaced \in Routes /\ h.replaced.metric \in Nat
    /\ h.replaced.dest = "default" /\ h.replaced.dev # "tun"
    /\ \A r \in Defaults(h.table) :
         r.dev # "tun" => platform = "linux" /\ r.metric # h.replaced.metric

\* Nothing is routed yet but what the kernel routed by itself.
Fresh(h) ==
  /\ h.gateway = FALSE /\ h.replaced = NoRoute
  /\ \A r \in h.table : r.dev = "tun" => r = Route("gateway", "tun", 0)
  /\ \A r, s \in h.table :
       r.dest = "gateway" /\ s.dest = "gateway" /\ r.metric = 0 /\ s.metric = 0 => r = s

\* The gateway has a route of its own, and none through the tunnel.
Guarded(table) ==
  /\ \E r \in table : r.dest = "gateway" /\ r.metric = 0
  /\ \A r \in table : r.dest = "gateway" => r.dev # "tun"

\* Something is routed into the tunnel.
Tunnelled(table) == \E r \in table : r.dev = "tun" /\ r.dest # "gateway"

\* The system has a best route whenever it has one: metrics are naturals.
LEMMA BestExists ==
  ASSUME NEW S, S # {}, \A s \in S : s.metric \in Nat
  PROVE  Best(S) \in S /\ \A s \in S : Best(S).metric <= s.metric
<1> DEFINE M == {s.metric : s \in S}
<1>1. M \subseteq Nat /\ M # {}
  OBVIOUS
<1> HIDE DEF M
<1>2. PICK m \in M : \A k \in M : m <= k
  BY <1>1, LeastNatural
<1>3. PICK z \in S : z.metric = m
  BY DEF M
<1>4. \A s \in S : z.metric <= s.metric
  BY <1>2, <1>3 DEF M
<1> QED
  BY <1>4 DEF Best

\* A guarded gateway is reached past the tunnel.
LEMMA GuardedTowards ==
  ASSUME NEW table, Guarded(table), \A r \in table : r # NoRoute /\ r.metric \in Nat
  PROVE  Towards(table) # NoRoute /\ Towards(table).dev # "tun"
<1> DEFINE pins == {r \in table : r.dest = "gateway"}
<1>1. PICK z \in pins : z.metric = 0
  BY DEF Guarded
<1>2. Best(pins) \in pins
  BY <1>1, BestExists
<1>3. Towards(table) = Best(pins)
  BY <1>1 DEF Towards
<1> QED
  BY <1>2, <1>3 DEF Guarded

\* `ip route get` answers with a route of the table, or with none.
LEMMA TowardsOne ==
  ASSUME NEW table, \A r \in table : r.metric \in Nat, Towards(table) # NoRoute
  PROVE  Towards(table) \in table
<1> DEFINE pins == {r \in table : r.dest = "gateway"}
           around == {r \in table : r.dest \in Around}
           halves == {r \in table : r.dest \in {"low", "high"}}
<1>1. \/ pins # {} /\ Towards(table) = Best(pins)
      \/ around # {} /\ Towards(table) = Best(around)
      \/ halves # {} /\ Towards(table) = Best(halves)
      \/ Defaults(table) # {} /\ Towards(table) = Best(Defaults(table))
  BY DEF Towards
<1> QED
  BY <1>1, BestExists DEF Defaults

LEMMA ARoute ==
  ASSUME NEW dest \in Destinations, NEW dev \in {"eth", "other", "tun"}
  PROVE  LET r == Route(dest, dev, 0)
         IN  r \in Routes /\ r # NoRoute /\ r.dest = dest /\ r.dev = dev /\ r.metric = 0
<1>1. Route(dest, dev, 0) \in Routes
  BY DEF Route, Routes
<1> QED
  BY <1>1, ConfigsAssumption DEF Route

LEMMA CreateTunFresh ==
  ASSUME NEW h, NEW p, NEW platform, DOMAIN h = Fields, SoundTable(h, platform),
         h.gateway = FALSE, h.replaced = NoRoute, \A r \in h.table : r.dev # "tun"
  PROVE  LET n == CreateTun(h, p)
         IN  /\ DOMAIN n = Fields /\ SoundTable(n, platform) /\ Fresh(n) /\ n.tun = TRUE
             /\ Left(n) = h.table
<1> DEFINE n == CreateTun(h, p)
           via == Route("gateway", "tun", 0)
<1>1. /\ DOMAIN n = Fields /\ n.tun = TRUE /\ n.gateway = FALSE /\ n.replaced = NoRoute
      /\ n.table = h.table \/ (n.table = h.table \cup {via} /\ ~Exists(h.table, "gateway"))
  BY DEF CreateTun, Fields
<1>2. /\ via \in Routes /\ via # NoRoute /\ via.dest = "gateway" /\ via.dev = "tun"
      /\ via.metric = 0
  BY ARoute DEF Destinations
<1> HIDE DEF n, via
<1>3. SoundTable(n, platform)
  BY <1>1, <1>2 DEF SoundTable, Defaults
<1>4. Fresh(n)
  <2>1. \A r \in n.table : r.dev = "tun" => r = via
    BY <1>1
  <2>2. CASE n.table = h.table
    BY <1>1, <2>1, <2>2 DEF Fresh, SoundTable, via
  <2>3. CASE n.table = h.table \cup {via} /\ ~Exists(h.table, "gateway")
    BY <1>1, <2>1, <2>3 DEF Fresh, Exists, via
  <2> QED
    BY <1>1, <2>2, <2>3
<1>5. Left(n) = h.table
  BY <1>1, <1>2 DEF Left
<1> QED
  BY <1>1, <1>3, <1>4, <1>5 DEF n

\* protect_gateway leaves what will be left, and says yes only of a gateway
\* that is guarded.
LEMMA ProtectLeaves ==
  ASSUME NEW h, NEW f, NEW platform, DOMAIN h = Fields, SoundTable(h, platform), Fresh(h)
  PROVE  LET n == ProtectGateway(h, f)[1]
         IN  /\ DOMAIN n = Fields /\ SoundTable(n, platform) /\ n.replaced = NoRoute
             /\ n.tun = h.tun /\ Left(n) = Left(h)
             /\ \A r \in n.table : r.dev = "tun" => r = Route("gateway", "tun", 0)
             /\ ProtectGateway(h, f)[2] => Guarded(n.table)
<1> DEFINE found == Towards(h.table)
           wrong == found # NoRoute /\ found.dev = "tun"
           table == IF wrong THEN Unwrapped(h, f) ELSE h.table
           current == Towards(table)
           T == [h EXCEPT !.table = table]
           P == [h EXCEPT !.table = table \cup {Route("gateway", current.dev, 0)},
                          !.gateway = TRUE]
           n == ProtectGateway(h, f)[1]
<1>1. table = h.table \/ table = h.table \ {Route("gateway", "tun", 0)}
  BY DEF Unwrapped
<1>2. \/ ProtectGateway(h, f) = <<h, FALSE>>
      \/ ProtectGateway(h, f) = <<T, FALSE>>
      \/ /\ ProtectGateway(h, f) = <<T, TRUE>>
         /\ Exists(table, "gateway") /\ current # NoRoute /\ current.dev # "tun"
      \/ /\ ProtectGateway(h, f) = <<P, TRUE>>
         /\ ~Exists(table, "gateway") /\ current # NoRoute /\ current.dev # "tun"
  BY DEF ProtectGateway
<1> HIDE DEF table, current, found, wrong
<1>3. /\ DOMAIN T = Fields /\ SoundTable(T, platform) /\ T.replaced = NoRoute
      /\ T.tun = h.tun /\ Left(T) = Left(h) /\ T.table = table
      /\ \A r \in T.table : r.dev = "tun" => r = Route("gateway", "tun", 0)
  BY <1>1 DEF Fields, SoundTable, Fresh, Left, Defaults, Route
<1> HIDE DEF T
<1>4. CASE ProtectGateway(h, f) = <<h, FALSE>> \/ ProtectGateway(h, f) = <<T, FALSE>>
  <2>1. (n = h \/ n = T) /\ ProtectGateway(h, f)[2] = FALSE
    <3>1. CASE ProtectGateway(h, f) = <<h, FALSE>>
      BY <3>1
    <3>2. CASE ProtectGateway(h, f) = <<T, FALSE>>
      BY <3>2
    <3> QED
      BY <1>4, <3>1, <3>2
  <2> HIDE DEF n
  <2>2. h.replaced = NoRoute /\ \A r \in h.table : r.dev = "tun" => r = Route("gateway", "tun", 0)
    BY DEF Fresh
  <2> QED
    BY <2>1, <2>2, <1>3 DEF n
<1>5. CASE /\ ProtectGateway(h, f) = <<T, TRUE>>
           /\ Exists(table, "gateway") /\ current # NoRoute /\ current.dev # "tun"
  <2> DEFINE pins == {r \in table : r.dest = "gateway"}
  <2>1. PICK z \in pins : z.metric = 0
    BY <1>5 DEF Exists
  <2>2. Best(pins) \in pins /\ Best(pins).metric = 0
    BY <2>1, <1>1, BestExists DEF SoundTable
  <2>3. current = Best(pins)
    BY <2>1 DEF current, Towards
  <2>4. \A r \in table : r.dest = "gateway" => r.dev # "tun"
    <3> SUFFICES ASSUME NEW r \in table, r.dest = "gateway", r.dev = "tun"
                 PROVE  FALSE
      OBVIOUS
    <3>1. r = Route("gateway", "tun", 0)
      BY <1>1 DEF Fresh
    <3>2. r.metric = 0
      BY <3>1 DEF Route
    <3>3. r = Best(pins)
      BY <3>2, <2>2, <1>1 DEF Fresh
    <3> QED
      BY <3>3, <2>3, <1>5
  <2>5. n = T /\ ProtectGateway(h, f)[2] = TRUE
    BY <1>5
  <2>6. Guarded(T.table)
    BY <2>1, <2>4, <1>3 DEF Guarded
  <2> QED
    BY <2>5, <2>6, <1>3
<1>6. CASE /\ ProtectGateway(h, f) = <<P, TRUE>>
           /\ ~Exists(table, "gateway") /\ current # NoRoute /\ current.dev # "tun"
  <2> DEFINE pin == Route("gateway", current.dev, 0)
  <2>1. /\ pin \in Routes /\ pin # NoRoute /\ pin.dest = "gateway" /\ pin.dev # "tun"
        /\ pin.metric = 0
    <3>1. current \in table
      BY <1>3, <1>6, TowardsOne DEF SoundTable, current
    <3>2. current.dev \in {"eth", "other", "tun"}
      BY <3>1, <1>3 DEF SoundTable, Routes
    <3> QED
      BY <3>2, <1>6, ARoute DEF Destinations
  <2>2. /\ DOMAIN P = Fields /\ P.table = table \cup {pin} /\ P.gateway = TRUE
        /\ P.replaced = NoRoute /\ P.tun = h.tun
    BY DEF Fields, Fresh
  <2> HIDE DEF pin, P
  <2>3. \A r \in table : r.dest = "gateway" => r.metric # 0
    BY <1>6 DEF Exists
  <2>4. SoundTable(P, platform)
    BY <2>1, <2>2, <2>3, <1>3 DEF SoundTable, Defaults
  <2>5. Left(P) = Left(T)
    BY <2>1, <2>2, <2>3, <1>3 DEF Left, Fresh
  <2>6. \A r \in P.table : r.dev = "tun" => r = Route("gateway", "tun", 0)
    BY <2>1, <2>2, <1>3
  <2>7. Guarded(P.table)
    BY <2>1, <2>2, <2>3, <2>6 DEF Guarded, Route
  <2> QED
    BY <1>6, <2>2, <2>4, <2>5, <2>6, <2>7, <1>3
<1> QED
  BY <1>2, <1>4, <1>5, <1>6

\* What setting routes may change of a host: it adds routes of its own, to
\* destinations in `to`, and may remember the default route.
Routed(h, n, platform, to) ==
  /\ DOMAIN n = Fields /\ n.tun = h.tun /\ n.gateway = h.gateway
  /\ SoundTable(n, platform) /\ Remembered(n, platform) /\ Left(n) = Left(h)
  /\ \A r \in h.table : r.dest # "default" => r \in n.table
  /\ \A r \in n.table : r \in h.table \/ (r.dev = "tun" /\ r.dest \in to)

LEMMA NothingRouted ==
  ASSUME NEW h, NEW platform, NEW to, DOMAIN h = Fields, SoundTable(h, platform),
         h.replaced = NoRoute
  PROVE  Routed(h, h, platform, to)
  BY DEF Routed, Remembered

LEMMA AddRoutes ==
  ASSUME NEW h, NEW platform, NEW nets, NEW f, DOMAIN h = Fields, SoundTable(h, platform),
         h.replaced = NoRoute, nets \subseteq Destinations
  PROVE  Routed(h, AddNetworks(h, nets, f), platform, nets)
<1> DEFINE new == {n \in nets \ f : ~Exists(h.table, n)}
           ours == {Route(n, "tun", 0) : n \in new}
           n == AddNetworks(h, nets, f)
<1>1. \A r \in ours :
        r \in Routes /\ r # NoRoute /\ r.dev = "tun" /\ r.dest \in nets /\ r.metric = 0
  BY ARoute
<1>2. /\ DOMAIN n = Fields /\ n.table = h.table \cup ours /\ n.tun = h.tun
      /\ n.gateway = h.gateway /\ n.replaced = NoRoute
  BY DEF AddNetworks, Fields
<1> HIDE DEF ours, n
<1>3. SoundTable(n, platform)
  BY <1>1, <1>2 DEF SoundTable, Defaults
<1>4. Left(n) = Left(h)
  BY <1>1, <1>2 DEF Left
<1> QED
  BY <1>1, <1>2, <1>3, <1>4 DEF Routed, Remembered, n

\* replace_default takes the place of the route that it remembers.
LEMMA Replaces ==
  ASSUME NEW h, NEW n, NEW platform, NEW current \in h.table, NEW ours,
         DOMAIN h = Fields, SoundTable(h, platform), h.replaced = NoRoute,
         current.dest = "default", current.dev # "tun", current.metric \in Nat,
         platform = "linux" \/ \A r \in Defaults(h.table) : r = current,
         ours \subseteq {Route("default", "tun", 0)},
         n = [h EXCEPT !.table = (@ \ {current}) \cup ours, !.replaced = current]
  PROVE  Routed(h, n, platform, {"default"})
<1>1. /\ DOMAIN n = Fields /\ n.table = (h.table \ {current}) \cup ours /\ n.tun = h.tun
      /\ n.gateway = h.gateway /\ n.replaced = current
  BY DEF Fields
<1>2. \A r \in ours :
        r \in Routes /\ r # NoRoute /\ r.dev = "tun" /\ r.dest = "default" /\ r.metric = 0
  BY ARoute DEF Destinations
<1>3. current # NoRoute
  BY DEF SoundTable, Defaults
<1>4. SoundTable(n, platform)
  BY <1>1, <1>2 DEF SoundTable, Defaults
<1>5. Left(n) = Left(h)
  BY <1>1, <1>2, <1>3 DEF Left
<1>6. Remembered(n, platform)
  BY <1>1, <1>2, <1>3 DEF Remembered, SoundTable, Defaults
<1> QED
  BY <1>1, <1>2, <1>4, <1>5, <1>6 DEF Routed

LEMMA DefaultReplaced ==
  ASSUME NEW h, NEW platform, NEW f, DOMAIN h = Fields, SoundTable(h, platform),
         h.replaced = NoRoute, \A r \in h.table : r.dev = "tun" => r.dest = "gateway"
  PROVE  Routed(h, ReplaceDefault(h, platform, f), platform, {"default"})
<1> DEFINE current == Best(Defaults(h.table))
           mine == Route("default", "tun", 0)
<1>1. CASE platform = "linux"
  <2>1. \/ ReplaceDefaultLinux(h, f) = h
        \/ /\ ~Exists(h.table, "default")
           /\ ReplaceDefaultLinux(h, f) = [h EXCEPT !.table = @ \cup {mine}]
        \/ /\ Exists(h.table, "default")
           /\ ReplaceDefaultLinux(h, f) =
                [h EXCEPT !.table = (@ \ {current}) \cup {mine}, !.replaced = current]
    BY DEF ReplaceDefaultLinux
  <2> HIDE DEF current
  <2>2. CASE ReplaceDefaultLinux(h, f) = h
    BY <1>1, <2>2, NothingRouted DEF ReplaceDefault
  <2>3. CASE ReplaceDefaultLinux(h, f) = [h EXCEPT !.table = @ \cup {mine}]
    <3> DEFINE n == [h EXCEPT !.table = @ \cup {mine}]
    <3>1. /\ DOMAIN n = Fields /\ n.table = h.table \cup {mine} /\ n.tun = h.tun
          /\ n.gateway = h.gateway /\ n.replaced = NoRoute
      BY DEF Fields
    <3>2. /\ mine \in Routes /\ mine # NoRoute /\ mine.dest = "default" /\ mine.dev = "tun"
          /\ mine.metric = 0
      BY ARoute DEF Destinations
    <3> HIDE DEF n, mine
    <3>3. SoundTable(n, platform) /\ Left(n) = Left(h)
      BY <3>1, <3>2 DEF SoundTable, Defaults, Left
    <3>4. Routed(h, n, platform, {"default"})
      BY <3>1, <3>2, <3>3 DEF Routed, Remembered
    <3> QED
      BY <1>1, <2>3, <3>4 DEF ReplaceDefault, n
  <2>4. CASE /\ Exists(h.table, "default")
             /\ ReplaceDefaultLinux(h, f) =
                  [h EXCEPT !.table = (@ \ {current}) \cup {mine}, !.replaced = current]
    <3>1. PICK z \in Defaults(h.table) : z.metric = 0
      BY <2>4 DEF Exists, Defaults
    <3>2. \A r \in Defaults(h.table) : r.metric \in Nat
      BY DEF SoundTable, Defaults
    <3>3. current \in Defaults(h.table) /\ current.metric = 0
      BY <3>1, <3>2, BestExists DEF current
    <3>4. current \in h.table /\ current.dest = "default" /\ current.dev # "tun"
      BY <3>3 DEF Defaults
    <3>5. {mine} \subseteq {Route("default", "tun", 0)}
      OBVIOUS
    <3> DEFINE n == [h EXCEPT !.table = (@ \ {current}) \cup {mine}, !.replaced = current]
    <3>6. current.metric \in Nat
      BY <3>3
    <3> HIDE DEF mine
    <3>7. Routed(h, n, platform, {"default"})
      BY <1>1, <3>4, <3>5, <3>6, Replaces
    <3> QED
      BY <1>1, <2>4, <3>7 DEF ReplaceDefault
  <2> QED
    BY <2>1, <2>2, <2>3, <2>4
<1>2. CASE platform # "linux"
  <2> DEFINE ours == IF "default" \in f THEN {} ELSE {mine}
  <2>1. \/ ReplaceDefaultBsd(h, f) = h
        \/ /\ Defaults(h.table) # {}
           /\ ReplaceDefaultBsd(h, f) =
                [h EXCEPT !.table = (@ \ {current}) \cup ours, !.replaced = current]
    BY DEF ReplaceDefaultBsd
  <2>2. CASE ReplaceDefaultBsd(h, f) = h
    BY <1>2, <2>2, NothingRouted DEF ReplaceDefault
  <2>3. CASE /\ Defaults(h.table) # {}
             /\ ReplaceDefaultBsd(h, f) =
                  [h EXCEPT !.table = (@ \ {current}) \cup ours, !.replaced = current]
    <3>1. PICK z : z \in Defaults(h.table)
      BY <2>3
    <3>2. \A r \in Defaults(h.table) : r.dev # "tun"
      BY DEF Defaults
    <3>3. \A r \in Defaults(h.table) : r = z
      BY <1>2, <3>1, <3>2 DEF SoundTable
    <3>4. z.metric \in Nat /\ z.dest = "default" /\ z \in h.table /\ z.dev # "tun"
      BY <3>1, <3>2 DEF SoundTable, Defaults
    <3>5. current = z
      <4>1. \A s \in Defaults(h.table) : z.metric <= s.metric
        BY <3>3, <3>4
      <4>2. Best(Defaults(h.table)) \in Defaults(h.table)
        BY <3>1, <4>1 DEF Best
      <4> QED
        BY <4>2, <3>3
    <3>6. ours \subseteq {Route("default", "tun", 0)}
      OBVIOUS
    <3> HIDE DEF ours, current
    <3> QED
      BY <1>2, <2>3, <3>3, <3>4, <3>5, <3>6, Replaces DEF ReplaceDefault
  <2> QED
    BY <2>1, <2>2, <2>3
<1> QED
  BY <1>1, <1>2

\* set_routes: something goes into the tunnel only past a protected gateway, or
\* if the gateway names networks.
LEMMA RoutesSet ==
  ASSUME NEW h, NEW protected, NEW platform, NEW half, NEW nets \in SUBSET Networks, NEW f,
         DOMAIN h = Fields, SoundTable(h, platform), h.replaced = NoRoute,
         \A r \in h.table : r.dev = "tun" => r = Route("gateway", "tun", 0)
  PROVE  LET n == SetRoutes(h, protected, platform, half, nets, f)
         IN  /\ Routed(h, n, platform, Destinations \ {"gateway"})
             /\ Tunnelled(n.table) => protected \/ nets # {}
<1> DEFINE n == SetRoutes(h, protected, platform, half, nets, f)
           to == Destinations \ {"gateway"}
<1>1. \A r \in h.table : r.dev = "tun" => r.dest = "gateway"
  BY DEF Route
<1>2. CASE nets # {}
  <2>1. n = AddNetworks(h, nets \ {"gateway"}, f)
    BY <1>2 DEF SetRoutes
  <2>2. nets \ {"gateway"} \subseteq Destinations
    BY DEF Destinations
  <2>3. Routed(h, n, platform, nets \ {"gateway"})
    BY <2>1, <2>2, AddRoutes
  <2> HIDE DEF n
  <2>4. Routed(h, n, platform, to)
    BY <2>3 DEF Routed, Destinations
  <2> QED
    BY <1>2, <2>4 DEF n
<1>3. CASE nets = {} /\ ~protected
  <2>1. n = h
    BY <1>3 DEF SetRoutes
  <2>2. ~Tunnelled(h.table)
    BY <1>1 DEF Tunnelled
  <2> QED
    BY <2>1, <2>2, NothingRouted
<1>4. CASE nets = {} /\ protected /\ half
  <2> DEFINE halves == IF "low" \in f THEN {} ELSE {"low", "high"}
  <2>1. n = AddNetworks(h, halves, f)
    BY <1>4 DEF SetRoutes, SetDefault
  <2>2. Routed(h, n, platform, halves)
    <3>1. halves \subseteq Destinations
      BY DEF Destinations
    <3> QED
      BY <2>1, <3>1, AddRoutes
  <2> HIDE DEF n
  <2>3. Routed(h, n, platform, to)
    BY <2>2 DEF Routed, Destinations
  <2> QED
    BY <2>3, <1>4 DEF n
<1>5. CASE nets = {} /\ protected /\ ~half
  <2>1. n = ReplaceDefault(h, platform, f)
    BY <1>5 DEF SetRoutes, SetDefault
  <2>2. Routed(h, n, platform, {"default"})
    BY <2>1, <1>1, DefaultReplaced
  <2> HIDE DEF n
  <2>3. Routed(h, n, platform, to)
    BY <2>2 DEF Routed, Destinations
  <2> QED
    BY <2>3, <1>5 DEF n
<1> QED
  BY <1>2, <1>3, <1>4, <1>5

\* Routes::restore and the end of the interface: what was foreseen is left,
\* and nothing of ours, but for the commands that fail.
LEMMA RestoreLeaves ==
  ASSUME NEW h, NEW platform, NEW f, DOMAIN h = Fields, SoundTable(h, platform),
         Remembered(h, platform)
  PROVE  LET n == DropTun(RestoreRoutes(h, platform, f))
         IN  /\ DOMAIN n = Fields /\ SoundTable(n, platform) /\ n.tun = FALSE
             /\ n.gateway = FALSE /\ n.replaced = NoRoute
             /\ \A r \in n.table : r.dev # "tun"
             /\ \/ "back" \in f /\ h.replaced # NoRoute
                \/ "unpin" \in f /\ h.gateway
                \/ n.table = Left(h)
<1> DEFINE fewer == [h EXCEPT !.table = @ \ {Route(d, "tun", 0) : d \in h.networks \ f},
                              !.networks = {}]
           table == PutDefaultBack(fewer, platform, f)
           pin == {r \in table : h.gateway /\ r.dest = "gateway" /\ r.metric = 0}
           kept == IF "unpin" \in f THEN table ELSE table \ pin
           restored == [fewer EXCEPT !.table = kept, !.replaced = NoRoute, !.gateway = FALSE]
           n == DropTun(RestoreRoutes(h, platform, f))
           outside == {r \in h.table : r.dev # "tun"}
           back == IF h.replaced = NoRoute \/ "back" \in f THEN {} ELSE {h.replaced}
<1>1. /\ DOMAIN fewer = Fields /\ fewer.replaced = h.replaced
      /\ \A r \in fewer.table : r \in h.table
      /\ \A r \in h.table : r.dev # "tun" => r \in fewer.table
  BY DEF Fields, Route
<1>2. RestoreRoutes(h, platform, f) = restored
  BY DEF RestoreRoutes
<1> HIDE DEF fewer, table
<1>3. {r \in table : r.dev # "tun"} = outside \cup back
  <2>1. CASE h.replaced = NoRoute
    BY <1>1, <2>1 DEF table, PutDefaultBack
  <2>2. CASE h.replaced # NoRoute /\ platform = "linux"
    BY <1>1, <2>2 DEF table, PutDefaultBack, PutDefaultBackLinux, Remembered, Defaults
  <2>3. CASE h.replaced # NoRoute /\ platform # "linux"
    BY <1>1, <2>3 DEF table, PutDefaultBack, PutDefaultBackBsd, Remembered, Defaults
  <2> QED
    BY <2>1, <2>2, <2>3
<1>4. /\ DOMAIN n = Fields /\ n.tun = FALSE /\ n.gateway = FALSE /\ n.replaced = NoRoute
      /\ n.table = {r \in kept : r.dev # "tun"}
  <2>1. /\ DOMAIN restored = Fields /\ restored.table = kept /\ restored.gateway = FALSE
        /\ restored.replaced = NoRoute
    BY <1>1 DEF Fields
  <2> HIDE DEF restored
  <2> QED
    BY <1>2, <2>1 DEF DropTun, Fields
<1> HIDE DEF n
<1>5. /\ \A r \in n.table : r \in outside \cup back
      /\ \A r \in back : /\ r = h.replaced /\ r # NoRoute /\ r \in Routes
                         /\ r.metric \in Nat /\ r.dest = "default" /\ r.dev # "tun"
  BY <1>3, <1>4 DEF Remembered
<1>6. SoundTable(n, platform)
  BY <1>5 DEF SoundTable, Remembered, Defaults
<1>7. CASE "unpin" \in f /\ ~h.gateway
  BY <1>3, <1>4, <1>5, <1>6, <1>7 DEF Left, n
<1>8. CASE "unpin" \notin f
  <2>1. n.table = {r \in outside \cup back :
                     ~(h.gateway /\ r.dest = "gateway" /\ r.metric = 0)}
    BY <1>3, <1>4, <1>8
  <2>2. \/ "back" \in f /\ h.replaced # NoRoute
        \/ n.table = Left(h)
    <3>1. CASE h.replaced = NoRoute
      BY <2>1, <3>1 DEF Left
    <3>2. CASE h.replaced # NoRoute /\ "back" \notin f
      <4>1. back = {h.replaced} /\ h.replaced.dest = "default"
        BY <3>2 DEF Remembered
      <4> HIDE DEF back
      <4> QED
        BY <2>1, <3>2, <4>1 DEF Left
    <3> QED
      BY <3>1, <3>2
  <2> QED
    BY <1>4, <1>5, <1>6, <2>2 DEF n
<1>9. CASE "unpin" \in f /\ h.gateway
  BY <1>4, <1>5, <1>6, <1>9 DEF n
<1> QED
  BY <1>7, <1>8, <1>9

-----------------------------------------------------------------------------
(* The host, step by step.                                                 *)

\* What PPP asks for.
PppActions == {"send", "deliver", "up", "down"}
HasUp(list) == \E i \in DOMAIN list : list[i] = "up"
OneUp(list) == \A i, j \in DOMAIN list : list[i] = "up" /\ list[j] = "up" => i = j

\* Where run is, what it has still to perform, and whether it has an interface.
ControlInv ==
  /\ config \in Configs
  /\ DOMAIN host = Fields /\ DOMAIN before = {"table", "resolv", "record"}
  /\ at # "none" => sup = "running"
  /\ host.tun \in BOOLEAN
  /\ host.tun => at \in {"routes", "dns", "link", "perform", "undns", "unroute"}
  /\ at \in {"routes", "dns", "undns", "unroute"} => host.tun
  /\ todo \in Seq(PppActions) /\ OneUp(todo)
  /\ at \in {"perform", "routes", "dns"} => todo # <<>>
  /\ at \in {"routes", "dns"} => Head(todo) = "up" /\ wasUp
  /\ at = "perform" /\ HasUp(todo) => wasUp /\ ~host.tun
  /\ at \in {"link", "perform"} /\ ~wasUp => ~host.tun

\* Without an interface the host is as it was; with one, what is remembered
\* is enough to put it back, and the gateway is guarded.
RoutesInv ==
  /\ SoundTable(host, config.platform)
  /\ ~host.tun =>
       /\ host.gateway = FALSE /\ host.replaced = NoRoute
       /\ \A r \in host.table : r.dev # "tun"
       /\ ~spoiled => host.table = before.table
  /\ host.tun => Remembered(host, config.platform) /\ Left(host) = before.table
  /\ at = "routes" => Fresh(host)
  /\ at # "routes" /\ host.tun /\ config.v4 /\ ~exposed /\ Tunnelled(host.table) =>
       Guarded(host.table)

HostInv == ControlInv /\ (sup # "killed" => RoutesInv)

LEMMA TailUps ==
  ASSUME NEW list \in Seq(PppActions), list # <<>>, OneUp(list)
  PROVE  /\ Tail(list) \in Seq(PppActions) /\ OneUp(Tail(list))
         /\ HasUp(Tail(list)) => HasUp(list)
         /\ Head(list) = "up" => HasUp(list) /\ ~HasUp(Tail(list))
<1>1. /\ Tail(list) \in Seq(PppActions) /\ Len(Tail(list)) = Len(list) - 1
      /\ Len(list) \in Nat \ {0} /\ DOMAIN list = 1..Len(list)
      /\ DOMAIN Tail(list) = 1..(Len(list) - 1)
      /\ \A i \in DOMAIN Tail(list) : Tail(list)[i] = list[i + 1] /\ i + 1 \in DOMAIN list
      /\ Head(list) = list[1] /\ 1 \in DOMAIN list
  OBVIOUS
<1>2. OneUp(Tail(list))
  BY <1>1 DEF OneUp
<1>3. HasUp(Tail(list)) => HasUp(list)
  BY <1>1 DEF HasUp
<1>4. Head(list) = "up" => HasUp(list) /\ ~HasUp(Tail(list))
  BY <1>1 DEF HasUp, OneUp
<1> QED
  BY <1>1, <1>2, <1>3, <1>4

LEMMA HostInit == Init => HostInv
<1> SUFFICES ASSUME Init PROVE HostInv
  OBVIOUS
<1>1. /\ DOMAIN host = Fields /\ DOMAIN before = {"table", "resolv", "record"}
      /\ host.tun = FALSE /\ host.table = config.table /\ host.gateway = FALSE
      /\ host.replaced = NoRoute /\ before.table = host.table /\ config \in Configs
  BY DEF Init, NewHost, Visible, Fields
<1>2. SoundTable(host, config.platform) /\ \A r \in host.table : r.dev # "tun"
  BY <1>1, ConfigsAssumption DEF SoundTable, Ordinary, Routes, Defaults
<1>3. todo = <<>> /\ at = "none"
  BY DEF Init
<1>4. todo \in Seq(PppActions) /\ OneUp(todo)
  BY <1>3 DEF OneUp
<1>5. ControlInv
  BY <1>1, <1>3, <1>4 DEF ControlInv
<1> QED
  BY <1>1, <1>2, <1>3, <1>5 DEF HostInv, RoutesInv

\* A step that leaves the host alone keeps what is known of its routes.
LEMMA HostUntouched ==
  ASSUME RoutesInv, UNCHANGED <<config, hostVars>>, at # "routes", at' # "routes"
  PROVE  RoutesInv'
  BY DEF RoutesInv, hostVars

\* Link::run returns, from wherever it is.
LEMMA LinkEndsKeeps ==
  ASSUME ControlInv, NEW result, LinkEnds(result), UNCHANGED <<supVars, config, hostVars>>,
         at \in {"link", "perform"}
  PROVE  ControlInv'
<1>1. todo' \in Seq(PppActions) /\ OneUp(todo)'
  BY DEF LinkEnds, OneUp
<1> QED
  BY <1>1 DEF ControlInv, LinkEnds, supVars, hostVars

\* The end of run, and the steps of the portal, where there is no interface.
LEMMA NoInterfaceKeeps ==
  ASSUME ControlInv, UNCHANGED <<config, linkVars, hostVars>>, ~host.tun,
         at' \notin {"perform", "routes", "dns", "undns", "unroute", "link"},
         at' # "none" => sup' = "running"
  PROVE  ControlInv'
  BY DEF ControlInv, linkVars, hostVars

LEMMA EndKeepsHost ==
  ASSUME HostInv, NEW result, at \in {"setup", "close"}, LogOutAndReturn(result),
         UNCHANGED <<config, linkVars, hostVars>>
  PROVE  HostInv'
<1>1. ~host.tun /\ sup = "running"
  BY DEF HostInv, ControlInv
<1>2. at' \in {"none", "logout"} /\ (at' # "none" => sup' = "running")
  BY <1>1 DEF LogOutAndReturn, StartLogout, Returns, supVars
<1> QED
  BY <1>1, <1>2, NoInterfaceKeeps, HostUntouched DEF HostInv

\* What happens where there is no interface.
LEMMA OutsideKeeps ==
  ASSUME HostInv,
         \/ StartAttempt \/ GivesUp \/ (\E good \in BOOLEAN : SamlRequest(good))
         \/ SamlUnavailable \/ CancelSaml \/ PortalStep \/ LoggedOut \/ LogoutTimeout
         \/ Lingers \/ PromptEnds
  PROVE  HostInv'
<1>1. /\ UNCHANGED <<config, linkVars, hostVars>>
      /\ at' \in {"none", "saml", "setup", "logout", "lingering"}
      /\ at' # "none" => sup' = "running"
      /\ sup # "killed" /\ at \in {"none", "saml", "setup", "logout", "lingering"}
  <2> USE DEF HostInv, ControlInv, supVars
  <2>1. CASE StartAttempt
    BY <2>1 DEF StartAttempt, Answered, WakeUp, Running
  <2>2. CASE GivesUp
    BY <2>2 DEF GivesUp, PromptFails, StopSleeping
  <2>3. CASE \E good \in BOOLEAN : SamlRequest(good)
    BY <2>3 DEF SamlRequest, Returns
  <2>4. CASE SamlUnavailable \/ CancelSaml
    BY <2>4 DEF SamlUnavailable, CancelSaml, Returns
  <2>5. CASE PortalStep
    <3>1. UNCHANGED config
      <4> USE DEF Fail, Request
      <4>1. CASE PortalConnect
        BY <4>1 DEF PortalConnect, Connect
      <4>2. CASE PortalBroken
        BY <4>2 DEF PortalBroken, Broken
      <4>3. CASE PortalMalformed
        BY <4>3 DEF PortalMalformed, Malformed
      <4>4. CASE PortalRefusal \/ PortalBadForm
        BY <4>4 DEF PortalRefusal, OnRefusal, PortalBadForm, OnBadForm
      <4>5. CASE PortalOtpForm \/ PortalToken
        BY <4>5 DEF PortalOtpForm, OnOtpForm, PortalToken, OnToken
      <4>6. CASE PortalCookie \/ PortalPrompt
        BY <4>6 DEF PortalCookie, OnCookie, PortalPrompt, OnPrompt
      <4>7. CASE PortalReply \/ PortalConfig \/ PortalStart \/ PortalLogout
        BY <4>7 DEF PortalReply, OnReply, PortalConfig, OnConfig, PortalStart, StartTunnel,
                    PortalLogout, OnLogoutReply
      <4> QED
        BY <2>5, <4>1, <4>2, <4>3, <4>4, <4>5, <4>6, <4>7 DEF PortalStep
    <3>2. InPortal /\ Elsewhere
      BY <2>5 DEF PortalStep, PortalConnect, PortalBroken, PortalMalformed, PortalRefusal,
                  PortalBadForm, PortalOtpForm, PortalToken, PortalCookie, PortalPrompt,
                  PortalReply, PortalConfig, PortalStart, PortalLogout
    <3> QED
      BY <3>1, <3>2 DEF InPortal, Elsewhere
  <2>6. CASE LoggedOut \/ LogoutTimeout \/ Lingers \/ PromptEnds
    BY <2>6 DEF LoggedOut, LogoutTimeout, Lingers, PromptEnds, Returns
  <2> QED
    BY <2>1, <2>2, <2>3, <2>4, <2>5, <2>6
<1>2. ~host.tun
  BY <1>1 DEF HostInv, ControlInv
<1> QED
  BY <1>1, <1>2, NoInterfaceKeeps, HostUntouched DEF HostInv

\* Link::run, as long as it does nothing to the host.
LEMMA LinkKeeps ==
  ASSUME HostInv,
         \/ SetupReady \/ (\E b \in Batches : PppActs(b)) \/ Perform
         \/ (\E result \in {"down", "error"} : LinkBreaks(result)) \/ CancelLink
         \/ RaiseTun(FALSE)
  PROVE  HostInv'
<1> USE DEF HostInv
<1>1. CASE SetupReady
  <2>1. <<"send">> \in Seq(PppActions) /\ OneUp(<<"send">>) /\ ~HasUp(<<"send">>)
    BY DEF PppActions, OneUp, HasUp
  <2>2. ControlInv'
    BY <1>1, <2>1 DEF SetupReady, ControlInv, supVars, hostVars
  <2> QED
    BY <1>1, <2>2, HostUntouched DEF SetupReady, ControlInv, supVars
<1>2. ASSUME NEW b \in Batches, PppActs(b)
      PROVE  HostInv'
  <2>1. b \in Seq(PppActions) /\ OneUp(b) /\ (HasUp(b) => ~wasUp)
        /\ wasUp' = (wasUp \/ HasUp(b)) /\ todo' = b
    BY <1>2, BatchesAssumption DEF PppActs, PppActions, OneUp, HasUp, Continue
  <2>2. at = "link" /\ at' = IF b = <<>> THEN "link" ELSE "perform"
    BY <1>2 DEF PppActs, Continue
  <2>3. UNCHANGED <<supVars, config, hostVars>>
    BY <1>2 DEF PppActs
  <2>4. ControlInv'
    BY <2>1, <2>2, <2>3 DEF ControlInv, supVars, hostVars
  <2> QED
    BY <2>2, <2>3, <2>4, HostUntouched DEF supVars
<1>3. CASE \E result : at \in {"link", "perform"} /\ LinkEnds(result)
                        /\ UNCHANGED <<supVars, config, hostVars>>
  BY <1>3, LinkEndsKeeps, HostUntouched DEF LinkEnds, supVars
<1>4. CASE Perform
  <2>1. CASE Head(todo) \in {"send", "deliver"} /\ Continue(Tail(todo)) /\ UNCHANGED wasUp
    <3>1. at = "perform" /\ todo # <<>> /\ UNCHANGED <<supVars, config, hostVars>>
      BY <1>4 DEF Perform, ControlInv
    <3>2. /\ todo' \in Seq(PppActions) /\ OneUp(todo)' /\ (HasUp(todo)' => HasUp(todo))
          /\ at' = IF todo' = <<>> THEN "link" ELSE "perform"
      BY <2>1, <3>1, TailUps DEF Continue, ControlInv, OneUp, HasUp
    <3>3. ControlInv'
      BY <2>1, <3>1, <3>2 DEF ControlInv, supVars, hostVars
    <3> QED
      BY <3>1, <3>2, <3>3, HostUntouched DEF supVars
  <2>2. CASE LinkEnds("error") \/ LinkEnds("down")
    BY <1>3, <1>4, <2>2 DEF Perform
  <2> QED
    BY <1>4, <2>1, <2>2 DEF Perform
<1>5. CASE \/ (\E result \in {"down", "error"} : LinkBreaks(result)) \/ CancelLink
           \/ RaiseTun(FALSE)
  BY <1>3, <1>5 DEF LinkBreaks, CancelLink, RaiseTun
<1> QED
  BY <1>1, <1>2, <1>4, <1>5

\* Signals, and the process's sudden end.
LEMMA SignalsKeep ==
  ASSUME HostInv, SignalArrives \/ ProcessExits
  PROVE  HostInv'
<1>1. CASE SignalArrives
  <2>1. ControlInv' /\ sup' = sup
    BY <1>1 DEF SignalArrives, Signal, HostInv, ControlInv, linkVars, hostVars
  <2>2. RoutesInv => RoutesInv'
    BY <1>1 DEF SignalArrives, RoutesInv, hostVars
  <2> QED
    BY <2>1, <2>2 DEF HostInv
<1>2. CASE ProcessExits
  <2>1. DOMAIN host' = Fields /\ host'.tun = FALSE
    BY <1>2 DEF ProcessExits, DropTun, HostInv, ControlInv, Fields
  <2> QED
    BY <1>2, <2>1 DEF ProcessExits, SecondSignal, HostInv, ControlInv, linkVars
<1> QED
  BY <1>1, <1>2

\* Setting or removing nameservers, and other programs' edits of resolv.conf,
\* leave the routes and what is remembered of them.
SameRoutes(h, n) ==
  /\ DOMAIN n = Fields /\ n.tun = h.tun /\ n.table = h.table
  /\ n.gateway = h.gateway /\ n.replaced = h.replaced

LEMMA DnsSameRoutes ==
  ASSUME NEW h, DOMAIN h = Fields, NEW tool \in {"file", "resolvconf", "resolvectl"},
         NEW servers, NEW domains, NEW f
  PROVE  SameRoutes(h, InstallDns(h, tool, servers, domains, f))
         /\ SameRoutes(h, RemoveDns(h, f))
<1> DEFINE edit == EditResolvConf(h.resolv, servers, domains)
           new == [tool |-> "file", added |-> edit.added, search |-> edit.search]
           some == [h.dns EXCEPT !.tool = tool]
           gone == [h EXCEPT !.dns = NothingInstalled]
           old == RestoreResolvConf(gone.resolv, h.dns.added, h.dns.search)
<1>1. \/ InstallDns(h, tool, servers, domains, f) = h
      \/ InstallDns(h, tool, servers, domains, f) =
           [h EXCEPT !.record = TRUE, !.dns.tool = tool]
      \/ InstallDns(h, tool, servers, domains, f) = [h EXCEPT !.dns.tool = tool]
      \/ InstallDns(h, tool, servers, domains, f) =
           [h EXCEPT !.resolv = edit.lines, !.dns = new]
  BY DEF InstallDns
<1>2. \/ RemoveDns(h, f) = gone
      \/ RemoveDns(h, f) = [gone EXCEPT !.record = FALSE]
      \/ RemoveDns(h, f) = [gone EXCEPT !.resolv = old]
  BY DEF RemoveDns
<1> HIDE DEF edit, new, old
<1>3. SameRoutes(h, InstallDns(h, tool, servers, domains, f))
  BY <1>1 DEF SameRoutes, Fields
<1>4. SameRoutes(h, gone)
  BY DEF SameRoutes, Fields
<1> HIDE DEF gone
<1>5. SameRoutes(h, RemoveDns(h, f))
  BY <1>2, <1>4 DEF SameRoutes, Fields
<1> QED
  BY <1>3, <1>5

LEMMA SameRoutesKeep ==
  ASSUME RoutesInv, SameRoutes(host, host'), UNCHANGED <<config, spoiled, exposed>>,
         before'.table = before.table, at # "routes", at' # "routes"
  PROVE  RoutesInv'
<1>1. /\ SoundTable(host', config.platform) <=> SoundTable(host, config.platform)
      /\ Remembered(host', config.platform) <=> Remembered(host, config.platform)
      /\ Left(host') = Left(host)
  BY DEF SameRoutes, SoundTable, Remembered, Left
<1> QED
  BY <1>1 DEF RoutesInv, SameRoutes

\* bring_up.
LEMMA RaiseKeeps ==
  ASSUME HostInv, RaiseTun(TRUE) \/ RaiseRoutes \/ RaiseDns
  PROVE  HostInv'
<1> USE DEF HostInv
<1>1. CASE RaiseTun(TRUE)
  <2>1. /\ at = "perform" /\ at' = "routes" /\ host' = CreateTun(host, config.peerIsGateway)
        /\ before' = Visible(host) /\ UNCHANGED <<supVars, config, linkVars>>
        /\ Head(todo) = "up"
    BY <1>1 DEF RaiseTun
  <2>2. HasUp(todo) /\ todo # <<>>
    BY <2>1, TailUps DEF ControlInv
  <2>3. ~host.tun /\ wasUp /\ sup = "running"
    BY <2>1, <2>2 DEF ControlInv
  <2>4. /\ DOMAIN host' = Fields /\ SoundTable(host', config.platform) /\ Fresh(host')
        /\ host'.tun = TRUE /\ Left(host') = host.table
    BY <2>1, <2>3, CreateTunFresh DEF RoutesInv, ControlInv
  <2>5. before'.table = host.table /\ DOMAIN before' = {"table", "resolv", "record"}
    BY <2>1 DEF Visible
  <2>6. ControlInv'
    BY <2>1, <2>2, <2>3, <2>4, <2>5 DEF ControlInv, supVars, linkVars
  <2>7. Remembered(host', config.platform)
    BY <2>4 DEF Fresh, Remembered
  <2> QED
    BY <2>1, <2>4, <2>5, <2>6, <2>7 DEF RoutesInv
<1>2. CASE RaiseRoutes
  <2>1. /\ at = "routes" /\ at' = "dns"
        /\ UNCHANGED <<supVars, config, linkVars, before, spoiled>>
    BY <1>2 DEF RaiseRoutes
  <2>2. /\ host.tun /\ sup = "running" /\ DOMAIN host = Fields /\ Fresh(host)
        /\ SoundTable(host, config.platform) /\ Left(host) = before.table
    BY <2>1 DEF ControlInv, RoutesInv
  <2>3. /\ DOMAIN host' = Fields /\ host'.tun = host.tun
        /\ SoundTable(host', config.platform) /\ Remembered(host', config.platform)
        /\ Left(host') = Left(host)
        /\ config.v4 /\ ~exposed' /\ Tunnelled(host'.table) => Guarded(host'.table)
    <3>1. PICK f \in RouteFailures :
            LET protect == IF config.v4 THEN ProtectGateway(host, f) ELSE <<host, TRUE>>
            IN  /\ host' = IF config.routing = "off" THEN host
                           ELSE SetRoutes(protect[1], protect[2], config.platform,
                                          config.routing = "half", config.networks, f)
                /\ exposed' = (config.networks # {} /\ ~protect[2])
      BY <1>2 DEF RaiseRoutes
    <3> DEFINE protect == IF config.v4 THEN ProtectGateway(host, f) ELSE <<host, TRUE>>
               h == protect[1]
    <3>2. /\ DOMAIN h = Fields /\ SoundTable(h, config.platform) /\ h.replaced = NoRoute
          /\ h.tun = host.tun /\ Left(h) = Left(host)
          /\ \A r \in h.table : r.dev = "tun" => r = Route("gateway", "tun", 0)
          /\ config.v4 /\ protect[2] => Guarded(h.table)
      <4>1. CASE config.v4
        BY <4>1, <2>2, ProtectLeaves
      <4>2. CASE ~config.v4
        BY <4>2, <2>2 DEF Fresh
      <4> QED
        BY <4>1, <4>2
    <3>3. CASE config.routing = "off"
      <4>1. host' = host
        BY <3>1, <3>3
      <4>2. ~Tunnelled(host.table)
        BY <2>2 DEF Fresh, Tunnelled, Route
      <4> QED
        BY <2>2, <4>1, <4>2 DEF Fresh, Remembered
    <3>4. CASE config.routing # "off"
      <4>1. host' = SetRoutes(h, protect[2], config.platform, config.routing = "half",
                              config.networks, f)
        BY <3>1, <3>4
      <4>2. config.networks \in SUBSET Networks
        BY ConfigsAssumption DEF ControlInv
      <4>e. exposed' = (config.networks # {} /\ ~protect[2])
        BY <3>1
      <4> HIDE DEF protect, h
      <4>3. /\ Routed(h, host', config.platform, Destinations \ {"gateway"})
            /\ Tunnelled(host'.table) => protect[2] \/ config.networks # {}
        BY <3>2, <4>1, <4>2, RoutesSet
      <4>4. Guarded(h.table) => Guarded(host'.table)
        BY <4>3 DEF Routed, Guarded
      <4> QED
        BY <3>2, <4>e, <4>3, <4>4 DEF Routed
    <3> QED
      BY <3>3, <3>4
  <2>4. ControlInv'
    BY <2>1, <2>2, <2>3 DEF ControlInv, supVars, linkVars
  <2> QED
    BY <2>1, <2>2, <2>3, <2>4 DEF RoutesInv
<1>3. CASE RaiseDns
  <2>1. /\ at = "dns" /\ Continue(Tail(todo))
        /\ UNCHANGED <<supVars, config, wasUp, before, spoiled, exposed>>
    BY <1>3 DEF RaiseDns
  <2>2. SameRoutes(host, host')
    <3>1. CASE config.dns = "off"
      BY <1>3, <3>1 DEF RaiseDns, SameRoutes, ControlInv
    <3>2. CASE config.dns # "off"
      BY <1>3, <3>2, DnsSameRoutes, ConfigsAssumption DEF RaiseDns, ControlInv
    <3> QED
      BY <3>1, <3>2
  <2>3. /\ todo' \in Seq(PppActions) /\ OneUp(todo)' /\ ~HasUp(todo')
        /\ at' = IF todo' = <<>> THEN "link" ELSE "perform"
    BY <2>1, TailUps DEF Continue, ControlInv, OneUp
  <2>4. ControlInv'
    BY <2>1, <2>2, <2>3 DEF ControlInv, supVars, SameRoutes
  <2> QED
    BY <2>1, <2>2, <2>3, <2>4, SameRoutesKeep DEF supVars
<1> QED
  BY <1>1, <1>2, <1>3

\* teardown, and the edits of others.
LEMMA TeardownKeeps ==
  ASSUME HostInv, TeardownDns \/ TeardownRoutes \/ OtherEdits
  PROVE  HostInv'
<1> USE DEF HostInv
<1>1. CASE TeardownDns
  <2>1. /\ at = "undns" /\ at' = "unroute"
        /\ UNCHANGED <<supVars, config, linkVars, before, exposed>>
    BY <1>1 DEF TeardownDns
  <2>2. SameRoutes(host, host')
    <3>1. PICK f : host' = RemoveDns(host, f)
      BY <1>1 DEF TeardownDns
    <3>2. SameRoutes(host, RemoveDns(host, f))
      BY DnsSameRoutes DEF ControlInv
    <3> QED
      BY <3>1, <3>2
  <2>3. ControlInv'
    BY <2>1, <2>2 DEF ControlInv, supVars, linkVars, SameRoutes
  <2>4. host.tun /\ host'.tun /\ sup = "running"
    BY <2>1, <2>2 DEF ControlInv, SameRoutes
  <2>5. /\ SoundTable(host', config.platform) <=> SoundTable(host, config.platform)
        /\ Remembered(host', config.platform) <=> Remembered(host, config.platform)
        /\ Left(host') = Left(host)
    BY <2>2 DEF SameRoutes, SoundTable, Remembered, Left
  <2> QED
    BY <2>1, <2>2, <2>3, <2>4, <2>5 DEF RoutesInv, SameRoutes
<1>2. CASE TeardownRoutes
  <2>1. /\ at = "unroute" /\ at' = "close" /\ UNCHANGED <<supVars, config, linkVars, before>>
    BY <1>2 DEF TeardownRoutes
  <2>2. host.tun /\ sup = "running"
    BY <2>1 DEF ControlInv
  <2>3. PICK f : /\ host' = DropTun(RestoreRoutes(host, config.platform, f))
                 /\ spoiled' = \/ spoiled
                               \/ "back" \in f /\ host.replaced # NoRoute
                               \/ "unpin" \in f /\ host.gateway
    BY <1>2 DEF TeardownRoutes
  <2>4. /\ DOMAIN host' = Fields /\ SoundTable(host', config.platform) /\ host'.tun = FALSE
        /\ host'.gateway = FALSE /\ host'.replaced = NoRoute
        /\ \A r \in host'.table : r.dev # "tun"
        /\ ~spoiled' => host'.table = Left(host)
    BY <2>2, <2>3, RestoreLeaves DEF ControlInv, RoutesInv
  <2>5. ControlInv'
    BY <2>1, <2>2, <2>4 DEF ControlInv, supVars, linkVars
  <2> QED
    BY <2>1, <2>2, <2>4, <2>5 DEF RoutesInv
<1>3. CASE OtherEdits
  <2>1. /\ at = "link" /\ UNCHANGED <<supVars, config, at, linkVars, spoiled, exposed>>
        /\ SameRoutes(host, host') /\ before'.table = before.table
        /\ DOMAIN before' = {"table", "resolv", "record"}
    BY <1>3 DEF OtherEdits, SameRoutes, ControlInv, Fields
  <2>2. ControlInv'
    BY <2>1 DEF ControlInv, supVars, linkVars, SameRoutes
  <2> QED
    BY <2>1, <2>2, SameRoutesKeep DEF supVars
<1> QED
  BY <1>1, <1>2, <1>3

LEMMA StepKeepsHost ==
  ASSUME HostInv, [Next]_vars
  PROVE  HostInv'
<1>1. CASE SetupFails \/ CancelSetup \/ ClosePpp
  BY <1>1, EndKeepsHost, OutsideKeeps, CancelSetupCases DEF SetupFails, ClosePpp
<1>2. CASE UNCHANGED vars
  BY <1>2 DEF vars, HostInv, ControlInv, RoutesInv, supVars, linkVars, hostVars
<1>3. CASE \E ok \in BOOLEAN : RaiseTun(ok)
  BY <1>3, LinkKeeps, RaiseKeeps
<1> QED
  BY <1>1, <1>2, <1>3, OutsideKeeps, LinkKeeps, SignalsKeep, RaiseKeeps, TeardownKeeps
  DEF Next, Inner

\* Routes::restore undoes what bring_up did, whatever of it succeeded: the
\* table is as it was, unless a command that restores it failed.
THEOREM RoutesAreRestored == Spec => []RoutesRestored
<1>1. HostInv => RoutesRestored
  BY DEF HostInv, ControlInv, RoutesInv, RoutesRestored
<1> QED
  BY HostInit, StepKeepsHost, <1>1, PTL DEF Spec

\* set_routes gives everything to the tunnel only past protect_gateway: the
\* connection the tunnel runs on never goes through it, whatever the networks
\* the gateway names are, unless these were routed past an unprotected gateway,
\* of which the code only warns.
THEOREM GatewayStaysOutside == Spec => []GatewayOutside
<1>1. HostInv => GatewayOutside
  <2> SUFFICES ASSUME HostInv, host.tun, config.v4, ~exposed, Tunnelled(host.table)
               PROVE  Towards(host.table) # NoRoute /\ Towards(host.table).dev # "tun"
    BY DEF GatewayOutside, Tunnelled
  <2>1. RoutesInv
    BY DEF HostInv, ControlInv
  <2>2. ~(at = "routes")
    BY <2>1 DEF RoutesInv, Fresh, Tunnelled, Route
  <2>3. Guarded(host.table) /\ \A r \in host.table : r # NoRoute /\ r.metric \in Nat
    BY <2>1, <2>2 DEF RoutesInv, SoundTable
  <2> QED
    BY <2>3, GuardedTowards
<1> QED
  BY HostInit, StepKeepsHost, <1>1, PTL DEF Spec

-----------------------------------------------------------------------------
(* Types.                                                                  *)

\* Everything but the host: a wait for the browser has a bad request left.
ControlTypes ==
  /\ SupTypeOK /\ PortalTypeOK
  /\ at \in {"none", "saml", "setup", "link", "perform", "routes", "dns", "undns",
             "unroute", "close", "logout", "lingering"}
  /\ bad \in 0..MaxBadRequests /\ (at = "saml" => bad < MaxBadRequests)
  /\ wasUp \in BOOLEAN /\ spoiled \in BOOLEAN /\ exposed \in BOOLEAN
  /\ outcome \in {"none", "stopped", "down", "error"}

\* What is known of a host at any time, and of what it was.
HostTypes(h) ==
  h.gateway \in BOOLEAN /\ h.record \in BOOLEAN /\ h.networks \subseteq Destinations

TableTypes ==
  /\ host.table \subseteq Routes /\ before.table \subseteq Routes
  /\ host.replaced \in Routes \cup {NoRoute}

LEMMA ControlTypesInit == Init => ControlTypes
<1> SUFFICES ASSUME Init PROVE ControlTypes
  OBVIOUS
<1>1. SupTypeOK /\ PortalTypeOK
  BY DEF Init, SupInit, SupTypeOK, PortalTypeOK
<1>2. 0 \in 0..MaxBadRequests
  BY MaxBadRequestsAssumption
<1>3. /\ at = "none" /\ bad = 0 /\ wasUp = FALSE /\ spoiled = FALSE /\ outcome = "none"
      /\ exposed = FALSE
  BY DEF Init
<1> QED
  BY <1>1, <1>2, <1>3 DEF ControlTypes

\* The end of run, and its return.
LEMMA ReturnsTypes ==
  ASSUME ControlTypes, NEW result \in {"none", "stopped", "down", "error"},
         Returns(result) \/ LogOutAndReturn(result),
         UNCHANGED <<linkVars, hostVars>>, bad' \in 0..MaxBadRequests
  PROVE  ControlTypes'
<1>1. SupTypeOK'
  BY DEF LogOutAndReturn, Returns, Ends, ControlTypes, SupTypeOK, supVars
<1>2. PortalTypeOK'
  BY DEF LogOutAndReturn, Returns, StartLogout, ControlTypes, PortalTypeOK, Connections
<1>3. /\ at' \in {"none", "logout"} /\ outcome' \in {"none", "stopped", "down", "error"}
      /\ wasUp' \in BOOLEAN /\ spoiled' \in BOOLEAN /\ exposed' \in BOOLEAN
  BY DEF LogOutAndReturn, Returns, ControlTypes, linkVars, hostVars
<1> QED
  BY <1>1, <1>2, <1>3 DEF ControlTypes

\* A step of the portal: what a request makes of its fields.
LEMMA PortalTypes ==
  ASSUME PortalTypeOK, PortalStep
  PROVE  PortalTypeOK'
<1> USE DEF PortalTypeOK, Requests, LoginRequests, Connections, Prompts, Fail, Request
<1>1. CASE PortalConnect
  BY <1>1 DEF PortalConnect, Connect
<1>2. CASE PortalBroken
  BY <1>2 DEF PortalBroken, Broken, Acts
<1>3. CASE PortalMalformed
  BY <1>3 DEF PortalMalformed, Malformed, Acts
<1>4. CASE PortalRefusal \/ PortalBadForm
  BY <1>4 DEF PortalRefusal, OnRefusal, PortalBadForm, OnBadForm
<1>5. CASE PortalOtpForm \/ PortalToken
  BY <1>5 DEF PortalOtpForm, OnOtpForm, PortalToken, OnToken, Answer
<1>6. CASE PortalCookie \/ PortalPrompt
  BY <1>6 DEF PortalCookie, OnCookie, PortalPrompt, OnPrompt
<1>7. CASE PortalReply \/ PortalConfig \/ PortalStart
  BY <1>7 DEF PortalReply, OnReply, PortalConfig, OnConfig, PortalStart, StartTunnel
<1>8. CASE PortalLogout
  BY <1>8 DEF PortalLogout, OnLogoutReply
<1> QED
  BY <1>1, <1>2, <1>3, <1>4, <1>5, <1>6, <1>7, <1>8 DEF PortalStep

LEMMA StepKeepsControlTypes ==
  ASSUME ControlTypes, [Next]_vars
  PROVE  ControlTypes'
<1> USE MaxBadRequestsAssumption
<1>1. CASE StartAttempt
  <2>1. SupTypeOK' /\ sup' = "running"
    BY <1>1 DEF StartAttempt, Answered, WakeUp, Running, ControlTypes, SupTypeOK
  <2>2. PortalTypeOK'
    BY <1>1 DEF StartAttempt, StartPortal, ControlTypes, PortalTypeOK, portalVars, Requests,
                LoginRequests
  <2>3. (at' = "setup" /\ bad' = bad) \/ (at' = "saml" /\ bad' = 0)
    BY <1>1 DEF StartAttempt
  <2> QED
    BY <1>1, <2>1, <2>2, <2>3 DEF StartAttempt, ControlTypes, linkVars, hostVars
<1>2. CASE SignalArrives \/ GivesUp \/ ProcessExits
  <2>1. SupTypeOK'
    BY <1>2 DEF SignalArrives, GivesUp, Signal, PromptFails, StopSleeping, ProcessExits,
                SecondSignal, ControlTypes, SupTypeOK
  <2>2. PortalTypeOK'
    BY <1>2 DEF SignalArrives, GivesUp, ProcessExits, ControlTypes, PortalTypeOK, portalVars
  <2> QED
    BY <1>2, <2>1, <2>2 DEF SignalArrives, GivesUp, ProcessExits, ControlTypes, linkVars, hostVars
<1>3. ASSUME NEW good \in BOOLEAN, SamlRequest(good)
      PROVE  ControlTypes'
  <2>1. CASE good
    <3>1. PortalTypeOK'
      BY <1>3, <2>1 DEF SamlRequest, StartPortal, ControlTypes, PortalTypeOK, Requests,
                        LoginRequests
    <3> QED
      BY <1>3, <2>1, <3>1 DEF SamlRequest, ControlTypes, SupTypeOK, supVars, linkVars, hostVars
  <2>2. CASE ~good
    <3>1. bad' \in 0..MaxBadRequests /\ bad' = bad + 1
      BY <1>3, <2>2 DEF SamlRequest, ControlTypes
    <3>2. CASE bad + 1 < MaxBadRequests
      BY <1>3, <2>2, <3>1, <3>2 DEF SamlRequest, ControlTypes, SupTypeOK, PortalTypeOK,
                                    portalVars, supVars, linkVars, hostVars
    <3>3. CASE ~(bad + 1 < MaxBadRequests)
      BY <1>3, <2>2, <3>1, <3>3, ReturnsTypes DEF SamlRequest
    <3> QED
      BY <3>2, <3>3
  <2> QED
    BY <2>1, <2>2
<1>4. CASE SamlUnavailable \/ CancelSaml
  BY <1>4, ReturnsTypes DEF SamlUnavailable, CancelSaml, ControlTypes
<1>5. CASE PortalStep
  <2>1. PortalTypeOK'
    BY <1>5, PortalTypes DEF ControlTypes
  <2>2. Elsewhere
    BY <1>5 DEF PortalStep, PortalConnect, PortalBroken, PortalMalformed, PortalRefusal,
                PortalBadForm, PortalOtpForm, PortalToken, PortalCookie, PortalPrompt,
                PortalReply, PortalConfig, PortalStart, PortalLogout
  <2> QED
    BY <2>1, <2>2 DEF Elsewhere, ControlTypes, SupTypeOK, supVars, linkVars, hostVars
<1>6. CASE SetupFails \/ PromptEnds
  BY <1>6, ReturnsTypes DEF SetupFails, PromptEnds, ControlTypes
<1>16. CASE CancelSetup
  <2>1. CASE Lingers /\ bad' = bad
    BY <2>1 DEF Lingers, ControlTypes, SupTypeOK, PortalTypeOK, supVars, portalVars, linkVars,
                hostVars
  <2>2. CASE LogOutAndReturn("stopped") /\ UNCHANGED <<bad, linkVars, hostVars>>
    BY <2>2, ReturnsTypes DEF ControlTypes
  <2> QED
    BY <1>16, <2>1, <2>2, CancelSetupCases
<1>7. CASE ClosePpp \/ LoggedOut
  BY <1>7, ReturnsTypes DEF ClosePpp, LoggedOut, ControlTypes
<1>8. CASE LogoutTimeout
  BY <1>8 DEF LogoutTimeout, Acts, ControlTypes, SupTypeOK, PortalTypeOK, supVars, linkVars,
              hostVars
<1>9. CASE SetupReady
  BY <1>9 DEF SetupReady, ControlTypes, SupTypeOK, PortalTypeOK, supVars, hostVars
<1>10. ASSUME UNCHANGED <<supVars, portalVars, bad>>, at' # "saml",
              at' \in {"link", "perform", "routes", "dns", "undns", "unroute", "close"},
              wasUp' \in BOOLEAN, spoiled' \in BOOLEAN, exposed' \in BOOLEAN,
              outcome' \in {"none", "stopped", "down", "error"}
       PROVE  ControlTypes'
  BY <1>10 DEF ControlTypes, SupTypeOK, PortalTypeOK, supVars, portalVars
<1>11. CASE \/ \E b \in Batches : PppActs(b)
            \/ \E result \in {"down", "error"} : LinkBreaks(result)
            \/ CancelLink \/ OtherEdits \/ Perform
  BY <1>10, <1>11 DEF PppActs, LinkBreaks, CancelLink, OtherEdits, Perform, Continue, LinkEnds,
                      hostVars, linkVars, ControlTypes
<1>12. CASE \E ok \in BOOLEAN : RaiseTun(ok)
  BY <1>10, <1>12 DEF RaiseTun, LinkEnds, hostVars, linkVars, ControlTypes
<1>13. CASE RaiseRoutes \/ RaiseDns
  <2>1. exposed' \in BOOLEAN
    BY <1>13 DEF RaiseRoutes, RaiseDns, ControlTypes
  <2> QED
    BY <1>10, <1>13, <2>1 DEF RaiseRoutes, RaiseDns, Continue, linkVars, ControlTypes
<1>14. CASE TeardownDns \/ TeardownRoutes
  <2>1. spoiled' \in BOOLEAN
    BY <1>14 DEF TeardownDns, TeardownRoutes
  <2> QED
    BY <1>10, <1>14, <2>1 DEF TeardownDns, TeardownRoutes, linkVars, ControlTypes
<1>15. CASE UNCHANGED vars
  BY <1>15 DEF vars, ControlTypes, SupTypeOK, PortalTypeOK, supVars, portalVars, linkVars,
               hostVars
<1> QED
  BY <1>1, <1>2, <1>3, <1>4, <1>5, <1>6, <1>7, <1>8, <1>9, <1>11, <1>12, <1>13, <1>14, <1>15,
     <1>16
  DEF Next, Inner

\* The functions of HostNet keep what is remembered of a host what it is.
LEMMA ProtectTypes ==
  ASSUME NEW h, NEW f, DOMAIN h = Fields, HostTypes(h)
  PROVE  DOMAIN ProtectGateway(h, f)[1] = Fields /\ HostTypes(ProtectGateway(h, f)[1])
<1>1. \/ ProtectGateway(h, f)[1] = h
      \/ \E t : ProtectGateway(h, f)[1] = [h EXCEPT !.table = t]
      \/ \E t : ProtectGateway(h, f)[1] = [h EXCEPT !.table = t, !.gateway = TRUE]
  BY DEF ProtectGateway
<1> QED
  BY <1>1 DEF Fields, HostTypes

LEMMA AddTypes ==
  ASSUME NEW h, NEW nets \in SUBSET Destinations, NEW f, DOMAIN h = Fields, HostTypes(h)
  PROVE  HostTypes(AddNetworks(h, nets, f))
<1> DEFINE new == {n \in nets \ f : ~Exists(h.table, n)}
           ours == {Route(n, "tun", 0) : n \in new}
<1>1. AddNetworks(h, nets, f) = [h EXCEPT !.table = @ \cup ours, !.networks = @ \cup new]
  BY DEF AddNetworks
<1>2. new \subseteq Destinations
  OBVIOUS
<1> HIDE DEF new, ours
<1> QED
  BY <1>1, <1>2 DEF Fields, HostTypes

LEMMA SetRoutesTypes ==
  ASSUME NEW h, NEW protected, NEW platform, NEW half, NEW nets \in SUBSET Networks, NEW f,
         DOMAIN h = Fields, HostTypes(h)
  PROVE  HostTypes(SetRoutes(h, protected, platform, half, nets, f))
<1>1. CASE nets # {}
  <2>1. nets \ {"gateway"} \in SUBSET Destinations
    BY DEF Destinations
  <2> QED
    BY <1>1, <2>1, AddTypes DEF SetRoutes
<1>2. HostTypes(SetDefault(h, platform, half, f))
  <2>1. CASE half
    <3> DEFINE two == IF "low" \in f THEN {} ELSE {"low", "high"}
    <3>1. two \in SUBSET Destinations
      BY DEF Destinations
    <3> QED
      BY <2>1, <3>1, AddTypes DEF SetDefault
  <2>2. CASE ~half
    <3>1. \/ ReplaceDefault(h, platform, f) = h
          \/ \E t : ReplaceDefault(h, platform, f) = [h EXCEPT !.table = t]
          \/ \E t, r : ReplaceDefault(h, platform, f) =
                         [h EXCEPT !.table = t, !.replaced = r]
      BY DEF ReplaceDefault, ReplaceDefaultLinux, ReplaceDefaultBsd
    <3>2. HostTypes(ReplaceDefault(h, platform, f))
      BY <3>1 DEF Fields, HostTypes
    <3> QED
      BY <2>2, <3>2 DEF SetDefault
  <2> QED
    BY <2>1, <2>2
<1> QED
  BY <1>1, <1>2 DEF SetRoutes

LEMMA DnsTypes ==
  ASSUME NEW h, DOMAIN h = Fields, NEW tool \in {"file", "resolvconf", "resolvectl"},
         NEW servers, NEW domains, NEW f, HostTypes(h)
  PROVE  /\ HostTypes(InstallDns(h, tool, servers, domains, f))
         /\ HostTypes(RemoveDns(h, f))
<1>1. \/ InstallDns(h, tool, servers, domains, f) = h
      \/ \E d : InstallDns(h, tool, servers, domains, f) = [h EXCEPT !.record = TRUE, !.dns = d]
      \/ \E d : InstallDns(h, tool, servers, domains, f) = [h EXCEPT !.dns = d]
      \/ \E d, l : InstallDns(h, tool, servers, domains, f) =
                     [h EXCEPT !.resolv = l, !.dns = d]
  BY DEF InstallDns
<1>2. \/ RemoveDns(h, f) = [h EXCEPT !.dns = NothingInstalled]
      \/ RemoveDns(h, f) = [h EXCEPT !.dns = NothingInstalled, !.record = FALSE]
      \/ \E l : RemoveDns(h, f) = [h EXCEPT !.dns = NothingInstalled, !.resolv = l]
  BY DEF RemoveDns, Fields
<1>3. HostTypes(InstallDns(h, tool, servers, domains, f))
  BY <1>1 DEF Fields, HostTypes
<1>4. HostTypes(RemoveDns(h, f))
  BY <1>2 DEF Fields, HostTypes
<1> QED
  BY <1>3, <1>4

\* The actions that change the host; the others leave it alone.
LEMMA HostActions ==
  ASSUME [Next]_vars
  PROVE  \/ UNCHANGED hostVars
         \/ ProcessExits \/ OtherEdits \/ (\E ok \in BOOLEAN : RaiseTun(ok))
         \/ RaiseRoutes \/ RaiseDns \/ TeardownDns \/ TeardownRoutes
<1>1. CASE \/ StartAttempt \/ SignalArrives \/ GivesUp
           \/ (\E good \in BOOLEAN : SamlRequest(good)) \/ SamlUnavailable \/ CancelSaml
           \/ CancelSetup \/ PromptEnds \/ (\E b \in Batches : PppActs(b))
           \/ (\E result \in {"down", "error"} : LinkBreaks(result)) \/ CancelLink
  BY <1>1 DEF StartAttempt, SignalArrives, GivesUp, SamlRequest, SamlUnavailable,
              CancelSaml, CancelSetup, PromptEnds, PppActs, LinkBreaks, CancelLink
<1>2. CASE PortalStep
  BY <1>2 DEF PortalStep, PortalConnect, PortalBroken, PortalMalformed, PortalRefusal,
              PortalBadForm, PortalOtpForm, PortalToken, PortalCookie, PortalPrompt,
              PortalReply, PortalConfig, PortalStart, PortalLogout, Elsewhere
<1>3. CASE SetupFails \/ SetupReady \/ Perform \/ ClosePpp \/ LoggedOut \/ LogoutTimeout
  BY <1>3 DEF SetupFails, SetupReady, Perform, ClosePpp, LoggedOut, LogoutTimeout
<1>4. CASE UNCHANGED vars
  BY <1>4 DEF vars
<1> QED
  BY <1>1, <1>2, <1>3, <1>4 DEF Next, Inner

LEMMA StepKeepsHostTypes ==
  ASSUME HostInv, HostTypes(host), [Next]_vars
  PROVE  HostTypes(host)'
<1>0. DOMAIN host = Fields /\ config \in Configs
  BY DEF HostInv, ControlInv
<1>1. CASE UNCHANGED host
  BY <1>1 DEF HostTypes
<1>2. CASE ProcessExits
  BY <1>0, <1>2 DEF ProcessExits, DropTun, HostTypes, Fields
<1>3. CASE OtherEdits
  BY <1>0, <1>3 DEF OtherEdits, HostTypes, Fields
<1>4. CASE \E ok \in BOOLEAN : RaiseTun(ok)
  BY <1>0, <1>1, <1>4 DEF RaiseTun, CreateTun, HostTypes, Fields, hostVars
<1>5. CASE RaiseRoutes
  <2>1. PICK f \in RouteFailures :
          LET protect == IF config.v4 THEN ProtectGateway(host, f) ELSE <<host, TRUE>>
          IN  host' = IF config.routing = "off" THEN host
                      ELSE SetRoutes(protect[1], protect[2], config.platform,
                                     config.routing = "half", config.networks, f)
    BY <1>5 DEF RaiseRoutes
  <2> DEFINE protect == IF config.v4 THEN ProtectGateway(host, f) ELSE <<host, TRUE>>
             h == protect[1]
  <2>2. DOMAIN h = Fields /\ HostTypes(h)
    BY <1>0, ProtectTypes
  <2>3. config.networks \in SUBSET Networks
    BY <1>0, ConfigsAssumption
  <2>4. host' = IF config.routing = "off" THEN host
                ELSE SetRoutes(h, protect[2], config.platform, config.routing = "half",
                               config.networks, f)
    BY <2>1
  <2> HIDE DEF h, protect
  <2>5. HostTypes(SetRoutes(h, protect[2], config.platform, config.routing = "half",
                            config.networks, f))
    BY <2>2, <2>3, SetRoutesTypes
  <2>6. HostTypes(host')
    BY <2>4, <2>5
  <2> QED
    BY <2>6 DEF HostTypes
<1>6. CASE RaiseDns
  <2>1. CASE config.dns = "off"
    BY <1>1, <1>6, <2>1 DEF RaiseDns
  <2>2. CASE config.dns # "off"
    <3>1. config.dns \in {"file", "resolvconf", "resolvectl"}
      BY <1>0, <2>2, ConfigsAssumption
    <3>2. PICK f : host' = InstallDns(host, config.dns, config.servers, config.domains, f)
      BY <1>6, <2>2 DEF RaiseDns
    <3>3. HostTypes(host')
      BY <1>0, <3>1, <3>2, DnsTypes
    <3> QED
      BY <3>3 DEF HostTypes
  <2> QED
    BY <2>1, <2>2
<1>7. CASE TeardownDns
  <2>1. PICK f : host' = RemoveDns(host, f)
    BY <1>7 DEF TeardownDns
  <2>2. HostTypes(RemoveDns(host, f))
    BY <1>0, DnsTypes
  <2> QED
    BY <2>1, <2>2 DEF HostTypes
<1>8. CASE TeardownRoutes
  <2>1. PICK f : host' = DropTun(RestoreRoutes(host, config.platform, f))
    BY <1>8 DEF TeardownRoutes
  <2>2. \E t : host' = [host EXCEPT !.networks = {}, !.replaced = NoRoute, !.gateway = FALSE,
                                    !.tun = FALSE, !.table = t]
    BY <1>0, <2>1 DEF DropTun, RestoreRoutes, Fields
  <2> QED
    BY <1>0, <2>2 DEF HostTypes, Fields
<1> QED
  BY <1>1, <1>2, <1>3, <1>4, <1>5, <1>6, <1>7, <1>8, HostActions DEF hostVars

\* The tables: routes before and after a step, and after the process is killed.
LEMMA StepKeepsTables ==
  ASSUME HostInv, TableTypes, HostInv', [Next]_vars
  PROVE  TableTypes'
<1>1. sup' # "killed" => host'.table \subseteq Routes /\ host'.replaced \in Routes \cup {NoRoute}
  BY DEF HostInv, ControlInv, RoutesInv, SoundTable, Remembered
<1>2. CASE UNCHANGED hostVars
  BY <1>2 DEF TableTypes, hostVars
<1>3. CASE ProcessExits
  <2>1. /\ host'.table \subseteq host.table /\ host'.replaced = host.replaced
        /\ before' = before
    BY <1>3 DEF ProcessExits, DropTun, HostInv, ControlInv, Fields
  <2> QED
    BY <2>1 DEF TableTypes
<1>4. CASE \/ OtherEdits \/ (\E ok \in BOOLEAN : RaiseTun(ok))
           \/ RaiseRoutes \/ RaiseDns \/ TeardownDns \/ TeardownRoutes
  <2>1. at # "none" /\ UNCHANGED supVars
    BY <1>4 DEF OtherEdits, RaiseTun, RaiseRoutes, RaiseDns, TeardownDns, TeardownRoutes
  <2>2. sup' # "killed"
    BY <2>1 DEF supVars, HostInv, ControlInv
  <2>3. before'.table \in {before.table, host.table}
    <3>1. CASE OtherEdits
      BY <3>1 DEF OtherEdits, HostInv, ControlInv
    <3>2. CASE \E ok \in BOOLEAN : RaiseTun(ok)
      BY <3>2 DEF RaiseTun, Visible, hostVars
    <3>3. CASE RaiseRoutes \/ RaiseDns \/ TeardownDns \/ TeardownRoutes
      BY <3>3 DEF RaiseRoutes, RaiseDns, TeardownDns, TeardownRoutes
    <3> QED
      BY <1>4, <3>1, <3>2, <3>3
  <2> QED
    BY <1>1, <2>2, <2>3 DEF TableTypes
<1> QED
  BY <1>2, <1>3, <1>4, HostActions

\* Whatever the gateway, the host's commands and the user do, every field of
\* the tunnel, the portal and the host is what the code takes it to be: at most
\* MAX_BAD_REQUESTS requests are refused, and only routes are in the table.
THEOREM SslTypes == Spec => []TypeOK
<1> DEFINE TypeInv == ControlTypes /\ HostTypes(host) /\ TableTypes
<1>1. Init => TypeInv
  <2> SUFFICES ASSUME Init PROVE TypeInv
    OBVIOUS
  <2>2. ControlTypes
    BY ControlTypesInit
  <2>3. host = NewHost(config) /\ before = Visible(host) /\ config \in Configs
    BY DEF Init
  <2>4. HostTypes(host)
    BY <2>3 DEF NewHost, HostTypes
  <2>5. TableTypes
    BY <2>3, ConfigsAssumption DEF NewHost, Visible, TableTypes, Ordinary
  <2> QED
    BY <2>2, <2>4, <2>5
<1>2. HostInv /\ TypeInv /\ [Next]_vars /\ HostInv' => TypeInv'
  BY StepKeepsControlTypes, StepKeepsHostTypes, StepKeepsTables
<1>3. HostInv /\ TypeInv => TypeOK
  BY DEF HostInv, ControlInv, ControlTypes, HostTypes, TableTypes, TypeOK, PppActions
<1> QED
  BY HostInit, StepKeepsHost, <1>1, <1>2, <1>3, PTL DEF Spec

-----------------------------------------------------------------------------
(* resolv.conf.                                                            *)

\* The lines a file had, in what it became with the lines we added on top and
\* our search line, if one was there, in the place of the old one.
Grown(lines, old, added, search) ==
  \E n \in 0 .. Len(lines) :
    /\ Len(old) = Len(lines) - n
    /\ \A i \in 1 .. n : lines[i] \in added /\ (search # <<>> => lines[i].key # "search")
    /\ \A i \in n + 1 .. Len(lines) :
         \/ lines[i] \notin added /\ old[i - n] = lines[i]
         \/ /\ lines[i] \in added /\ lines[i].key = "search"
            /\ search # <<>> /\ old[i - n] = search[1]

\* restore_resolv_conf leaves the lines there were.
LEMMA RestoreUndoes ==
  ASSUME NEW lines \in Seq(Lines), NEW old \in Seq(Lines), NEW added, NEW search,
         Grown(lines, old, added, search)
  PROVE  RestoreResolvConf(lines, added, search) = old
<1> DEFINE Stays(l) == l \notin added \/ (search # <<>> /\ l.key = "search")
           K == {i \in DOMAIN lines : Stays(lines[i])}
           rest == Retained(lines, K)
           new == [i \in DOMAIN rest |-> IF rest[i] \in added THEN search[1] ELSE rest[i]]
<1>1. PICK n \in 0 .. Len(lines) :
        /\ Len(old) = Len(lines) - n
        /\ \A i \in 1 .. n : lines[i] \in added /\ (search # <<>> => lines[i].key # "search")
        /\ \A i \in n + 1 .. Len(lines) :
             \/ lines[i] \notin added /\ old[i - n] = lines[i]
             \/ /\ lines[i] \in added /\ lines[i].key = "search"
                /\ search # <<>> /\ old[i - n] = search[1]
  BY DEF Grown
<1>2. \A k \in 1 .. Len(lines) : k \in K <=> k > n
  <2> TAKE k \in 1 .. Len(lines)
  <2>1. CASE k > n
    BY <1>1, <2>1
  <2>2. CASE ~(k > n)
    BY <1>1, <2>2
  <2> QED
    BY <2>1, <2>2
<1>3. RestoreResolvConf(lines, added, search) = IF added = {} THEN lines ELSE new
  BY DEF RestoreResolvConf
<1> HIDE DEF K
<1>4. /\ rest \in Seq(Lines) /\ Len(rest) = Len(lines) - n
      /\ \A j \in 1 .. Len(rest) : rest[j] = lines[n + j]
  BY <1>1, <1>2, RetainedEnd
<1> HIDE DEF rest
<1>5. \A j \in 1 .. Len(rest) : new[j] = old[j]
  <2> TAKE j \in 1 .. Len(rest)
  <2>1. n + j \in n + 1 .. Len(lines) /\ (n + j) - n = j
    BY <1>1, <1>4
  <2>2. rest[j] = lines[n + j]
    BY <1>4
  <2> QED
    BY <1>1, <1>4, <2>1, <2>2
<1>6. new = old
  BY <1>1, <1>4, <1>5
<1>7. CASE added = {}
  <2>1. n = 0
    <3> SUFFICES ASSUME n # 0 PROVE FALSE
      OBVIOUS
    <3>1. 1 \in 1 .. n
      BY <1>1
    <3> QED
      BY <1>1, <1>7, <3>1
  <2>2. Len(old) = Len(lines) /\ \A i \in 1 .. Len(lines) : old[i] = lines[i]
    BY <1>1, <1>7, <2>1
  <2>3. old = lines
    BY <2>2
  <2> QED
    BY <1>3, <1>7, <2>3
<1>8. CASE added # {}
  BY <1>3, <1>6, <1>8
<1> QED
  BY <1>7, <1>8

\* A line of others goes to the end, and is none of ours.
LEMMA AppendGrows ==
  ASSUME NEW lines \in Seq(Lines), NEW old \in Seq(Lines), NEW added, NEW search,
         Grown(lines, old, added, search), NEW line \in Lines, line \notin added
  PROVE  Grown(Append(lines, line), Append(old, line), added, search)
<1>1. PICK n \in 0 .. Len(lines) :
        /\ Len(old) = Len(lines) - n
        /\ \A i \in 1 .. n : lines[i] \in added /\ (search # <<>> => lines[i].key # "search")
        /\ \A i \in n + 1 .. Len(lines) :
             \/ lines[i] \notin added /\ old[i - n] = lines[i]
             \/ /\ lines[i] \in added /\ lines[i].key = "search"
                /\ search # <<>> /\ old[i - n] = search[1]
  BY DEF Grown
<1>2. PICK r : r = Append(lines, line)
  OBVIOUS
<1>3. PICK o : o = Append(old, line)
  OBVIOUS
<1>4. /\ Len(r) = Len(lines) + 1 /\ Len(o) = Len(old) + 1
      /\ r[Len(lines) + 1] = line /\ o[Len(old) + 1] = line
      /\ \A i \in 1 .. Len(lines) : r[i] = lines[i]
      /\ \A i \in 1 .. Len(old) : o[i] = old[i]
  BY <1>2, <1>3
<1>5. Len(lines) \in Nat /\ Len(old) \in Nat
  OBVIOUS
<1>6. \A i \in 1 .. n : r[i] \in added /\ (search # <<>> => r[i].key # "search")
  <2> TAKE i \in 1 .. n
  <2>1. i \in 1 .. Len(lines)
    BY <1>1, <1>5
  <2> QED
    BY <1>1, <1>4, <2>1
<1>7. ASSUME NEW i \in n + 1 .. Len(r)
      PROVE  \/ r[i] \notin added /\ o[i - n] = r[i]
             \/ r[i] \in added /\ r[i].key = "search" /\ search # <<>> /\ o[i - n] = search[1]
  <2>1. CASE i = Len(lines) + 1
    <3>1. i - n = Len(old) + 1
      BY <1>1, <1>5, <2>1
    <3> QED
      BY <1>4, <2>1, <3>1
  <2>2. CASE i # Len(lines) + 1
    <3>1. i \in n + 1 .. Len(lines) /\ i \in 1 .. Len(lines) /\ i - n \in 1 .. Len(old)
      BY <1>1, <1>4, <1>5, <2>2
    <3>2. r[i] = lines[i] /\ o[i - n] = old[i - n]
      BY <1>4, <3>1
    <3> QED
      BY <1>1, <3>1, <3>2
  <2> QED
    BY <2>1, <2>2
<1>8. n \in 0 .. Len(r) /\ Len(o) = Len(r) - n
  BY <1>1, <1>4, <1>5
<1>9. Grown(r, o, added, search)
  BY <1>6, <1>7, <1>8 DEF Grown
<1> QED
  BY <1>2, <1>3, <1>9

\* Nameservers that are missing go to the top.
LEMMA PrependGrows ==
  ASSUME NEW lines \in Seq(Lines), NEW old \in Seq(Lines), NEW added, NEW search,
         Grown(lines, old, added, search), OneSearch(lines), NEW top \in Seq(Lines),
         NEW more, \A i \in 1 .. Len(top) : top[i].key # "search" /\ top[i] \in more,
         \A i \in 1 .. Len(lines) : lines[i] \notin more
  PROVE  Grown(top \o lines, old, added \cup more, search) /\ OneSearch(top \o lines)
<1>1. PICK n \in 0 .. Len(lines) :
        /\ Len(old) = Len(lines) - n
        /\ \A i \in 1 .. n : lines[i] \in added /\ (search # <<>> => lines[i].key # "search")
        /\ \A i \in n + 1 .. Len(lines) :
             \/ lines[i] \notin added /\ old[i - n] = lines[i]
             \/ /\ lines[i] \in added /\ lines[i].key = "search"
                /\ search # <<>> /\ old[i - n] = search[1]
  BY DEF Grown
<1>2. PICK r : r = top \o lines
  OBVIOUS
<1>3. PICK t : t = Len(top)
  OBVIOUS
<1>4. PICK l : l = Len(lines)
  OBVIOUS
<1>5. t \in Nat /\ l \in Nat /\ n \in 0 .. l
  BY <1>3, <1>4
<1>6. /\ r \in Seq(Lines) /\ Len(r) = t + l /\ DOMAIN r = 1 .. t + l
      /\ \A i \in 1 .. t : r[i] = top[i]
      /\ \A i \in 1 .. t + l : i > t => r[i] = lines[i - t]
  BY <1>2, <1>3, <1>4
<1>7. ASSUME NEW i \in 1 .. t + n
      PROVE  r[i] \in added \cup more /\ (search # <<>> => r[i].key # "search")
  <2>1. CASE i <= t
    <3>1. i \in 1 .. t
      BY <1>5, <2>1
    <3> QED
      BY <1>3, <1>6, <3>1
  <2>2. CASE ~(i <= t)
    <3>1. i \in 1 .. t + l /\ i > t /\ i - t \in 1 .. n
      BY <1>5, <2>2
    <3> QED
      BY <1>1, <1>6, <3>1
  <2> QED
    BY <2>1, <2>2
<1>8. ASSUME NEW i \in (t + n) + 1 .. t + l
      PROVE  \/ r[i] \notin added \cup more /\ old[i - (t + n)] = r[i]
             \/ /\ r[i] \in added \cup more /\ r[i].key = "search" /\ search # <<>>
                /\ old[i - (t + n)] = search[1]
  <2>1. /\ i \in 1 .. t + l /\ i > t /\ i - t \in n + 1 .. l /\ i - t \in 1 .. l
        /\ i - (t + n) = (i - t) - n
    BY <1>5
  <2>2. r[i] = lines[i - t] /\ lines[i - t] \notin more
    BY <1>4, <1>6, <2>1
  <2> QED
    BY <1>1, <1>4, <2>1, <2>2
<1>9. Grown(r, old, added \cup more, search)
  <2>1. t + n \in 0 .. Len(r) /\ Len(old) = Len(r) - (t + n)
    BY <1>1, <1>4, <1>5, <1>6
  <2> QED
    BY <1>6, <1>7, <1>8, <2>1 DEF Grown
<1>10. OneSearch(r)
  <2> SUFFICES ASSUME NEW i \in 1 .. t + l, NEW j \in 1 .. t + l,
                      r[i].key = "search", r[j].key = "search"
               PROVE  i = j
    BY <1>6 DEF OneSearch
  <2>1. \A k \in 1 .. t : r[k].key # "search"
    BY <1>3, <1>6
  <2>2. i > t /\ j > t
    BY <1>5, <2>1
  <2>3. i - t \in 1 .. l /\ j - t \in 1 .. l /\ r[i] = lines[i - t] /\ r[j] = lines[j - t]
    BY <1>5, <1>6, <2>2
  <2>4. i - t = j - t
    BY <1>4, <2>3 DEF OneSearch
  <2> QED
    BY <1>5, <2>2, <2>4
<1> QED
  BY <1>2, <1>9, <1>10

\* The search line that is looked for.
LEMMA SearchLine ==
  ASSUME NEW lines \in Seq(Lines)
  PROVE  LET pos == SelectInSeq(lines, LAMBDA l : l.key = "search")
         IN  \/ pos = 0 /\ \A i \in 1 .. Len(lines) : lines[i].key # "search"
             \/ pos \in 1 .. Len(lines) /\ lines[pos].key = "search"
<1> DEFINE I == {i \in 1 .. Len(lines) : lines[i].key = "search"}
           pos == SelectInSeq(lines, LAMBDA l : l.key = "search")
<1>1. pos = IF I # {} THEN Min(I) ELSE 0
  BY DEF SelectInSeq
<1>2. CASE I = {}
  BY <1>1, <1>2
<1>3. CASE I # {}
  <2>1. I \in SUBSET Nat
    OBVIOUS
  <2>2. \E m \in I : \A k \in I : m <= k
    <3> HIDE DEF I
    <3> QED
      BY <1>3, <2>1, LeastNatural
  <2>3. Min(I) \in I
    <3> HIDE DEF I
    <3> QED
      BY <2>2 DEF Min
  <2>4. pos \in I
    BY <1>1, <1>3, <2>3
  <2> QED
    BY <2>4
<1> QED
  BY <1>2, <1>3

\* Our domains go first on the search line.
LEMMA SearchGrows ==
  ASSUME NEW lines \in Seq(Lines), OneSearch(lines), NEW pos, NEW ours \in Lines,
         ours.key = "search",
         \/ pos = 0 /\ \A i \in 1 .. Len(lines) : lines[i].key # "search"
         \/ pos \in 1 .. Len(lines) /\ lines[pos].key = "search"
  PROVE  LET searched == IF pos = 0 THEN <<ours>> \o lines ELSE ReplaceAt(lines, pos, ours)
         IN  /\ searched \in Seq(Lines) /\ OneSearch(searched)
             /\ \E i \in 1 .. Len(searched) : searched[i] = ours
             /\ Grown(searched, lines, {ours}, IF pos = 0 THEN <<>> ELSE <<lines[pos]>>)
<1>1. PICK l : l = Len(lines)
  OBVIOUS
<1>2. l \in Nat /\ DOMAIN lines = 1 .. l
  BY <1>1
<1>3. CASE pos = 0
  <2>1. PICK r : r = <<ours>> \o lines
    OBVIOUS
  <2>2. /\ r \in Seq(Lines) /\ Len(r) = l + 1 /\ DOMAIN r = 1 .. l + 1 /\ r[1] = ours
        /\ \A i \in 1 .. l + 1 : i > 1 => r[i] = lines[i - 1]
    BY <1>1, <2>1
  <2>3. \A i \in 1 .. l : lines[i].key # "search"
    BY <1>1, <1>3
  <2>4. \A i \in 1 .. l + 1 : i > 1 => r[i] # ours /\ r[i].key # "search"
    <3> TAKE i \in 1 .. l + 1
    <3> HAVE i > 1
    <3>1. i - 1 \in 1 .. l /\ r[i] = lines[i - 1]
      BY <1>2, <2>2
    <3> QED
      BY <2>3, <3>1
  <2>5. OneSearch(r)
    <3>1. ASSUME NEW i \in 1 .. l + 1, r[i].key = "search" PROVE i = 1
      BY <1>2, <2>4, <3>1
    <3> QED
      BY <2>2, <3>1 DEF OneSearch
  <2>6. Grown(r, lines, {ours}, <<>>)
    <3>1. 1 \in 0 .. Len(r) /\ Len(lines) = Len(r) - 1
      BY <1>1, <1>2, <2>2
    <3>2. \A i \in 1 .. 1 : r[i] \in {ours}
      BY <2>2
    <3>3. ASSUME NEW i \in 1 + 1 .. Len(r) PROVE r[i] \notin {ours} /\ lines[i - 1] = r[i]
      BY <1>2, <2>2, <2>4
    <3> QED
      BY <3>1, <3>2, <3>3 DEF Grown
  <2>7. 1 \in 1 .. Len(r)
    BY <1>2, <2>2
  <2> QED
    BY <1>3, <2>1, <2>2, <2>5, <2>6, <2>7
<1>4. CASE pos # 0
  <2>1. pos \in 1 .. l /\ lines[pos].key = "search"
    BY <1>1, <1>4
  <2>2. PICK r : r = ReplaceAt(lines, pos, ours)
    OBVIOUS
  <2>3. r = [lines EXCEPT ![pos] = ours]
    BY <2>2 DEF ReplaceAt
  <2>4. /\ r \in Seq(Lines) /\ Len(r) = l /\ DOMAIN r = 1 .. l /\ r[pos] = ours
        /\ \A i \in 1 .. l : i # pos => r[i] = lines[i]
    BY <1>1, <1>2, <2>1, <2>3
  <2>5. \A i \in 1 .. l : i # pos => r[i].key # "search"
    BY <1>2, <2>1, <2>4 DEF OneSearch
  <2>6. OneSearch(r)
    BY <2>4, <2>5 DEF OneSearch
  <2>7. Grown(r, lines, {ours}, <<lines[pos]>>)
    <3>1. 0 \in 0 .. Len(r) /\ Len(lines) = Len(r) - 0
      BY <1>1, <1>2, <2>4
    <3>2. <<lines[pos]>> # <<>> /\ <<lines[pos]>>[1] = lines[pos]
      OBVIOUS
    <3>3. ASSUME NEW i \in 0 + 1 .. Len(r)
          PROVE  \/ r[i] \notin {ours} /\ lines[i - 0] = r[i]
                 \/ /\ r[i] \in {ours} /\ r[i].key = "search"
                    /\ <<lines[pos]>> # <<>> /\ lines[i - 0] = <<lines[pos]>>[1]
      <4>1. i \in 1 .. l /\ i - 0 = i
        BY <1>2, <2>4
      <4>2. CASE i = pos
        BY <2>4, <3>2, <4>1, <4>2
      <4>3. CASE i # pos
        <5>1. r[i] # ours
          BY <2>5, <4>1, <4>3
        <5> QED
          BY <2>4, <4>1, <4>3, <5>1
      <4> QED
        BY <4>2, <4>3
    <3>4. \A i \in 1 .. 0 : FALSE
      OBVIOUS
    <3> QED
      BY <3>1, <3>3, <3>4 DEF Grown
  <2>8. pos \in 1 .. Len(r)
    BY <2>1, <2>4
  <2> QED
    BY <1>4, <2>2, <2>4, <2>6, <2>7, <2>8
<1> QED
  BY <1>3, <1>4

LEMMA LineIs ==
  /\ \A l \in Lines : l.words \in Seq(Names)
  /\ \A words \in Seq(Names) :
       /\ Line("search", words) \in Lines /\ Line("search", words).key = "search"
       /\ Line("nameserver", words) \in Lines
<1>1. PICK S : S = Seq(Names)
  OBVIOUS
<1>2. Lines = [key : {"search", "nameserver", "other"}, words : S]
  BY <1>1 DEF Lines
<1>3. /\ \A l \in Lines : l.words \in S
      /\ \A words \in S :
           /\ Line("search", words) \in Lines /\ Line("search", words).key = "search"
           /\ Line("nameserver", words) \in Lines
  BY <1>2 DEF Line
<1> QED
  BY <1>1, <1>3

\* edit_resolv_conf.
LEMMA EditGrows ==
  ASSUME NEW lines \in Seq(Lines), OneSearch(lines),
         NEW servers \in Seq(Names), NEW domains \in Seq(Names)
  PROVE  LET e == EditResolvConf(lines, servers, domains)
         IN  /\ e.lines \in Seq(Lines) /\ OneSearch(e.lines)
             /\ Grown(e.lines, lines, e.added, e.search)
             /\ e.added \subseteq ToSet(e.lines)
<1> DEFINE pos == SelectInSeq(lines, LAMBDA l : l.key = "search")
           kept == IF pos = 0 THEN <<>>
                   ELSE Retained(lines[pos].words, {k \in DOMAIN lines[pos].words :
                                                     lines[pos].words[k] \notin ToSet(domains)})
           ours == Line("search", domains \o kept)
           searched == IF domains = <<>> THEN lines
                       ELSE IF pos = 0 THEN <<ours>> \o lines
                       ELSE ReplaceAt(lines, pos, ours)
           ServerLine(k) == Line("nameserver", <<servers[k]>>)
           missing == {k \in DOMAIN servers :
                         /\ ServerLine(k) \notin ToSet(searched)
                         /\ \A j \in DOMAIN servers : j > k => servers[j] # servers[k]}
           all == [k \in DOMAIN servers |-> ServerLine(k)]
           top == Retained(all, missing)
           served == top \o searched
           mine == IF domains = <<>> THEN {} ELSE {ours}
           more == ToSet(served) \ ToSet(searched)
           search == IF domains = <<>> \/ pos = 0 THEN <<>> ELSE <<lines[pos]>>
<1>1. EditResolvConf(lines, servers, domains) =
        [lines |-> served, added |-> mine \cup more, search |-> search]
  BY DEF EditResolvConf
<1>2. \/ pos = 0 /\ \A i \in 1 .. Len(lines) : lines[i].key # "search"
      \/ pos \in 1 .. Len(lines) /\ lines[pos].key = "search"
  BY SearchLine
<1> HIDE DEF pos
<1>3. kept \in Seq(Names)
  <2>1. CASE pos = 0
    BY <2>1
  <2>2. CASE pos # 0
    <3>1. lines[pos].words \in Seq(Names)
      BY <1>2, <2>2, LineIs
    <3> QED
      BY <2>2, <3>1, RetainedIs
  <2> QED
    BY <2>1, <2>2
<1> HIDE DEF kept
<1>4. ours \in Lines /\ ours.key = "search"
  <2>1. domains \o kept \in Seq(Names)
    BY <1>3
  <2> QED
    BY <2>1, LineIs
<1> HIDE DEF ours
<1>5. /\ searched \in Seq(Lines) /\ OneSearch(searched) /\ Grown(searched, lines, mine, search)
      /\ mine \subseteq ToSet(searched)
  <2>1. CASE domains = <<>>
    <3>1. searched = lines /\ mine = {} /\ search = <<>>
      BY <2>1
    <3>2. Grown(lines, lines, {}, <<>>)
      <4>1. 0 \in 0 .. Len(lines) /\ Len(lines) = Len(lines) - 0
        OBVIOUS
      <4>2. \A i \in 0 + 1 .. Len(lines) : lines[i] \notin {} /\ lines[i - 0] = lines[i]
        OBVIOUS
      <4>3. \A i \in 1 .. 0 : FALSE
        OBVIOUS
      <4> QED
        BY <4>1, <4>2, <4>3 DEF Grown
    <3> QED
      BY <3>1, <3>2
  <2>2. CASE domains # <<>>
    <3> DEFINE s == IF pos = 0 THEN <<ours>> \o lines ELSE ReplaceAt(lines, pos, ours)
    <3>1. searched = s /\ mine = {ours} /\ search = IF pos = 0 THEN <<>> ELSE <<lines[pos]>>
      BY <2>2
    <3>2. /\ s \in Seq(Lines) /\ OneSearch(s)
          /\ \E i \in 1 .. Len(s) : s[i] = ours
          /\ Grown(s, lines, {ours}, IF pos = 0 THEN <<>> ELSE <<lines[pos]>>)
      BY <1>2, <1>4, SearchGrows
    <3> HIDE DEF s, searched, mine, search
    <3>3. \E i \in DOMAIN s : s[i] = ours
      BY <3>2
    <3>4. ours \in ToSet(s)
      BY <3>3 DEF ToSet
    <3> QED
      BY <3>1, <3>2, <3>4
  <2> QED
    BY <2>1, <2>2
<1> HIDE DEF searched, mine, search
<1>6. all \in Seq(Lines)
  <2>1. \A k \in DOMAIN servers : ServerLine(k) \in Lines
    <3> TAKE k \in DOMAIN servers
    <3>1. <<servers[k]>> \in Seq(Names)
      OBVIOUS
    <3> QED
      BY <3>1, LineIs
  <2> HIDE DEF ServerLine
  <2> QED
    BY <2>1
<1>7. /\ top \in Seq(Lines)
      /\ \A i \in 1 .. Len(top) : top[i].key = "nameserver" /\ top[i] \notin ToSet(searched)
  <2>1. top \in Seq(Lines) /\ \E p : ComesFrom(top, all, missing, Len(all), p)
    <3> HIDE DEF all, missing
    <3> QED
      BY <1>6, RetainedIs
  <2>2. PICK p : ComesFrom(top, all, missing, Len(all), p)
    BY <2>1
  <2>3. \A i \in 1 .. Len(top) : p[i] \in missing /\ top[i] = all[p[i]]
    <3> HIDE DEF top, all, missing
    <3> QED
      BY <2>2 DEF ComesFrom
  <2>4. \A k \in missing : all[k].key = "nameserver" /\ all[k] \notin ToSet(searched)
    BY DEF Line
  <2> HIDE DEF top, all, missing
  <2> QED
    BY <2>1, <2>3, <2>4
<1> HIDE DEF top
<1>8. /\ \A i \in 1 .. Len(top) : top[i] \in more
      /\ \A i \in 1 .. Len(searched) : searched[i] \notin more
      /\ ToSet(searched) \subseteq ToSet(served) /\ served \in Seq(Lines)
  <2>1. /\ served \in Seq(Lines) /\ DOMAIN served = 1 .. Len(top) + Len(searched)
        /\ Len(top) \in Nat /\ Len(searched) \in Nat
        /\ \A i \in 1 .. Len(top) : served[i] = top[i]
        /\ \A i \in 1 .. Len(searched) : served[Len(top) + i] = searched[i]
    BY <1>5, <1>7
  <2> HIDE DEF served
  <2>2. \A i \in 1 .. Len(top) : top[i] \in ToSet(served)
    <3> TAKE i \in 1 .. Len(top)
    <3>1. i \in DOMAIN served /\ served[i] = top[i]
      BY <2>1
    <3> QED
      BY <3>1 DEF ToSet
  <2>3. \A i \in 1 .. Len(searched) : searched[i] \in ToSet(searched)
    BY <1>5 DEF ToSet
  <2>4. \A i \in 1 .. Len(searched) : Len(top) + i \in DOMAIN served
    BY <2>1
  <2>5. ToSet(searched) \subseteq ToSet(served)
    <3>1. ASSUME NEW i \in DOMAIN searched PROVE searched[i] \in ToSet(served)
      <4>1. i \in 1 .. Len(searched)
        BY <1>5
      <4>2. Len(top) + i \in DOMAIN served /\ served[Len(top) + i] = searched[i]
        BY <2>1, <2>4, <4>1
      <4> QED
        BY <4>2 DEF ToSet
    <3> QED
      BY <3>1 DEF ToSet
  <2> QED
    BY <1>7, <2>1, <2>2, <2>3, <2>5
<1> HIDE DEF more
<1>9. Grown(served, lines, mine \cup more, search) /\ OneSearch(served)
  BY <1>5, <1>7, <1>8, PrependGrows
<1>10. mine \cup more \subseteq ToSet(served)
  BY <1>5, <1>8 DEF more
<1> HIDE DEF served
<1> QED
  BY <1>1, <1>8, <1>9, <1>10

\* With resolv.conf edited, it is what it was with our lines; else it is what it
\* was, and nothing is installed where nothing may be.
ResolvInv ==
  /\ host.resolv \in Seq(Lines) /\ OneSearch(host.resolv)
  /\ before.resolv \in Seq(Lines) /\ OneSearch(before.resolv)
  /\ ~host.tun \/ at \in {"routes", "dns", "unroute"} => host.dns = NothingInstalled
  /\ at \in {"routes", "dns"} => ~spoiled
  /\ host.dns.tool = "file" =>
       /\ Grown(host.resolv, before.resolv, host.dns.added, host.dns.search)
       /\ host.dns.added \subseteq ToSet(host.resolv)
  /\ host.dns.tool # "file" /\ ~spoiled => host.resolv = before.resolv
  /\ host.dns.tool # "resolvconf" /\ ~spoiled => (host.record => before.record)

DnsInv == sup # "killed" => ResolvInv

LEMMA DnsInit == Init => DnsInv
<1> SUFFICES ASSUME Init PROVE ResolvInv
  BY DEF DnsInv
<1>1. /\ config \in Configs /\ host = NewHost(config) /\ before = Visible(host)
      /\ at = "none" /\ spoiled = FALSE
  BY DEF Init
<1>2. /\ host.resolv = config.resolv /\ before.resolv = config.resolv
      /\ host.dns = NothingInstalled /\ host.record = FALSE /\ host.tun = FALSE
  BY <1>1 DEF NewHost, Visible
<1>3. host.dns.tool = "none"
  BY <1>2 DEF NothingInstalled
<1> QED
  BY <1>1, <1>2, <1>3, ResolvAssumption DEF ResolvInv

\* The other actions leave the host alone, and do not come to where it changes.
Quiet ==
  /\ UNCHANGED hostVars
  /\ at' = at \/ at' \notin {"routes", "dns", "unroute"}
  /\ sup' # "killed" => sup # "killed"

LEMMA QuietActions ==
  ASSUME HostInv, [Next]_vars
  PROVE  \/ Quiet
         \/ ProcessExits \/ OtherEdits \/ RaiseTun(TRUE)
         \/ RaiseRoutes \/ RaiseDns \/ TeardownDns \/ TeardownRoutes
<1>0. sup = "killed" => at = "none"
  BY DEF HostInv, ControlInv
<1>1. CASE StartAttempt \/ SignalArrives \/ GivesUp
  BY <1>1 DEF StartAttempt, SignalArrives, GivesUp, Answered, WakeUp, Signal, PromptFails,
              StopSleeping, Quiet, hostVars
<1>2. CASE \/ (\E good \in BOOLEAN : SamlRequest(good)) \/ SamlUnavailable \/ CancelSaml
           \/ CancelSetup \/ PromptEnds \/ SetupFails \/ ClosePpp \/ LoggedOut
  BY <1>0, <1>2 DEF SamlRequest, SamlUnavailable, CancelSaml, CancelSetup, PromptEnds,
                    SetupFails, ClosePpp, LoggedOut, LogOutAndReturn, Returns, Quiet
<1>3. CASE PortalStep
  <2>1. Elsewhere /\ at # "none"
    BY <1>3 DEF PortalStep, PortalConnect, PortalBroken, PortalMalformed, PortalRefusal,
                PortalBadForm, PortalOtpForm, PortalToken, PortalCookie, PortalPrompt,
                PortalReply, PortalConfig, PortalStart, PortalLogout, InPortal
  <2> QED
    BY <1>0, <2>1 DEF Elsewhere, Quiet
<1>4. CASE \/ (\E b \in Batches : PppActs(b)) \/ CancelLink \/ Perform
           \/ (\E result \in {"down", "error"} : LinkBreaks(result))
           \/ RaiseTun(FALSE) \/ SetupReady \/ LogoutTimeout
  <2>1. at # "none" /\ UNCHANGED hostVars
    BY <1>4 DEF PppActs, CancelLink, Perform, LinkBreaks, RaiseTun, SetupReady, LogoutTimeout
  <2>2. at' = at \/ at' \notin {"routes", "dns", "unroute"}
    BY <1>4 DEF PppActs, CancelLink, Perform, LinkBreaks, RaiseTun, SetupReady, LogoutTimeout,
                Continue, LinkEnds
  <2> QED
    BY <1>0, <2>1, <2>2 DEF Quiet
<1>5. CASE UNCHANGED vars
  BY <1>5 DEF vars, supVars, Quiet
<1>6. CASE \E ok \in BOOLEAN : RaiseTun(ok)
  BY <1>4, <1>6
<1> QED
  BY <1>1, <1>2, <1>3, <1>4, <1>5, <1>6 DEF Next, Inner

\* Dns::install.
LEMMA InstallKeeps ==
  ASSUME HostInv, ResolvInv, RaiseDns
  PROVE  ResolvInv'
<1>1. /\ at = "dns" /\ UNCHANGED <<config, before, spoiled>> /\ config \in Configs
      /\ DOMAIN host = Fields /\ host.tun /\ ~spoiled /\ host.dns = NothingInstalled
      /\ at' \in {"link", "perform"}
  BY DEF RaiseDns, Continue, HostInv, ControlInv, ResolvInv
<1>2. /\ host.dns.tool = "none" /\ host.dns.added = {} /\ host.dns.search = <<>>
      /\ DOMAIN host.dns = {"tool", "added", "search"}
  BY <1>1 DEF NothingInstalled
<1>3. /\ host.resolv \in Seq(Lines) /\ OneSearch(host.resolv)
      /\ host.resolv = before.resolv /\ (host.record => before.record)
  BY <1>1, <1>2 DEF ResolvInv
<1>4. config.servers \in Seq(Names) /\ config.domains \in Seq(Names)
  BY <1>1, ResolvAssumption
<1>5. PICK e : e = EditResolvConf(host.resolv, config.servers, config.domains)
  OBVIOUS
<1>6. /\ e.lines \in Seq(Lines) /\ OneSearch(e.lines)
      /\ Grown(e.lines, host.resolv, e.added, e.search)
      /\ e.added \subseteq ToSet(e.lines)
  BY <1>3, <1>4, <1>5, EditGrows
<1>7. host'.tun = host.tun
  <2>1. SameRoutes(host, host')
    <3>1. CASE config.dns = "off"
      BY <1>1, <3>1 DEF RaiseDns, SameRoutes
    <3>2. CASE config.dns # "off"
      BY <1>1, <3>2, DnsSameRoutes, ConfigsAssumption DEF RaiseDns
    <3> QED
      BY <3>1, <3>2
  <2> QED
    BY <2>1 DEF SameRoutes
<1>8. \/ host' = host
      \/ host'.resolv = host.resolv /\ host'.dns.tool = "resolvconf"
      \/ /\ host'.resolv = host.resolv /\ host'.dns.tool = "resolvectl"
         /\ host'.record = host.record
      \/ /\ host'.resolv = e.lines /\ host'.record = host.record
         /\ host'.dns = [tool |-> "file", added |-> e.added, search |-> e.search]
  <2>1. CASE config.dns = "off"
    BY <2>1 DEF RaiseDns
  <2>2. CASE config.dns # "off"
    <3>1. config.dns \in {"file", "resolvconf", "resolvectl"}
      BY <1>1, <2>2, ConfigsAssumption
    <3>2. PICK f : host' = InstallDns(host, config.dns, config.servers, config.domains, f)
      BY <2>2 DEF RaiseDns
    <3>3. CASE config.dns = "resolvconf"
      BY <1>1, <1>2, <3>2, <3>3 DEF InstallDns, Fields
    <3>4. CASE config.dns = "resolvectl"
      BY <1>1, <1>2, <3>2, <3>4 DEF InstallDns, Fields
    <3>5. CASE config.dns = "file"
      BY <1>1, <1>2, <1>5, <3>2, <3>5 DEF InstallDns, Fields
    <3> QED
      BY <3>1, <3>3, <3>4, <3>5
  <2> QED
    BY <2>1, <2>2
<1>9. CASE host' = host
  BY <1>1, <1>2, <1>3, <1>9 DEF ResolvInv
<1>10. CASE host'.resolv = host.resolv /\ host'.dns.tool = "resolvconf"
  BY <1>1, <1>3, <1>7, <1>10 DEF ResolvInv
<1>11. CASE /\ host'.resolv = host.resolv /\ host'.dns.tool = "resolvectl"
            /\ host'.record = host.record
  BY <1>1, <1>3, <1>7, <1>11 DEF ResolvInv
<1>12. CASE /\ host'.resolv = e.lines /\ host'.record = host.record
            /\ host'.dns = [tool |-> "file", added |-> e.added, search |-> e.search]
  <2>1. /\ host'.dns.tool = "file" /\ host'.dns.added = e.added
        /\ host'.dns.search = e.search
    BY <1>12
  <2> QED
    BY <1>1, <1>3, <1>6, <1>7, <1>12, <2>1 DEF ResolvInv
<1> QED
  BY <1>8, <1>9, <1>10, <1>11, <1>12

\* Dns::remove.
LEMMA RemoveKeeps ==
  ASSUME HostInv, ResolvInv, TeardownDns
  PROVE  ResolvInv'
<1>1. /\ at = "undns" /\ at' = "unroute" /\ before' = before
      /\ DOMAIN host = Fields /\ host.tun
  BY DEF TeardownDns, HostInv, ControlInv
<1>2. PICK f \in SUBSET {"undns"} :
        /\ host' = RemoveDns(host, f)
        /\ spoiled' = (spoiled \/ (f # {} /\ host.dns.tool \in {"resolvconf", "file"}))
  BY DEF TeardownDns
<1>3. PICK old : old = RestoreResolvConf(host.resolv, host.dns.added, host.dns.search)
  OBVIOUS
<1>4. host.dns.tool = "file" => old = before.resolv
  BY <1>3, RestoreUndoes DEF ResolvInv
<1>5. PICK gone : gone = [host EXCEPT !.dns = NothingInstalled]
  OBVIOUS
<1>6. /\ gone.dns = NothingInstalled /\ gone.resolv = host.resolv /\ gone.record = host.record
      /\ DOMAIN gone = Fields
  BY <1>1, <1>5 DEF Fields
<1>7. \/ "undns" \in f /\ host' = gone
      \/ host.dns.tool = "resolvconf" /\ host' = [gone EXCEPT !.record = FALSE]
      \/ host.dns.tool = "file" /\ host' = [gone EXCEPT !.resolv = old]
      \/ host.dns.tool \notin {"resolvconf", "file"} /\ host' = gone
  BY <1>1, <1>2, <1>3, <1>5 DEF RemoveDns, Fields
<1>8. /\ host'.dns = NothingInstalled
      /\ \/ "undns" \in f /\ host'.resolv = host.resolv /\ host'.record = host.record
         \/ host.dns.tool = "resolvconf" /\ host'.resolv = host.resolv /\ ~host'.record
         \/ host.dns.tool = "file" /\ host'.resolv = before.resolv /\ host'.record = host.record
         \/ /\ host.dns.tool \notin {"resolvconf", "file"}
            /\ host'.resolv = host.resolv /\ host'.record = host.record
  BY <1>4, <1>6, <1>7 DEF Fields
<1>9. host'.dns.tool = "none"
  BY <1>8 DEF NothingInstalled
<1>10. "undns" \in f => f # {}
  OBVIOUS
<1>11. host'.resolv \in Seq(Lines) /\ OneSearch(host'.resolv)
  BY <1>8 DEF ResolvInv
<1>12. ~spoiled' => host'.resolv = before.resolv /\ (host'.record => before.record)
  BY <1>2, <1>8, <1>10 DEF ResolvInv
<1> QED
  BY <1>1, <1>8, <1>9, <1>11, <1>12 DEF ResolvInv

\* Nothing that is done to the routes concerns the nameservers.
SameDns(h, n) == n.resolv = h.resolv /\ n.record = h.record /\ n.dns = h.dns

LEMMA RoutesSameDns ==
  ASSUME NEW h, NEW protected, NEW platform, NEW half, NEW nets, NEW f, DOMAIN h = Fields
  PROVE  SameDns(h, SetRoutes(h, protected, platform, half, nets, f))
<1>1. ASSUME NEW to PROVE SameDns(h, AddNetworks(h, to, f))
  <2>1. \E t, n : AddNetworks(h, to, f) = [h EXCEPT !.table = t, !.networks = n]
    BY DEF AddNetworks, Fields
  <2> QED
    BY <2>1 DEF Fields, SameDns
<1>2. SameDns(h, ReplaceDefault(h, platform, f))
  <2>1. \/ ReplaceDefault(h, platform, f) = h
        \/ \E t : ReplaceDefault(h, platform, f) = [h EXCEPT !.table = t]
        \/ \E t, r : ReplaceDefault(h, platform, f) = [h EXCEPT !.table = t, !.replaced = r]
    BY DEF ReplaceDefault, ReplaceDefaultLinux, ReplaceDefaultBsd
  <2> QED
    BY <2>1 DEF Fields, SameDns
<1>3. SameDns(h, SetDefault(h, platform, half, f))
  BY <1>1, <1>2 DEF SetDefault
<1>4. SameDns(h, h)
  BY DEF SameDns
<1> QED
  BY <1>1, <1>3, <1>4 DEF SetRoutes

LEMMA ProtectSameDns ==
  ASSUME NEW h, NEW f, DOMAIN h = Fields
  PROVE  /\ SameDns(h, ProtectGateway(h, f)[1])
         /\ DOMAIN ProtectGateway(h, f)[1] = Fields
<1>1. \/ ProtectGateway(h, f)[1] = h
      \/ \E t : ProtectGateway(h, f)[1] = [h EXCEPT !.table = t]
      \/ \E t : ProtectGateway(h, f)[1] = [h EXCEPT !.table = t, !.gateway = TRUE]
  BY DEF ProtectGateway
<1> QED
  BY <1>1 DEF Fields, SameDns

LEMMA TunKeepsResolv ==
  ASSUME HostInv, ResolvInv, RaiseTun(TRUE) \/ RaiseRoutes \/ TeardownRoutes
  PROVE  ResolvInv'
<1>0. DOMAIN host = Fields
  BY DEF HostInv, ControlInv
<1>1. CASE RaiseTun(TRUE)
  <2>1. /\ at' = "routes" /\ before' = Visible(host) /\ spoiled' = FALSE
        /\ host' = CreateTun(host, config.peerIsGateway) /\ Head(todo) = "up" /\ at = "perform"
    BY <1>1 DEF RaiseTun
  <2>2. HasUp(todo)
    BY <2>1, TailUps DEF HostInv, ControlInv
  <2>3. ~host.tun /\ host.dns = NothingInstalled
    BY <2>1, <2>2 DEF HostInv, ControlInv, ResolvInv
  <2>4. SameDns(host, host')
    BY <1>0, <2>1 DEF CreateTun, SameDns, Fields
  <2>5. before'.resolv = host.resolv /\ before'.record = host.record
    BY <2>1 DEF Visible
  <2>6. host.dns.tool = "none"
    BY <2>3 DEF NothingInstalled
  <2> QED
    BY <2>1, <2>3, <2>4, <2>5, <2>6 DEF ResolvInv, SameDns
<1>2. CASE RaiseRoutes
  <2>1. at = "routes" /\ at' = "dns" /\ UNCHANGED <<before, spoiled>>
    BY <1>2 DEF RaiseRoutes
  <2>2. PICK f \in RouteFailures :
          LET protect == IF config.v4 THEN ProtectGateway(host, f) ELSE <<host, TRUE>>
          IN  host' = IF config.routing = "off" THEN host
                      ELSE SetRoutes(protect[1], protect[2], config.platform,
                                     config.routing = "half", config.networks, f)
    BY <1>2 DEF RaiseRoutes
  <2> DEFINE protect == IF config.v4 THEN ProtectGateway(host, f) ELSE <<host, TRUE>>
             h == protect[1]
  <2>3. SameDns(host, h) /\ DOMAIN h = Fields
    BY <1>0, ProtectSameDns DEF SameDns
  <2>4. host' = IF config.routing = "off" THEN host
                ELSE SetRoutes(h, protect[2], config.platform, config.routing = "half",
                               config.networks, f)
    BY <2>2
  <2> HIDE DEF h, protect
  <2>5. SameDns(host, host')
    BY <2>3, <2>4, RoutesSameDns DEF SameDns
  <2> QED
    BY <2>1, <2>5 DEF ResolvInv, SameDns
<1>3. CASE TeardownRoutes
  <2>1. at = "unroute" /\ at' = "close" /\ before' = before
    BY <1>3 DEF TeardownRoutes
  <2>2. PICK f : host' = DropTun(RestoreRoutes(host, config.platform, f))
    BY <1>3 DEF TeardownRoutes
  <2>3. \E t : host' = [host EXCEPT !.networks = {}, !.replaced = NoRoute, !.gateway = FALSE,
                                    !.tun = FALSE, !.table = t]
    BY <1>0, <2>2 DEF DropTun, RestoreRoutes, Fields
  <2>4. SameDns(host, host')
    BY <1>0, <2>3 DEF SameDns, Fields
  <2>5. ~spoiled' => ~spoiled
    BY <1>3 DEF TeardownRoutes
  <2> QED
    BY <2>1, <2>4, <2>5 DEF ResolvInv, SameDns
<1> QED
  BY <1>1, <1>2, <1>3

LEMMA AppendIs ==
  ASSUME NEW lines \in Seq(Lines), NEW line \in Lines, line.key # "search", OneSearch(lines)
  PROVE  /\ Append(lines, line) \in Seq(Lines) /\ OneSearch(Append(lines, line))
         /\ ToSet(lines) \subseteq ToSet(Append(lines, line))
<1>1. PICK r : r = Append(lines, line)
  OBVIOUS
<1>2. /\ r \in Seq(Lines) /\ DOMAIN r = 1 .. Len(lines) + 1 /\ r[Len(lines) + 1] = line
      /\ \A i \in 1 .. Len(lines) : r[i] = lines[i]
      /\ DOMAIN lines = 1 .. Len(lines) /\ Len(lines) \in Nat
  BY <1>1
<1>3. OneSearch(r)
  <2> SUFFICES ASSUME NEW i \in 1 .. Len(lines) + 1, NEW j \in 1 .. Len(lines) + 1,
                      r[i].key = "search", r[j].key = "search"
               PROVE  i = j
    BY <1>2 DEF OneSearch
  <2>1. i # Len(lines) + 1 /\ j # Len(lines) + 1
    BY <1>2
  <2>2. i \in 1 .. Len(lines) /\ j \in 1 .. Len(lines)
    BY <1>2, <2>1
  <2> QED
    BY <1>2, <2>2 DEF OneSearch
<1>4. ToSet(lines) \subseteq ToSet(r)
  <2>1. ASSUME NEW i \in DOMAIN lines PROVE lines[i] \in ToSet(r)
    <3>1. i \in DOMAIN r /\ r[i] = lines[i]
      BY <1>2
    <3> QED
      BY <3>1 DEF ToSet
  <2> QED
    BY <2>1 DEF ToSet
<1> QED
  BY <1>1, <1>2, <1>3, <1>4

LEMMA EditsKeepResolv ==
  ASSUME HostInv, ResolvInv, OtherEdits
  PROVE  ResolvInv'
<1>1. /\ at = "link" /\ at' = at /\ UNCHANGED spoiled
      /\ \A i \in DOMAIN host.resolv : host.resolv[i] # OtherLine
      /\ host'.resolv = Append(host.resolv, OtherLine)
      /\ before'.resolv = Append(before.resolv, OtherLine)
      /\ host'.tun = host.tun /\ host'.dns = host.dns /\ host'.record = host.record
      /\ before'.record = before.record
  BY DEF OtherEdits, HostInv, ControlInv, Fields
<1>2. OtherLine \in Lines /\ OtherLine.key # "search"
  BY ResolvAssumption
<1>3. OtherLine \notin ToSet(host.resolv)
  BY <1>1 DEF ToSet
<1>4. /\ host'.resolv \in Seq(Lines) /\ OneSearch(host'.resolv)
      /\ ToSet(host.resolv) \subseteq ToSet(host'.resolv)
      /\ before'.resolv \in Seq(Lines) /\ OneSearch(before'.resolv)
  BY <1>1, <1>2, AppendIs DEF ResolvInv
<1>5. host.dns.tool = "file" =>
        Grown(host'.resolv, before'.resolv, host.dns.added, host.dns.search)
  BY <1>1, <1>2, <1>3, AppendGrows DEF ResolvInv
<1> QED
  BY <1>1, <1>4, <1>5 DEF ResolvInv

LEMMA StepKeepsDns ==
  ASSUME HostInv, DnsInv, [Next]_vars
  PROVE  DnsInv'
<1>1. CASE Quiet
  <2>1. ASSUME ResolvInv PROVE ResolvInv'
    BY <1>1, <2>1 DEF Quiet, ResolvInv, hostVars
  <2> QED
    BY <1>1, <2>1 DEF DnsInv, Quiet
<1>2. CASE ProcessExits
  BY <1>2 DEF ProcessExits, SecondSignal, DnsInv
<1>3. CASE \/ OtherEdits \/ RaiseTun(TRUE) \/ RaiseRoutes \/ RaiseDns \/ TeardownDns
           \/ TeardownRoutes
  <2>1. at # "none"
    BY <1>3 DEF OtherEdits, RaiseTun, RaiseRoutes, RaiseDns, TeardownDns, TeardownRoutes
  <2>2. ResolvInv
    BY <2>1 DEF DnsInv, HostInv, ControlInv
  <2> QED
    BY <1>3, <2>2, EditsKeepResolv, TunKeepsResolv, InstallKeeps, RemoveKeeps DEF DnsInv
<1> QED
  BY <1>1, <1>2, <1>3, QuietActions

\* restore_resolv_conf leaves the file without a line of ours and with the
\* search line that was there, whatever resolv.conf, nameservers and domains
\* there are, and keeps the lines another program added; resolvconf's record is
\* gone: unless the command that restores failed, the host is as it was.
THEOREM ResolvIsRestored == Spec => []ResolvRestored
<1>1. HostInv /\ DnsInv => ResolvRestored
  <2>1. NothingInstalled.tool = "none"
    BY DEF NothingInstalled
  <2> QED
    BY <2>1 DEF DnsInv, ResolvInv, ResolvRestored
<1> QED
  BY HostInit, StepKeepsHost, DnsInit, StepKeepsDns, <1>1, PTL DEF Spec

-----------------------------------------------------------------------------
(* The service promised.                                                   *)

\* An attempt is under way, or there is none.
Placed == sup = "running" <=> at # "none"

Inv == HostInv /\ DnsInv /\ ControlTypes /\ Placed

LEMMA StepKeepsPlaced ==
  ASSUME HostInv, Placed, [Next]_vars
  PROVE  Placed'
<1>1. CASE StartAttempt \/ SignalArrives \/ GivesUp \/ ProcessExits
  BY <1>1 DEF StartAttempt, SignalArrives, GivesUp, ProcessExits, Answered, WakeUp, Running,
              Signal, PromptFails, StopSleeping, SecondSignal, Placed
<1>2. CASE \/ (\E good \in BOOLEAN : SamlRequest(good)) \/ SamlUnavailable \/ CancelSaml
           \/ CancelSetup \/ PromptEnds \/ SetupFails \/ ClosePpp \/ LoggedOut
  BY <1>2 DEF SamlRequest, SamlUnavailable, CancelSaml, CancelSetup, PromptEnds, SetupFails,
              ClosePpp, LoggedOut, LogOutAndReturn, Returns, Ends, supVars, Placed
<1>3. CASE PortalStep
  <2>1. Elsewhere
    BY <1>3 DEF PortalStep, PortalConnect, PortalBroken, PortalMalformed, PortalRefusal,
                PortalBadForm, PortalOtpForm, PortalToken, PortalCookie, PortalPrompt,
                PortalReply, PortalConfig, PortalStart, PortalLogout
  <2> QED
    BY <2>1 DEF Elsewhere, Placed, supVars
<1>4. CASE \/ (\E b \in Batches : PppActs(b)) \/ CancelLink \/ Perform \/ OtherEdits
           \/ (\E result \in {"down", "error"} : LinkBreaks(result)) \/ SetupReady
           \/ LogoutTimeout \/ (\E ok \in BOOLEAN : RaiseTun(ok))
           \/ RaiseRoutes \/ RaiseDns \/ TeardownDns \/ TeardownRoutes
  <2>1. at # "none" /\ UNCHANGED supVars
    BY <1>4 DEF PppActs, CancelLink, Perform, OtherEdits, LinkBreaks, SetupReady, LogoutTimeout,
                RaiseTun, RaiseRoutes, RaiseDns, TeardownDns, TeardownRoutes
  <2>2. at' # "none"
    BY <1>4 DEF PppActs, CancelLink, Perform, OtherEdits, LinkBreaks, SetupReady, LogoutTimeout,
                RaiseTun, RaiseRoutes, RaiseDns, TeardownDns, TeardownRoutes, Continue, LinkEnds
  <2> QED
    BY <2>1, <2>2 DEF Placed, supVars
<1>5. CASE UNCHANGED vars
  BY <1>5 DEF vars, supVars, Placed
<1> QED
  BY <1>1, <1>2, <1>3, <1>4, <1>5 DEF Next, Inner

Closing == {"undns", "unroute", "close", "logout", "lingering"}

\* What the place of run says of the service.
PhaseIs ==
  /\ at = "none" => Phase = IF Over THEN "finished" ELSE "waiting"
  /\ at \in {"saml", "setup"} => Phase = "connecting"
  /\ at \in {"link", "perform"} => Phase = IF host.tun THEN "up" ELSE "connecting"
  /\ at \in {"routes", "dns"} => Phase = "up"
  /\ at \in Closing => Phase = "closing"
  /\ at = "none" /\ sup # "killed" => Traces = FALSE
  /\ at # "none" => Traces = host.tun
  /\ Traces \in BOOLEAN

LEMMA PhaseFacts == Inv => PhaseIs
<1> SUFFICES ASSUME Inv PROVE PhaseIs
  OBVIOUS
<1>1. /\ at # "none" <=> sup = "running"
      /\ sup \in {"asking", "running", "sleeping", "done", "killed"}
      /\ host.tun \in BOOLEAN
      /\ host.tun => at \in {"routes", "dns", "link", "perform", "undns", "unroute"}
      /\ at \in {"routes", "dns"} => host.tun
  BY DEF Inv, Placed, ControlTypes, SupTypeOK, HostInv, ControlInv
<1>2. sup # "killed" /\ ~host.tun => Traces = FALSE
  <2> SUFFICES ASSUME sup # "killed", ~host.tun, ~spoiled PROVE Differs = FALSE
    BY DEF Traces
  <2>1. host.table = before.table
    BY DEF Inv, HostInv, RoutesInv
  <2>2. host.dns.tool = "none"
    BY DEF Inv, DnsInv, ResolvInv, NothingInstalled
  <2>3. host.resolv = before.resolv /\ (host.record => before.record)
    BY <2>2 DEF Inv, DnsInv, ResolvInv
  <2> QED
    BY <2>1, <2>3 DEF Differs
<1>3. host.tun => Traces = TRUE
  BY DEF Traces
<1>4. at # "none" => Traces = host.tun
  BY <1>1, <1>2, <1>3
<1>5. at = "none" /\ sup # "killed" => Traces = FALSE
  BY <1>1, <1>2
<1>6. Traces \in BOOLEAN
  BY <1>1 DEF Traces
<1> QED
  BY <1>1, <1>4, <1>5, <1>6 DEF Phase, Over, Closing, PhaseIs

LEMMA PhaseFactsNext == Inv' => PhaseIs'
  BY PhaseFacts, PTL

Served == [Promised!Next]_(Promised!vars)

\* The steps of the service, as steps of run.
LEMMA AttemptServes ==
  ASSUME Inv, Inv', at # "none", at' # "none", cancelled' = cancelled,
         \/ Phase' = Phase /\ host'.tun = host.tun
         \/ Phase' = Phase /\ Phase = "closing" /\ ~host'.tun
         \/ Phase = "connecting" /\ Phase' = "up"
         \/ Phase \in {"connecting", "up"} /\ Phase' = "closing" /\ host'.tun = host.tun
  PROVE  Served
<1>1. Traces = host.tun /\ Traces' = host'.tun
  BY PhaseFacts, PhaseFactsNext DEF PhaseIs
<1>2. host'.tun \in BOOLEAN /\ (Phase' = "up" => host'.tun)
  BY PhaseFactsNext DEF Inv, HostInv, ControlInv, PhaseIs, Phase
<1>3. CASE Phase' = Phase /\ host'.tun = host.tun
  BY <1>1, <1>3 DEF Served, Promised!vars
<1>4. CASE Phase' = Phase /\ Phase = "closing" /\ ~host'.tun
  BY <1>1, <1>2, <1>4 DEF Served, Promised!Next, Promised!Clean
<1>5. CASE Phase = "connecting" /\ Phase' = "up"
  BY <1>1, <1>2, <1>5 DEF Served, Promised!Next, Promised!ComeUp
<1>6. CASE Phase \in {"connecting", "up"} /\ Phase' = "closing" /\ host'.tun = host.tun
  BY <1>1, <1>6 DEF Served, Promised!Next, Promised!Close
<1> QED
  BY <1>3, <1>4, <1>5, <1>6

\* An attempt ends without an interface; no other follows one that was cancelled.
LEMMA ReturnServes ==
  ASSUME Inv, Inv', NEW result, Returns(result), ~host.tun, at \notin {"none", "routes", "dns"},
         UNCHANGED hostVars
  PROVE  Served
<1>1. /\ at' = "none" /\ cancelled' = cancelled
      /\ sup' = IF result = "stopped" \/ ~persistent \/ cancelled THEN "done" ELSE "sleeping"
  BY DEF Returns, Ends
<1>2. Traces = FALSE /\ Phase \in {"connecting", "closing"}
  BY PhaseFacts DEF PhaseIs, Inv, ControlTypes, Closing
<1>3. /\ Traces' = FALSE /\ Phase' = IF sup' = "done" THEN "finished" ELSE "waiting"
  BY <1>1, PhaseFactsNext DEF PhaseIs, Over
<1> QED
  BY <1>1, <1>2, <1>3 DEF Served, Promised!Next, Promised!End

LEMMA EndServes ==
  ASSUME Inv, Inv', NEW result, LogOutAndReturn(result), at \in {"setup", "close"},
         UNCHANGED hostVars
  PROVE  Served
<1>1. ~host.tun
  BY DEF Inv, HostInv, ControlInv
<1>2. CASE Returns(result)
  BY <1>1, <1>2, ReturnServes
<1>3. CASE at' = "logout" /\ UNCHANGED supVars
  <2>1. Phase \in {"connecting", "closing"} /\ Phase' = "closing"
    BY <1>3, PhaseFacts, PhaseFactsNext DEF PhaseIs, Closing
  <2>2. host'.tun = host.tun /\ cancelled' = cancelled
    BY <1>3 DEF hostVars, supVars
  <2> QED
    BY <1>3, <2>1, <2>2, AttemptServes
<1> QED
  BY <1>2, <1>3 DEF LogOutAndReturn

LEMMA CommandLineServes ==
  ASSUME Inv, Inv', StartAttempt \/ SignalArrives \/ GivesUp \/ ProcessExits
  PROVE  Served
<1>1. CASE StartAttempt \/ GivesUp
  <2>1. /\ sup \in {"asking", "sleeping"} /\ cancelled' = cancelled
        /\ \/ sup' = "running" /\ at' \in {"saml", "setup"}
           \/ sup' = "done" /\ at' = at
    BY <1>1 DEF StartAttempt, GivesUp, Answered, WakeUp, Running, PromptFails, StopSleeping
  <2>2. at = "none" /\ Phase = "waiting" /\ Traces = FALSE
    BY <2>1, PhaseFacts DEF Inv, Placed, PhaseIs, Over
  <2>3. Phase' = IF sup' = "running" THEN "connecting" ELSE "finished"
    BY <2>1, <2>2, PhaseFactsNext DEF PhaseIs, Over
  <2>4. host'.tun = FALSE
    <3>1. UNCHANGED host
      BY <1>1 DEF StartAttempt, GivesUp, hostVars
    <3> QED
      BY <2>2, <3>1 DEF Inv, HostInv, ControlInv
  <2>5. Traces' = FALSE
    BY <2>1, <2>2, <2>4, PhaseFactsNext DEF PhaseIs
  <2> QED
    BY <2>1, <2>2, <2>3, <2>5 DEF Served, Promised!Next, Promised!Connect, Promised!Leave
<1>2. CASE SignalArrives
  <2>1. ~cancelled /\ cancelled' = TRUE /\ sup' = sup /\ at' = at /\ UNCHANGED hostVars
    BY <1>2 DEF SignalArrives, Signal
  <2>2. Phase' = Phase /\ Traces' = Traces
    BY <2>1 DEF Phase, Over, Traces, Differs, hostVars
  <2> QED
    BY <2>1, <2>2 DEF Served, Promised!Next, Promised!Ask
<1>3. CASE ProcessExits
  <2>1. /\ sup \notin {"done", "killed"} /\ cancelled /\ sup' = "killed"
        /\ cancelled' = cancelled
    BY <1>3 DEF ProcessExits, SecondSignal
  <2>2. Phase # "finished" /\ Phase' = "finished" /\ Traces' \in BOOLEAN
    BY <2>1, PhaseFactsNext DEF Phase, Over, PhaseIs
  <2> QED
    BY <2>1, <2>2 DEF Served, Promised!Next, Promised!Kill
<1> QED
  BY <1>1, <1>2, <1>3

\* Link::run ends or goes on.
LEMMA LinkServes ==
  ASSUME Inv, Inv', at \in {"link", "perform"}, UNCHANGED <<hostVars, supVars>>,
         \/ at' \in {"link", "perform"}
         \/ \E result : LinkEnds(result)
  PROVE  Served
<1>1. host'.tun = host.tun /\ cancelled' = cancelled
  BY DEF hostVars, supVars
<1>2. Phase = IF host.tun THEN "up" ELSE "connecting"
  BY PhaseFacts DEF PhaseIs
<1>3. CASE at' \in {"link", "perform"}
  <2>1. Phase' = Phase
    BY <1>1, <1>2, <1>3, PhaseFactsNext DEF PhaseIs
  <2> QED
    BY <1>1, <1>3, <2>1, AttemptServes
<1>4. CASE at' \in {"undns", "close"}
  <2>1. Phase' = "closing"
    BY <1>4, PhaseFactsNext DEF PhaseIs, Closing
  <2> QED
    BY <1>1, <1>2, <1>4, <2>1, AttemptServes
<1> QED
  BY <1>3, <1>4 DEF LinkEnds

LEMMA HostServes ==
  ASSUME Inv, Inv', \/ OtherEdits \/ RaiseTun(TRUE) \/ RaiseRoutes \/ RaiseDns \/ TeardownDns
                    \/ TeardownRoutes
  PROVE  Served
<1>0. at # "none" /\ cancelled' = cancelled
  BY DEF OtherEdits, RaiseTun, RaiseRoutes, RaiseDns, TeardownDns, TeardownRoutes, supVars
<1>1. CASE RaiseTun(TRUE)
  <2>1. at = "perform" /\ at' = "routes" /\ Head(todo) = "up"
    BY <1>1 DEF RaiseTun
  <2>2. HasUp(todo)
    BY <2>1, TailUps DEF Inv, HostInv, ControlInv
  <2>3. ~host.tun
    BY <2>1, <2>2 DEF Inv, HostInv, ControlInv
  <2>4. Phase = "connecting" /\ Phase' = "up"
    BY <2>1, <2>3, PhaseFacts, PhaseFactsNext DEF PhaseIs
  <2> QED
    BY <1>0, <2>1, <2>4, AttemptServes
<1>2. CASE RaiseRoutes \/ RaiseDns \/ OtherEdits
  <2>1. \/ at = "routes" /\ at' = "dns"
        \/ at = "dns" /\ at' \in {"link", "perform"}
        \/ at = "link" /\ at' = "link" /\ host.tun
    BY <1>2 DEF RaiseRoutes, RaiseDns, OtherEdits, Continue
  <2>2. host.tun
    BY <2>1 DEF Inv, HostInv, ControlInv
  <2>3. host'.tun = host.tun
    <3>1. CASE at' = "dns"
      BY <2>2, <3>1 DEF Inv, HostInv, ControlInv
    <3>2. CASE OtherEdits
      BY <3>2 DEF OtherEdits, Inv, HostInv, ControlInv, Fields
    <3>3. CASE RaiseDns
      <4>1. DOMAIN host = Fields /\ config \in Configs
        BY DEF Inv, HostInv, ControlInv
      <4>2. SameRoutes(host, host')
        <5>1. CASE config.dns = "off"
          BY <3>3, <4>1, <5>1 DEF RaiseDns, SameRoutes
        <5>2. CASE config.dns # "off"
          BY <3>3, <4>1, <5>2, DnsSameRoutes, ConfigsAssumption DEF RaiseDns
        <5> QED
          BY <5>1, <5>2
      <4> QED
        BY <4>2 DEF SameRoutes
    <3> QED
      BY <1>2, <3>1, <3>2, <3>3 DEF RaiseRoutes
  <2>4. Phase = "up" /\ Phase' = "up"
    BY <2>1, <2>2, <2>3, PhaseFacts, PhaseFactsNext DEF PhaseIs
  <2> QED
    BY <1>0, <2>1, <2>3, <2>4, AttemptServes
<1>3. CASE TeardownDns \/ TeardownRoutes
  <2>1. \/ at = "undns" /\ at' = "unroute"
        \/ at = "unroute" /\ at' = "close"
    BY <1>3 DEF TeardownDns, TeardownRoutes
  <2>2. Phase = "closing" /\ Phase' = "closing"
    BY <2>1, PhaseFacts, PhaseFactsNext DEF PhaseIs, Closing
  <2>3. host'.tun = host.tun \/ ~host'.tun
    BY <2>1 DEF Inv, HostInv, ControlInv
  <2> QED
    BY <1>0, <2>1, <2>2, <2>3, AttemptServes
<1> QED
  BY <1>1, <1>2, <1>3

LEMMA StepServes ==
  ASSUME Inv, Inv', [Next]_vars
  PROVE  Served
<1>1. CASE StartAttempt \/ SignalArrives \/ GivesUp \/ ProcessExits
  BY <1>1, CommandLineServes
<1>2. CASE (\E good \in BOOLEAN : SamlRequest(good)) \/ SamlUnavailable \/ CancelSaml
  <2>1. at = "saml" /\ UNCHANGED hostVars
    BY <1>2 DEF SamlRequest, SamlUnavailable, CancelSaml
  <2>2. ~host.tun
    BY <2>1 DEF Inv, HostInv, ControlInv
  <2>3. \/ \E result : Returns(result)
        \/ at' \in {"saml", "setup"} /\ UNCHANGED supVars
    BY <1>2 DEF SamlRequest, SamlUnavailable, CancelSaml
  <2>4. CASE \E result : Returns(result)
    BY <2>1, <2>2, <2>4, ReturnServes
  <2>5. CASE at' \in {"saml", "setup"} /\ UNCHANGED supVars
    <3>1. Phase = "connecting" /\ Phase' = "connecting"
      BY <2>1, <2>5, PhaseFacts, PhaseFactsNext DEF PhaseIs
    <3>2. host'.tun = host.tun /\ cancelled' = cancelled
      BY <2>1, <2>5 DEF hostVars, supVars
    <3> QED
      BY <2>1, <2>5, <3>1, <3>2, AttemptServes
  <2> QED
    BY <2>3, <2>4, <2>5
<1>3. CASE SetupFails \/ CancelSetup \/ ClosePpp
  <2>1. CASE Lingers
    <3>1. Phase = "connecting" /\ Phase' = "closing"
      BY <2>1, PhaseFacts, PhaseFactsNext DEF PhaseIs, Lingers, Closing
    <3>2. /\ at # "none" /\ at' # "none" /\ host'.tun = host.tun
          /\ cancelled' = cancelled
      BY <2>1 DEF Lingers, hostVars, supVars
    <3> QED
      BY <3>1, <3>2, AttemptServes
  <2> QED
    BY <1>3, <2>1, EndServes, CancelSetupCases DEF SetupFails, ClosePpp
<1>4. CASE LoggedOut \/ PromptEnds
  <2>1. ~host.tun /\ at \in {"logout", "lingering"}
    BY <1>4 DEF LoggedOut, PromptEnds, Inv, HostInv, ControlInv
  <2> QED
    BY <1>4, <2>1, ReturnServes DEF LoggedOut, PromptEnds
<1>5. CASE PortalStep \/ LogoutTimeout
  <2>1. UNCHANGED <<supVars, at, hostVars>>
    BY <1>5 DEF PortalStep, PortalConnect, PortalBroken, PortalMalformed, PortalRefusal,
                PortalBadForm, PortalOtpForm, PortalToken, PortalCookie, PortalPrompt,
                PortalReply, PortalConfig, PortalStart, PortalLogout, Elsewhere, LogoutTimeout
  <2>2. Phase' = Phase /\ Traces' = Traces /\ cancelled' = cancelled
    BY <2>1 DEF Phase, Over, Traces, Differs, hostVars, supVars
  <2> QED
    BY <2>2 DEF Served, Promised!vars
<1>6. CASE SetupReady
  <2>1. at = "setup" /\ at' = "perform" /\ UNCHANGED <<supVars, hostVars>>
    BY <1>6 DEF SetupReady
  <2>2. ~host.tun /\ host'.tun = host.tun
    BY <2>1 DEF Inv, HostInv, ControlInv, hostVars
  <2>3. Phase = "connecting" /\ Phase' = "connecting"
    BY <2>1, <2>2, PhaseFacts, PhaseFactsNext DEF PhaseIs
  <2> QED
    BY <2>1, <2>2, <2>3, AttemptServes DEF supVars
<1>7. CASE \/ (\E b \in Batches : PppActs(b)) \/ CancelLink \/ Perform
           \/ (\E result \in {"down", "error"} : LinkBreaks(result)) \/ RaiseTun(FALSE)
  <2>1. at \in {"link", "perform"} /\ UNCHANGED <<hostVars, supVars>>
    BY <1>7 DEF PppActs, CancelLink, Perform, LinkBreaks, RaiseTun
  <2>2. at' \in {"link", "perform"} \/ \E result : LinkEnds(result)
    BY <1>7 DEF PppActs, CancelLink, Perform, LinkBreaks, RaiseTun, Continue
  <2> QED
    BY <2>1, <2>2, LinkServes
<1>8. CASE \/ OtherEdits \/ RaiseTun(TRUE) \/ RaiseRoutes \/ RaiseDns \/ TeardownDns
           \/ TeardownRoutes
  BY <1>8, HostServes
<1>9. CASE UNCHANGED vars
  <2>1. Phase' = Phase /\ Traces' = Traces /\ cancelled' = cancelled
    BY <1>9 DEF vars, Phase, Over, Traces, Differs, hostVars, supVars
  <2> QED
    BY <2>1 DEF Served, Promised!vars
<1>10. CASE \E ok \in BOOLEAN : RaiseTun(ok)
  BY <1>7, <1>8, <1>10
<1> QED
  BY <1>1, <1>2, <1>3, <1>4, <1>5, <1>6, <1>7, <1>8, <1>9, <1>10 DEF Next, Inner

\* The SSL VPN, from the first prompt to the end of the program, is the service
\* the program promises: nothing is changed on the host before an attempt and
\* after it, whichever of routes, nameservers and interface came up and whatever
\* of it failed; once asked to stop, at most the attempt whose wait is already
\* over still starts, and none after it; and only a second signal leaves traces
\* behind.
THEOREM TunnelServes == Spec => ImplementsService
<1>1. Init => Promised!Init
  <2> SUFFICES ASSUME Init PROVE Promised!Init
    OBVIOUS
  <2>1. sup = "asking" /\ cancelled = FALSE /\ host = NewHost(config) /\ before = Visible(host)
    BY DEF Init, SupInit
  <2>2. host.tun = FALSE /\ host.record = FALSE /\ host.table = before.table
        /\ host.resolv = before.resolv
    BY <2>1 DEF NewHost, Visible
  <2> QED
    BY <2>1, <2>2 DEF Promised!Init, Phase, Traces, Differs
<1>2. Init => Inv
  <2> SUFFICES ASSUME Init PROVE Inv
    OBVIOUS
  <2>2. ControlTypes
    BY ControlTypesInit
  <2>3. Placed
    BY DEF Init, SupInit, Placed
  <2> QED
    BY <2>2, <2>3, HostInit, DnsInit DEF Inv
<1>3. Inv /\ [Next]_vars => Inv'
  BY StepKeepsHost, StepKeepsDns, StepKeepsControlTypes, StepKeepsPlaced DEF Inv
<1>4. Inv /\ Inv' /\ [Next]_vars => [Promised!Next]_(Promised!vars)
  BY StepServes DEF Served
<1> QED
  BY <1>1, <1>2, <1>3, <1>4, PTL DEF Spec, ImplementsService, Promised!Spec

=============================================================================

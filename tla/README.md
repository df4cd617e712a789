# TLA+ models of openfortivpn-rs

openfortivpn-rs is a client for Fortinet gateways. It builds a tunnel in one of
three ways: PPP over TLS (`crates/sslvpn`), its own IKEv2/ESP (`crates/ikev2`), or
IKEv2 done by strongSwan's charon over its VICI socket (`crates/charon`,
`crates/vici`). This directory models the parts whose correctness depends on the
order of events: state machines, retransmission, crossing requests, partial set-ups
and how they are undone, the ways a session ends, and the algorithms whose edges
matter (the replay window, the reassembly of fragments, the choice of proposals). TLC
checks them on small instances, and TLAPS proves for every value of the constants every
safety property that a passing run checks.

To check a run: `tlc -config MCPpp.cfg MCPpp`. To check the proofs: `tlapm` on
`PppProofs.tla`, `IkeProofs.tla`, `IkeTunnelProofs.tla`, `IkeChildProofs.tla`,
`IkeDataProofs.tla`, `SslProofs.tla`, `CharonProofs.tla` and `LeastNumber.tla`.

## Inventory

| part | state | operations | what is hard |
|---|---|---|---|
| PPP automaton, `sslvpn/src/ppp.rs` | per layer: state, identifier, retransmission and Nak counters, timer, options asked for; `down` | `open`, `input`, `timeout`, `close`, each returning actions | lost, stale and repeated packets, identifiers that wrap, two layers whose states must fit, bounded negotiation |
| SSL tunnel, `sslvpn/src/tunnel.rs` | TLS stream and buffer, `Ppp`, host (TUN, routes, DNS) | `run`, `unframe`, `perform`, `bring_up`, `teardown`, `close_ppp` | frames handled in a batch, cancel at any wait, partial set-up |
| portal, `sslvpn/src/portal.rs`, `saml.rs`, `https/src/http.rs`, `redirect.rs` | connection, cookie | log in with a second factor, allocate, fetch the configuration, start the tunnel, log out | a request sent again on a new connection, cancel while a login is in flight, a session left behind |
| IKEv2 session, `ikev2/src/session.rs`, `lib.rs` | stage, SPIs and keys, message ids of both directions, last request and response, CHILD SAs, host, `down`, `next_ike` | `request`, `handle_packet` and its handlers, `watch`, `on_timer`, `teardown` | the gateway's requests are handled in the middle of the client's, datagrams are lost, repeated and reordered, the IKE SA may be replaced at any wait |
| IKEv2 setup, `ikev2/src/setup.rs` | what IKE_SA_INIT and IKE_AUTH agreed | `establish`, `ike_sa_init`, `ike_auth`, `eap_rounds`, `bring_up` | retries under one message id, errors after the gateway has committed |
| rekeying, `ikev2/src/rekey.rs` | CHILD SAs | `create_child`, `delete_child`, `rekey_child` | both sides rekey or delete at once |
| ESP, `ikev2/src/child.rs` | sequence number, replay window | seal, open | the window's edges, the sequence limit before the rekey has completed |
| messages, `ikev2/src/message/` | reassembly of fragments | seal, open, reassemble | fragments of several messages, IKE SAs and retransmissions interleaved |
| EAP, `ikev2/src/eap.rs` | the method, its challenge and key | answer a request | a gateway that changes the method or skips rounds |
| proposals, `ikev2/src/proposals.rs` | none | parse, propose, choose | two sets that differ in a key length or a group only |
| host network, `net/src/` | routes added, the default route replaced, DNS entries changed | set up, restore | every command may fail, routes that exist already, changes by others |
| VICI, `vici/src/` | socket, queue of events, whether an exchange was dropped halfway | exchange, subscribe, next event | answers carry no number, events come between a command and its answer |
| charon tunnel, `charon/src/` | two connections, what is loaded, what is believed up | `run`, `establish_and_watch`, `teardown` | cancel while initiating, events overtaken, charon restarted, a connection lost |
| command line, `cli/src/main.rs` | attempts, the cancellation token | `keep_running`, `stop_on_signal` | a signal at any moment, a second one |
| cryptography, TLS, HTTP, certificates, settings | | | computation, I/O and text: not modelled |

Each session is one asynchronous task: what runs between two waits is atomic, and
the interleaving that matters is between that task, the gateway, the network, the
clocks and the user's cancel. `Ppp` is a pure machine the SSL tunnel calls;
`Session::request` is the one wait of the IKEv2 client, and it calls the handlers of
the gateway's requests from inside. `net` is called by both tunnels to change the
host and to restore it.

What makes them correct: a PPP link never hangs, agrees only on what was asked,
configures the host once, and ends; an IKEv2 session never repeats a nonce, has the
CHILD SAs the gateway has, has the interface up only while a tunnel exists, notices
a dead gateway, and tells a living one when it leaves; a replay is never accepted, a
gateway that has to know the password has proved it, both sides use the same
algorithms; a host gets back its routes and nameservers whatever failed on the way up,
a gateway that could be protected is never routed into its own tunnel, a session that is known is logged
out; an answer of charon is never taken for another command's; and the program, asked
to stop, ends, unless it waits for someone with nothing to end the wait.

## Modules

**PppMachine** has the methods of `ppp.rs` as operators: each takes the state
a method works on and yields the state and the actions it leaves. `*Fsm` and `On*`
are the methods of `Fsm`; `*Link`, `OnLcp` and `OnIpcp` those of `Ppp`. A layer is a record
with the fields of `Fsm` and of its `Layer`. An option is a kind and an integer;
`Wrong` stands for data of a wrong length and `Unspecified` for 0.0.0.0.

**Ppp** drives the machine the way `tunnel.rs` does. Variables: `link` (struct `Ppp`),
`acts` (what the last call returned), `closed` (teardown has called `close`), and the
histories `sent` and `ups`. Actions: `Open`, the four `Receive*` (any packet the
gateway may send, at any time after the start, also after a Down or a close because
`unframe` feeds a whole batch), `Timeout(due)` for any set of armed timers, and
`Close`. `Driven` says while which loop still serves deadlines, `Due` when the loops
have something to do by themselves.

**IkeClient** is the session task of `session.rs`, `setup.rs`, `rekey.rs` and `lib.rs`.
`task` and `wait` are where the task waits and for which request; the
other variables are fields of `Session`, named in the module, and the history `sent`.
An action is what the task does from one wait to the next: `Establish`, one `On...Reply`
per awaited response, one handler per kind of request of the gateway
(`OnRetransmission`, `OnRefused`, `OnIkeRekey`, `OnChildRekey`, `OnInformational`),
`Retransmit`, `GiveUp`, `IoError`, `Cancel`, `StartDpd`, `StartRekey`. `Spec` lets the
gateway be anything that holds the keys in `Keyed`: every response and every request,
with any identifier, at any time. An IKE SA is a number, standing for its SPIs and
keys. Datagrams that do not parse or authenticate are dropped by the code and
left out.

**IkeTunnel** composes IkeClient with a gateway that follows RFC 7296 and a network
that may lose, repeat, delay and reorder every datagram: `gwSent` and `sent` only
grow, and any message in them may arrive. The gateway (actions `Gw*`) is not part of
the repository. It answers each request once and in order, has one request under way
per IKE SA, probes, deletes and rekeys CHILD SAs, rekeys and deletes IKE SAs, and may
die. It grants any part of the networks it is asked for, down to none the client knows
(RFC 7296, 2.9), and the client takes what it gets. Two assumptions about it are named: it does not delete or rekey a CHILD SA
before it knows the client has it (`Installed`), and a CHILD SA it created by a rekey
has had its response before it falls due, an hour later (`Settled`).

**Service** is the abstract specification of the program, whichever tunnel it runs:
attempts follow each other, what an attempt changes outside the program is undone
before the next one and before the end, and only a second signal leaves traces. Once the
user asked to stop, no attempt follows the one that is under way; between two attempts
the one whose wait is already over may still start (`select!` may find the sleep and the
token ready together), and none after it. SslTunnel and CharonTunnel each implement it
(`ImplementsService`, an INSTANCE with the phase, the traces and the request to stop
read off their own variables).

**Supervisor** is `keep_running` and `stop_on_signal` of `main.rs`: secrets are asked
for, an attempt runs, its result ends the program or is slept over; the first signal
cancels, the second exits. The modules of the tunnels extend it and call `Ends` where
`run` returns.

**Portal** is the conversation with the web portal: `step` is the request under way.
`Broken` is the retry of the HTTPS client: once, on a new connection, whether or not
the gateway had acted on the request. What a page says is the gateway's choice.

**HostNet** has the functions of `routes.rs`, `dns.rs` and `tun.rs` as operators on a
host: what everybody sees of it (interface, routing table, `resolv.conf`, a record of
resolvconf) and what the client remembers to undo it. Each takes the set of commands
that fail. A route is a destination, an interface and a metric; a line of
`resolv.conf` a keyword and its words. The networks the gateway names may be anything
`parse_vpn_config` accepts: its own address, a network around it (`Around`), a half of
the address space or everything.

**SslTunnel** is `run` and `Link` of `sslvpn/src/tunnel.rs` over the three before: `at`
is where `run` waits. Setting up the host is three steps (`RaiseTun`, `RaiseRoutes`,
`RaiseDns`) and undoing it two (`TeardownDns`, `TeardownRoutes`), as the code waits for
commands in between and the process may be killed there. A cancel at a prompt on the
terminal leaves the program `lingering`: the prompt is a blocking thread, which the end
of the runtime waits for. `exposed` remembers that networks were routed although the
gateway could not be protected. PPP appears as the lists of
actions it may ask for; that it reports Up once and is quiet once closed is proved in
PppProofs.

**ViciClient** is the connection of `vici/src/client.rs`: packets on the wire, the
queue of events read while waiting for an answer, and the poisoned state an abandoned
exchange leaves behind. **CharonTunnel** is `charon/src/tunnel.rs` over two such
connections. charon is external: it takes commands in order, sends the events a
connection is subscribed to, takes its time for an `initiate`, and may be restarted; of
an IKE SA that ends it reports the children first, in any order, then the IKE SA
(`EmitEnding`). `excused` remembers what charon holds without this program having failed
to try: an SA of an earlier run, what a command of teardown that failed was to remove,
and an SA that had not appeared when the second look of teardown began.

**Proposals**, **Eap**, **Reassembly** and **EspSa** are `proposals.rs`, `eap.rs`, the
`Reassembler` of `message/mod.rs` and the data path of `child.rs`. **IkeData** composes
them the way `setup.rs`, `session.rs` and `rekey.rs` do, with the control of the
exchanges, which IkeClient and IkeTunnel have, reduced to what they need. Its gateway
has a certificate, may or may not know the password, and its fragments arrive in any
order and any number of times.

**Vec** has `Vec::retain`, by which the code removes CHILD SAs and lines, as a recursive
function the provers can reason about (`SelectSeq` is opaque to them).

**PppProofs**, **IkeProofs**, **IkeTunnelProofs** (over IkeProofs), **IkeChildProofs**
(over IkeTunnelProofs), **IkeDataProofs**, **SslProofs** and **CharonProofs** hold the
theorems; **LeastNumber** has the lemmas about naturals and `Retained` they share.
**MC\*** give the constants values.

## Runs

| run | states | shows |
|---|---|---|
| `ppp` | 285,000 | safety of the PPP link against any gateway; the negotiation decides (`Decides`), closing ends (`CloseEnds`) |
| `ike_client` | 448,000 | safety of the session against any gateway |
| `ike_tunnel` | 970,000 | both sides agree after crossing rekeys and deletes, with loss, repetition and reordering |
| `ike_live` | 156,000 | a dead gateway is noticed, teardown ends, the wanted networks are covered as far as the gateway lets them |
| `ssl` | 170,000 | from the login to the logout, through several attempts: the host is put back, sessions are closed, a signal ends the program, `Service` is implemented |
| `charon` | 460,000 | the same of the tunnel charon runs, and that answers and events are taken for what they are |
| `ike_data` | 704,000 | algorithms, EAP, fragments and ESP numbers against a gateway that may be false |
| `ike_takeover`, `ike_silent`, `ike_init`, `ike_tells`, `charon_lost` | small | counterexamples, see Findings |

Properties of the PPP link: `TimerArmed`, `NeverStuck` (the loop never sleeps with no
deadline and no IP flowing), `RequestBound`, `IpOverOpenLcp`, `UpOnce`, `UpIsSound`,
`QuietAfterClose`, `RequestInUse` (an acknowledgement is recognised by its identifier
alone, so what the layer believes it asked must be what it last sent), `OnlyForward`.
Of the session: `NonceUnique`, `HostOnlyEstablished`, `UpWithChild`; with the
gateway `ChildrenAgree`, `SaExists`, `UpHasChild`, `ToldOfEnd`, and `UpCovers` (a wanted
network without a CHILD SA is one whose CHILD SA the gateway deleted, or one it narrowed
away from the CHILD SA that was asked for it). Of the SSL tunnel: `RoutesRestored`,
`ResolvRestored` (edits other programs made meanwhile are kept), `GatewayOutside` (but
for networks added past a gateway that could not be protected), `SessionsClosed`,
`StopEnds` (or the program is kept by a wait that nothing ends, `Blocked`). Of the charon
tunnel:
`OwnAnswers` (charon does not number its answers, so an abandoned command must not
leave one to be read for the next), `ViewAgrees` (with every event read, the client
believes those children up that are), `StopEnds`, and `ImplementsService`, which here says
that nothing loaded or initiated is left when an attempt is over, the SA of an abandoned
`initiate` included that appears before the second look. Of the data of IKEv2:
`AlgorithmsAgree`, `ProvenGateway`, `WholeMessages`, `NumbersOnce`.

Bounds. In `ppp` the counters are at 0 or 1, which makes every limit reachable, and
identifiers are taken modulo 2, so that they wrap and stale packets with the right
identifier occur; option lists hold values that are taken, values that are refused,
ill-formed ones and our own magic number. In `ike_client` the gateway knows two IKE
SAs, three ids of responses and two of requests: an EAP login up to its last answer,
a rekey, and stale and repeated messages on both. In `ike_tunnel` there are two IKE SAs, three requests of the client and
two of the gateway on each: two crossing rekeys with their deletes, and a takeover in
the middle; no networks are named, so that a CHILD SA is for all traffic and narrowing
does not multiply the states. Retransmissions need no bound there, since any message may
arrive again; `Retransmits` counts only towards giving up. `ike_live` has EAP, two
networks and every way to narrow them, a retry with another group and two
retransmissions.

In `ssl` each of the configurations differs from the usual one in what one part
of the code looks at: the way of logging in and the second factor, the platform, full,
half or no routing, networks (the gateway's own address, one around it, the halves and
everything among them), hosts with and
without a default route, with metrics, with routes that exist already, a peer address
equal to the gateway's, the tools for nameservers. Up to two commands of a function
fail (`MaxFailures`), which reaches every combination of an error path and a failing
clean-up; attempts are not bounded. In `charon` there are two children, one of which
may come up or be closed without the other, one SA closed by the gateway and one lost
connection or restart (`MaxDrops`, `MaxBreaks`). In `ike_data` the window is 2 and
numbers go to 3, so that one leaves the window; the limit of outgoing numbers is 2,
two generations of keys, messages of one or two fragments, two IKE SAs, two
challenges. Long EAP conversations, many requests and traffic multiply each other, so
`Loads` has one behaviour bound for each.

`CHECK_DEADLOCK FALSE` is used where a session or the program that is over stops: in
all runs but those of PPP, where packets may always arrive.

Fairness. The deadlines are branches of `select!`, which polls its branches in random
order, so a stream of packets cannot starve one: weak fairness of `ClientTimer` and
`ClientDpd`, and in Ppp of `Driver`, written out with the condition it is enabled under
(`Due`). `Open` and `ClientStart` are straight-line code, and `teardown` follows a Down.
`close_ppp` serves deadlines only during `CLOSE_GRACE`, which is part of `Driven`. In
SslTunnel and CharonTunnel the steps the program takes by itself are weakly fair together
(`Inner`), which takes the commands it runs on the host to end. In SslTunnel this leaves
out the waits that neither the token nor a timeout ends (`Blocked`): `send` and the end of
the connection wait for the gateway to read, and a prompt on the terminal for the user;
the gateway may stop reading and the user may never answer, and `StopEnds` says that
nothing else keeps the program. The branch that looks at
the token is strongly fair where traffic keeps the loop from waiting all the time
(`CancelLink`, `CancelListening`), since `select!` polls in random order each time it
waits. charon is taken to answer every command but `initiate`. Nothing else is assumed
of the gateway or of the network.

## Proofs

`PppProofs`, for all limits, option lists and moduli greater than 1, from the named assumptions
of `PppMachine` and `Ppp`: `TypeCorrect`, `TimersArmed`, `NeverStuckHolds`,
`IpOverOpenLcpHolds`, `UpsOnce`, `UpsAreSound`, `QuietOnceClosed`, `RequestsBounded`,
`RequestsInUse` and `OnlyForwardHolds`. They follow from one inductive invariant, `LinkInv` of
module `Ppp`. Its parts: `Sound` (types, and which states have a timer), `Coherent`
(how the states of the two layers, `down` and `closed` fit) and `Accounted` (requests
sent plus the `Budget` that is left never exceed the limit, and the last request sent
is the one in use). None of the properties is inductive by itself: `UpOnce` needs that
a layer that was open never negotiates again, `NeverStuck` that a closed layer has
been reported. The proof goes up the call graph: one lemma per method of `Fsm`, then
one per method of `Ppp`, each saying what the step may change and emit; the actions of
`Ppp` only call those.

`IkeProofs`, against any gateway, for any number of rekeys: `SessionInvariant`,
`NoncesUnique`, `HostIsEstablished`, `SessionTypes` and `ComesUpWithChild`. The invariant
`IInv` has two parts. `KeyInv` says
that every request sent on the current IKE SA has an identifier below `messageId`,
every response one below `peerMessageId`, and none was sent on an IKE SA not derived
yet; `NonceUnique` follows because a message takes the next identifier or
repeats the last one unchanged. `ControlInv` ties stage, keys, host and task together.
The proof classifies each action by its effect on keys and messages (asked, responded,
repeated, switched, the same) and proves each class once. `TypeInv` adds that the CHILD
SAs are a list whatever is removed from it, which is what `Retained` yields: a recursive
function, about which LeastNumber argues from the least position where the claim fails.

`IkeTunnelProofs`, with a gateway that follows the protocol and a network that loses,
repeats and reorders, for any number of IKE SAs, requests and retransmissions:
`TunnelInvariant`, `GatewayTold`, `LiveInvariant` and `SaIsThere`. `CliInv` is what the
client alone guarantees: the request it waits for is the last one it sent on its IKE SA,
and has the body its place in the code says. `GwInv` relates the messages of the gateway
to those of the client: there is at most one response to a request and it fits it, its
requests are numbered without gaps, its counters are ahead of what the client has
handled, and each IKE SA it replaced has its successor. From these `ToldOfEnd` follows.
`SaExists` needs how far apart the two may be while the session lives (`LiveInv`): which
IKE SA each side has to take over (`PaceInv`), in which state the gateway then holds it
(`StateInv`), and that one that is half open was asked for (`HalfInv`).

`IkeChildProofs`, under the same: `ComesUpCovered`, `ChildInvariant`, `ChildrenSame` and
`UpIsCarried`. `ChildrenAgree` is about the moments with nothing under way and is far from
inductive. `KidInv` says of every CHILD SA that only one side has what is still on its
way. One only the gateway has is `Coming`: the response that created it has yet to be
received, or the client has removed it and its DELETE has yet to be. One only the
client has is `Going`: the gateway's DELETE has yet to be handled, or its response to a
rekey of the gateway has; or the gateway waits for a response on an IKE SA the client
has left (`Stuck`). With no exchange under way none of the three is possible. Further
parts say that a response not yet received is still true when it arrives
(`CreatedInv`, `FoundInv`), that a CHILD SA under rekey is settled (`SettledInv`,
`UnsettledInv`), and that the last one vanishes only by a DELETE (`EmptyInv`). The proof has one
lemma per step of the gateway, per reply and per order the client handles, and per local
step; the list of the client is compared as a set of triples (`Triples`). `Installed` and
`Settled`, the two assumptions about the gateway, are used here. `UpCovers` follows from
`CoverInv`: the networks not yet covered are those still to be asked for, those whose
CHILD SA the gateway has sent a DELETE for, and those it left out of the answer to the
request for them. That needs where the networks of a CHILD SA come from: a message of the
gateway granted them.

`SslProofs`, for every set of settings, every ordinary routing table (one route for a
destination and metric and, elsewhere than on Linux, one default route), every list of
networks (everything and the halves included) and every set of failing commands:
`SessionsAreClosed`, `RoutesAreRestored`,
`GatewayStaysOutside`, `SslTypes`, `ResolvIsRestored` and `TunnelServes`. The first follows
from `SessionInv`: what is known of the
session at the places where `run` may return. The next two follow from `HostInv`.
Neither is inductive: the table says nothing of what will be left of it. `RoutesInv`
therefore has `Left`, what `Routes::restore` would leave, equal to the table before
from the moment the interface exists; `Remembered`, that the default route which is
remembered fits into the table again; and `Guarded`, that the gateway has a route of
its own outside the tunnel whenever something is routed into it, unless `exposed`. `ControlInv` says
that bring_up happens once in a link, which needs that PPP reports Up once
(`BatchesAssumption`, proved in PppProofs as `UpsOnce`). One lemma per function of
`routes.rs` says what it does to the three. That the best route exists is
the least-number principle (`LeastNumber`).

`ResolvIsRestored` is for every `resolv.conf` with at most one search line, to which other
programs add lines that are no search line (`ResolvAssumption`; the code merges two search
lines into one, see Findings). `Grown` relates a file to what it was before the tunnel:
the same lines in the same order, below the ones we added, with our search line in the
place of the old one. `ResolvInv` says that the file is `Grown` from the one before by exactly what
the client remembers, from the moment it was edited, and edits of others keep
that; the lemmas follow `dns.rs`: adding produces a grown file, removing yields the old one.

`TunnelServes` is the refinement of `Service`: the initial state maps to an initial state
and every step to a step of the service or to nothing. It needs that an attempt has traces
exactly while it has the interface, and that restoring is over before `run` returns.

`CharonProofs`, for every number of children, every set of credentials and any number of
lost connections, restarts of charon and SAs closed by the gateway: `TypesAreKept`,
`AnswersAreOwn`, `TunnelServes` and `ViewIsRight`. `PlaceInv` says which commands may be
outstanding at each place of `run`; `WireInv` that a connection holds events only, or, with
a command under way, at most one answer, which is to that command: `OwnAnswers` follows,
because an abandoned exchange poisons its connection and a poisoned one is either
replaced or never read again. For the refinement, `LoadedInv` says that what charon holds
and is not excused is what the client remembers (`mine`) or has just been told of, and in
the unload still to be unloaded. `SaInv` is about the SA: a job of ours in charon belongs
to the initiate under way or to one that was abandoned or whose connection was lost
(`JobKnown`); one that is left when terminate was answered is met by the second look,
because its answer says that nothing matched (`LookedFor`); so none is left in the unload
(`NoneLeft`).

`ViewAgrees` speaks of the moments when every event has been read. `ViewInv` therefore
follows the events that have not: `Reaches` is what the client will believe (its
`Opinion`) once it has handled what waits in the queue of the connection and on the wire.
That opinion never says more than charon has (`Sound`), has everything charon has once the
stale IKE SA has been terminated (`Complete`), and has seen the IKE SA once it was
established (`Seen`). This rests on the order of the set-up: the events are subscribed to
before the stale SA is terminated (`Ordered`), so that none is missed.

`IkeDataProofs`, for every window, limit, number of SAs and of fragments:
`SequenceNumbersOnce`, `GatewayProven`, `MessagesWhole`, `AlgorithmsSame` and `DataTypes`.
For ESP the invariant
relates the bits of the window to the numbers accepted, and the next number to the
ones sent; for EAP it says that a key of MSCHAPv2 exists only after a challenge was
answered and that a session is not claimed without one; for messages that everything
the reassembler holds under an id is of that id, total and IKE SA, since switching the
IKE SA empties it. `AlgorithmsAgree` comes from lemmas about the choices: a proposal made
from a set of algorithms, chosen from with the same set, gives that set; an answer the
client takes is a choice from the proposal it was compared with; what it chooses from an
offer is offered. `AgreedInv` adds that the sets in use come from the settings and that
no rekeying happens outside a session. The assumptions are about the inputs:
ciphers are named consistently (`SettingsAssumption`), offers are lists of well-formed
transforms (`OffersAssumption`), and an answer that is called foreign is not a choice from
any of our proposals (`ForeignAssumption`, by definition of what foreign means).

Model-checked only: liveness under fairness (`Decides`, `CloseEnds`, `StopEnds` and the
properties of `ike_live`), which is out of the prover's reach, and the violations listed
under Findings.

## Findings

- `TakesOverAfterDelete` (`session.rs:669`): the DELETE of the last CHILD SA lets a
  pending rekeyed IKE SA take over before the gateway deletes the old one, and the
  interface stays up with nothing to carry its traffic.
- `SilentIsSilent` (`session.rs:483`): an IKE SA replaced during a request makes the
  client miss the answer, and a probe then ends the session as if the gateway were
  silent.
- `SameInit` (`setup.rs:147`): a repeated cookie or group reply is taken for the
  response to the next IKE_SA_INIT attempt.
- `TellsGateway` (`session.rs:1056`): a session that ends with a rekeyed IKE SA
  pending deletes only the old one.
- `RemovedBeforeReturning` (`charon/src/tunnel.rs:116`): when the command connection is
  lost, rather than abandoned by a cancel, `control` still chooses it: the commands of
  teardown fail one after the other and what was loaded stays in charon, though the event
  connection works and `tunnel.rs:30` says "Whatever happens, what was loaded into charon
  is removed before returning."

Smaller observations, not stated as properties: `Fsm::id` is documented as "Identifier
of our outstanding request." (`ppp.rs:178`), but a Code-Reject or Protocol-Reject we
send advances it; an address suggested by a Nak and then rejected is still reported
(`Addresses`, `ppp.rs:62`); a Nak in state Closed is answered with a request; an MRU
of 0 suggested by a Nak is taken; a cancel between the last IKE_AUTH request and its
response leaves the gateway an IKE SA that is not deleted; a gateway that
deletes the last CHILD SA alone gets no DELETE for the IKE SA; the traffic selectors of a
response are taken unchecked (`setup.rs:698`), so that a gateway may leave a wanted
network uncovered with the interface up.

Of the SSL tunnel: a cancel while the login is in flight drops the request, and a
session the gateway then opens is not logged out, its cookie being unknown; with a
configured cookie and `persistent`, the session is logged out at the end of an attempt
and the next one starts with a cookie that is dead; the HTTPS client may send a login
or a one-time password a second time (`http.rs:208`); two search lines in
`resolv.conf` are merged into one when it is restored; a pushed 0.0.0.0/0, /1 or network
around the gateway is routed with only a warning when the gateway could not be protected
(`tunnel.rs:337`), and the tunnel's own connection then goes into the tunnel; `send` and
the shutdown of the connection (`tunnel.rs:160`, `:378`, `:387`) wait for a gateway that
does not read, with neither the token nor a timeout to end it; after a cancel at the
prompt for a one-time password on the terminal the end of the runtime waits for the
answer, and a second signal is not looked at any more, though `main.rs:688` says that it
"exits at once".

Of the charon tunnel: an abandoned `initiate` slower than the second look of the
teardown leaves an IKE SA, which the next run terminates as stale; a child that went
down during the set-up is marked up again (`trusted`).

Of the data: the `Reassembler` is keyed by the message id, so that a request and a
response with the same id and number of fragments get mixed (`WholeMessages` says that
nothing else does); the answer to an ESP proposal has an ESN transform although none
was offered; the key of an earlier EAP challenge is kept when a new challenge replaces
the conversation.

## Not modelled

Cryptography and key derivation, certificates, TLS and the bytes of messages (payloads,
vici, HTTP, ESP): computation and layout, covered by the repository's unit tests. The
settings file, arguments and prompts: text. FortiClient's vendor payloads and the SAML
login of IKEv2: formats and a browser. NAT detection and keepalives: no state the rest
looks at. Traffic selectors and configuration payloads are sets of networks. Logging is
left out everywhere.

## Plan

Done: the PPP link, the IKEv2 session alone and with a gateway, the data of IKEv2, the
SSL tunnel with portal, host and supervision, the charon tunnel with the VICI client,
the service both implement; the proofs listed above.

Left: IkeClient over `Service`, with the host of HostNet, so that all three tunnels are
shown to implement it.

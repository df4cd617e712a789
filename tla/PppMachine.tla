----------------------------- MODULE PppMachine -----------------------------
(***************************************************************************)
(* The PPP state machine of the SSL VPN tunnel (crates/sslvpn/src/ppp.rs)  *)
(* as operators: the option negotiation automaton of RFC 1661, instanced   *)
(* for LCP and IPCP, and the link that runs LCP, then IPCP, then IP.       *)
(* Every operator takes the state a method works on and yields the state   *)
(* it leaves together with the actions it asks the tunnel to perform, in   *)
(* order.                                                                  *)
(*                                                                         *)
(* Option values are integers: Wrong stands for data whose length does not *)
(* fit the option, Unspecified for the address 0.0.0.0.  A packet's bytes, *)
(* its wording in the log and the truncation of rejected packets are left  *)
(* out.                                                                    *)
(***************************************************************************)
EXTENDS Integers, Sequences

CONSTANTS
  LcpMaxConfigure,    \* LCP_MAX_CONFIGURE: 40 in the code
  IpcpMaxConfigure,   \* IPCP_MAX_CONFIGURE: 10
  MaxTerminate,       \* MAX_TERMINATE: 2
  MaxNakLoops,        \* MAX_NAK_LOOPS: 5
  IdMod,              \* packet identifiers are bytes: 256
  DefaultMru,         \* DEFAULT_MRU: 1500
  LinkMru,            \* the MRU the tunnel asks for: MTU of config.rs
  OurMagic,           \* the random magic number of this link
  AskDns              \* whether the configuration wants peer nameservers

ASSUME CountsAssumption ==
  /\ LcpMaxConfigure \in Nat /\ IpcpMaxConfigure \in Nat
  /\ MaxTerminate \in Nat /\ MaxNakLoops \in Nat
ASSUME IdAssumption == IdMod \in Nat /\ IdMod > 1
ASSUME ValueAssumption ==
  /\ DefaultMru \in Nat /\ LinkMru \in Nat /\ LinkMru <= DefaultMru
  /\ OurMagic \in Nat /\ AskDns \in BOOLEAN

Wrong == -1
Unspecified == 0

Smaller(a, b) == IF a <= b THEN a ELSE b

Layers == {"lcp", "ipcp"}
States == {"Initial", "ReqSent", "AckRcvd", "AckSent", "Opened", "Closing", "Closed"}
Negotiating == {"ReqSent", "AckRcvd", "AckSent"}
Ids == 0 .. (IdMod - 1)

\* The options a layer asks for itself.  What the peer asks may also be
\* "accm" (LCP) or "other", any option the code does not know.
OurKinds(l) == IF l = "lcp" THEN {"mru", "magic"} ELSE {"address", "dns1", "dns2"}
MaxConfigure(l) == IF l = "lcp" THEN LcpMaxConfigure ELSE IpcpMaxConfigure

-----------------------------------------------------------------------------
(* The option sets of the two layers (trait Layer).                        *)

\* What one of our Configure-Requests holds: the wanted value of every
\* option still asked for (their order in the packet is fixed).
Request(f) == [k \in {k \in OurKinds(f.layer) : f.ask[k]} |-> f.want[k]]

\* Whether a value suggested by a Configure-Nak is taken.
TakesNak(l, k, v) ==
  /\ v # Wrong
  /\ l = "lcp" /\ k = "mru" => v <= DefaultMru
  /\ l = "ipcp" => v # Unspecified

\* accept_nak over a whole Configure-Nak: the last acceptable suggestion of
\* each kind wins.
AcceptNak(f, opts) ==
  LET taken(k) == {i \in DOMAIN opts : /\ opts[i].kind = k
                                       /\ TakesNak(f.layer, k, opts[i].value)}
      last(S) == CHOOSE i \in S : \A j \in S : j <= i
  IN [f EXCEPT !.want = [k \in OurKinds(f.layer) |->
        IF taken(k) = {} THEN f.want[k] ELSE opts[last(taken(k))].value]]

\* accept_rej over a whole Configure-Reject.
AcceptRej(f, opts) ==
  [f EXCEPT !.ask = [k \in OurKinds(f.layer) |->
     f.ask[k] /\ \A i \in DOMAIN opts : opts[i].kind # k]]

\* review: our answer to one option of the peer's Configure-Request.  A
\* magic number equal to ours hints at a looped-back line.
LcpReview(f, o) ==
  CASE o.kind \notin {"mru", "accm", "magic"} \/ o.value = Wrong -> "Rej"
    [] o.kind = "magic" /\ o.value = f.want["magic"] -> "Nak"
    [] OTHER -> "Ack"

IpcpReview(o) ==
  IF o.kind = "address" /\ o.value \notin {Wrong, Unspecified} THEN "Ack" ELSE "Rej"

Review(f, o) == IF f.layer = "lcp" THEN LcpReview(f, o) ELSE IpcpReview(o)

\* peer_configured: the value of the first option of the kind that counts,
\* the peer's MRU for LCP and its address for IPCP, or the default (for
\* IPCP, Unspecified stands for no address).
PeerKind(l) == IF l = "lcp" THEN "mru" ELSE "address"
PeerDefault(l) == IF l = "lcp" THEN DefaultMru ELSE Unspecified
PeerValue(l, opts) ==
  LET told == {i \in DOMAIN opts : opts[i].kind = PeerKind(l)}
  IN IF told = {} THEN PeerDefault(l)
     ELSE opts[CHOOSE i \in told : \A j \in told : i <= j].value

-----------------------------------------------------------------------------
(* The actions a call asks for, and the result of one automaton step: the  *)
(* automaton, the actions, and whether the layer came up or went down.     *)

\* The identifier of a packet matters for Configure-Requests only: answers
\* echo the one they answer.
Send(f, code) == [do |-> "Send", layer |-> f.layer, code |-> code]
SendConfReq(f) == [do |-> "Send", layer |-> f.layer, code |-> "ConfReq",
                   id |-> f.id, opts |-> Request(f)]
Deliver == [do |-> "Deliver"]
Down == [do |-> "Down"]

Step(f, out, outcome) == [fsm |-> f, out |-> out, outcome |-> outcome]
Quiet(f) == Step(f, <<>>, "none")

-----------------------------------------------------------------------------
(* The option negotiation automaton (struct Fsm).                          *)

NewFsm(l, want, ask) ==
  [layer |-> l, state |-> "Initial", id |-> 0, retransmits |-> 0, nakLoops |-> 0,
   timer |-> FALSE, peerOptions |-> <<>>, want |-> want, ask |-> ask,
   peer |-> PeerDefault(l)]

\* Mutant: the identifier is not a byte.
NextIdUnwrapped(f) == [f EXCEPT !.id = @ + 1]

NextId(f) == [f EXCEPT !.id = (@ + 1) % IdMod]

\* send_request: the pending restart timer is replaced by a new one.
SendRequest(f) == Step([f EXCEPT !.timer = TRUE], <<SendConfReq(f)>>, "none")

OpenFsm(f) ==
  SendRequest([NextId(f) EXCEPT !.state = "ReqSent",
                                !.retransmits = MaxConfigure(f.layer),
                                !.nakLoops = 0])

\* Mutant: nothing repeats a lost Terminate-Request.
SendTerminateOnce(f) == Step([NextId(f) EXCEPT !.timer = FALSE], <<Send(f, "TermReq")>>, "none")

SendTerminate(f) ==
  LET g == NextId(f)
  IN Step([g EXCEPT !.timer = TRUE], <<Send(g, "TermReq")>>, "none")

\* close: a Terminate-Ack is awaited afterwards iff the state is Closing.
CloseFsm(f) ==
  IF f.state \in {"Initial", "Closing", "Closed"} THEN Quiet(f)
  ELSE SendTerminate([f EXCEPT !.state = "Closing", !.retransmits = MaxTerminate])

\* Mutant: the end of a layer is not reported to the link.
FinishSilent(f, out) == Step([f EXCEPT !.state = "Closed", !.timer = FALSE], out, "none")

Finish(f, out) == Step([f EXCEPT !.state = "Closed", !.timer = FALSE], out, "Down")

\* Mutant: the last expiry of the restart timer does not end the layer.
TimeoutFsmNoEnd(f) ==
  IF f.retransmits = 0 THEN Quiet([f EXCEPT !.timer = FALSE])
  ELSE (IF f.state = "Closing" THEN SendTerminate([f EXCEPT !.retransmits = @ - 1])
        ELSE SendRequest([f EXCEPT !.retransmits = @ - 1]))

\* timeout, once the restart timer has fired.
TimeoutFsm(f) ==
  LET g == [f EXCEPT !.retransmits = @ - 1]
  IN CASE f.retransmits = 0 -> Finish(f, <<>>)
       [] f.retransmits # 0 /\ f.state = "Closing" -> SendTerminate(g)
       [] f.retransmits # 0 /\ f.state \in Negotiating ->
            SendRequest([g EXCEPT !.state = IF @ = "AckRcvd" THEN "ReqSent" ELSE @])
       [] OTHER -> Quiet([g EXCEPT !.timer = FALSE])

\* on_request: a repeat of what was acknowledged is acknowledged again, any
\* other request to an open layer ends it.
OnRequest(f, opts) ==
  LET verdicts == {Review(f, opts[i]) : i \in DOMAIN opts}
      answer == CASE "Rej" \in verdicts -> "ConfRej"
                  [] "Rej" \notin verdicts /\ "Nak" \in verdicts -> "ConfNak"
                  [] OTHER -> "ConfAck"
      out == <<Send(f, answer)>>
      configured == [f EXCEPT !.peer = PeerValue(f.layer, opts), !.peerOptions = opts]
  IN CASE f.state = "Opened" ->
            IF opts = f.peerOptions THEN Step(f, <<Send(f, "ConfAck")>>, "none")
            ELSE Finish(f, <<>>)
       [] f.state \in {"Initial", "Closed"} -> Quiet(f)
       [] OTHER ->
            CASE answer = "ConfAck" /\ f.state = "AckRcvd" ->
                   Step([configured EXCEPT !.state = "Opened", !.timer = FALSE], out, "Up")
              [] answer = "ConfAck" /\ f.state # "AckRcvd" ->
                   Step([configured EXCEPT !.state = "AckSent"], out, "none")
              [] OTHER ->
                   Step([f EXCEPT !.state = IF @ = "AckSent" THEN "ReqSent" ELSE @],
                        out, "none")

\* Mutants: an opened layer keeps its restart timer; the state is not looked
\* at before an acknowledgement counts.
OnAckKeepsTimer(f, id) ==
  CASE id = f.id /\ f.state = "ReqSent" -> Quiet([f EXCEPT !.state = "AckRcvd"])
    [] id = f.id /\ f.state = "AckSent" -> Step([f EXCEPT !.state = "Opened"], <<>>, "Up")
    [] OTHER -> Quiet(f)
OnAckAnyState(f, id) ==
  CASE id # f.id -> Quiet(f)
    [] id = f.id /\ f.state = "AckSent" ->
         Step([f EXCEPT !.state = "Opened", !.timer = FALSE], <<>>, "Up")
    [] OTHER -> Quiet([f EXCEPT !.state = "AckRcvd", !.timer = TRUE])

OnAck(f, id) ==
  CASE id = f.id /\ f.state = "ReqSent" -> Quiet([f EXCEPT !.state = "AckRcvd"])
    [] id = f.id /\ f.state = "AckSent" ->
         Step([f EXCEPT !.state = "Opened", !.timer = FALSE], <<>>, "Up")
    [] OTHER -> Quiet(f)

\* The count is only ever compared with MaxNakLoops and twice that.
NakLoopsCap == 2 * MaxNakLoops + 1

\* Mutants: negative answers are not counted; the corrected request is left
\* to the restart timer.
OnNakOrRejUncounted(f, code, id, opts) ==
  IF id # f.id \/ f.state = "Opened" THEN Quiet(f)
  ELSE SendRequest(NextId(IF code = "ConfRej" THEN AcceptRej(f, opts) ELSE AcceptNak(f, opts)))
OnNakOrRejWaits(f, code, id, opts) ==
  IF id # f.id \/ f.state = "Opened" THEN Quiet(f)
  ELSE Quiet(IF code = "ConfRej" THEN AcceptRej(f, opts) ELSE AcceptNak(f, opts))

\* on_nak_or_rej: Naks count, and after MaxNakLoops of them are taken as
\* Rejects; after twice as many negative answers the layer gives up.
OnNakOrRej(f, code, id, opts) ==
  LET g == [f EXCEPT !.nakLoops = Smaller(@ + 1, NakLoopsCap)]
      asReject == code = "ConfRej" \/ g.nakLoops > MaxNakLoops
      told == IF asReject THEN AcceptRej(g, opts) ELSE AcceptNak(g, opts)
  IN CASE id # f.id \/ f.state = "Opened" -> Quiet(f)
       [] id = f.id /\ f.state # "Opened" /\ g.nakLoops > 2 * MaxNakLoops -> Finish(g, <<>>)
       [] OTHER ->
            SendRequest(NextId([told EXCEPT
              !.state = IF @ = "AckRcvd" THEN "ReqSent" ELSE @]))

\* on_code_reject: fatal for the codes the automaton needs.
OnCodeReject(f, essential) ==
  IF essential THEN Finish(f, <<>>)
  ELSE Quiet([f EXCEPT !.state = IF @ = "AckRcvd" THEN "ReqSent" ELSE @])

\* input: one packet of the layer's protocol; a closing layer only listens
\* to Terminate packets.
InputFsm(f, p) ==
  CASE f.state = "Closing" /\ p.code \notin {"TermReq", "TermAck"} -> Quiet(f)
    [] p.code = "TermReq" -> Finish(f, <<Send(f, "TermAck")>>)
    [] p.code = "TermAck" -> IF f.state \in {"Closing", "Opened"} THEN Finish(f, <<>>)
                             ELSE Quiet(f)
    [] f.state # "Closing" /\ p.code = "ConfReq" -> OnRequest(f, p.opts)
    [] f.state # "Closing" /\ p.code = "ConfAck" -> OnAck(f, p.id)
    [] f.state # "Closing" /\ p.code \in {"ConfNak", "ConfRej"} ->
         OnNakOrRej(f, p.code, p.id, p.opts)
    [] f.state # "Closing" /\ p.code = "CodeRejEssential" -> OnCodeReject(f, TRUE)
    [] f.state # "Closing" /\ p.code = "CodeRejOther" -> OnCodeReject(f, FALSE)
    [] OTHER -> LET g == NextId(f) IN Step(g, <<Send(g, "CodeRej")>>, "none")

-----------------------------------------------------------------------------
(* The link (struct Ppp): both automatons and whether Down was reported.   *)

NewLink ==
  [lcp |-> NewFsm("lcp", [k \in OurKinds("lcp") |-> IF k = "mru" THEN LinkMru ELSE OurMagic],
                  [k \in OurKinds("lcp") |-> TRUE]),
   ipcp |-> NewFsm("ipcp", [k \in OurKinds("ipcp") |-> Unspecified],
                   [k \in OurKinds("ipcp") |-> k = "address" \/ AskDns]),
   down |-> FALSE]

IsUp(link) == link.ipcp.state = "Opened"
IsClosing(link) == link.lcp.state = "Closing"
Armed(link) == {l \in Layers : link[l].timer}

\* What a call on the link leaves: the link and the actions, in order.
Result(link, out) == [link |-> link, out |-> out]

ReportDown(link, out) ==
  IF link.down THEN Result(link, out)
  ELSE Result([link EXCEPT !.down = TRUE], Append(out, Down))

\* on_lcp
OnLcp(link, out, outcome) ==
  CASE outcome = "Up" ->
         LET s == OpenFsm(link.ipcp)
         IN Result([link EXCEPT !.ipcp = s.fsm], out \o s.out)
    [] outcome = "Down" -> ReportDown(link, out)
    [] OTHER -> Result(link, out)

\* What an opened IPCP reports: the nameservers are those told to us, the
\* peer is DEFAULT_PEER if it told no address (Unspecified here).
Up(link) ==
  [do |-> "Up", local |-> link.ipcp.want["address"], peer |-> link.ipcp.peer,
   dns |-> SelectSeq(<<link.ipcp.want["dns1"], link.ipcp.want["dns2"]>>,
                     LAMBDA server : server # Unspecified),
   mtu |-> Smaller(link.lcp.peer, link.lcp.want["mru"])]

\* Mutant: an IPCP that opens without an address counts as up.
OnIpcpAnyAddress(link, out, outcome) ==
  CASE outcome = "Up" -> Result(link, Append(out, Up(link)))
    [] outcome = "Down" -> ReportDown([link EXCEPT !.lcp = CloseFsm(@).fsm], out)
    [] OTHER -> Result(link, out)

\* on_ipcp: without an address, or once IPCP is down, LCP is closed too.
OnIpcp(link, out, outcome) ==
  LET s == CloseFsm(link.lcp)
  IN CASE outcome = "Up" /\ link.ipcp.want["address"] = Unspecified ->
            ReportDown([link EXCEPT !.ipcp.state = "Closed", !.lcp = s.fsm], out \o s.out)
       [] outcome = "Up" /\ link.ipcp.want["address"] # Unspecified ->
            Result(link, Append(out, Up(link)))
       [] outcome = "Down" /\ link.lcp.state = "Opened" ->
            ReportDown([link EXCEPT !.lcp = s.fsm], out \o s.out)
       [] outcome = "Down" /\ link.lcp.state # "Opened" -> ReportDown(link, out)
       [] OTHER -> Result(link, out)

OpenLink(link) ==
  LET s == OpenFsm(link.lcp)
  IN Result([link EXCEPT !.lcp = s.fsm], s.out)

\* Mutant: close leaves IPCP open.
CloseLinkLcpOnly(link) ==
  LET s == CloseFsm(link.lcp)
  IN IF s.fsm.state = "Closing" THEN Result([link EXCEPT !.lcp = s.fsm], s.out)
     ELSE ReportDown([link EXCEPT !.lcp = s.fsm], s.out)

\* close: IPCP is dropped without a word, LCP terminated.
CloseLink(link) ==
  LET s == CloseFsm(link.lcp)
      closed == [link EXCEPT !.ipcp.state = "Closed", !.ipcp.timer = FALSE, !.lcp = s.fsm]
  IN IF s.fsm.state = "Closing" THEN Result(closed, s.out) ELSE ReportDown(closed, s.out)

\* timeout: LCP's restart timer, then IPCP's; due are the layers whose
\* deadline has passed.
TimeoutLcp(link) ==
  LET s == TimeoutFsm(link.lcp)
  IN OnLcp([link EXCEPT !.lcp = s.fsm], s.out, s.outcome)

TimeoutIpcp(link, out) ==
  LET s == TimeoutFsm(link.ipcp)
  IN OnIpcp([link EXCEPT !.ipcp = s.fsm], out \o s.out, s.outcome)

TimeoutLink(link, due) ==
  LET first == IF "lcp" \in due THEN TimeoutLcp(link) ELSE Result(link, <<>>)
  IN IF "ipcp" \in due THEN TimeoutIpcp(first.link, first.out)
     ELSE first

\* control and lcp_input: LCP has a few codes of its own.
InputLcp(link, p) ==
  LET s == InputFsm(link.lcp, p)
  IN CASE p.code = "EchoReq" ->
            Result(link, IF link.lcp.state = "Opened"
                         THEN <<Send(link.lcp, "EchoReply")>> ELSE <<>>)
       [] p.code = "ProtoRejIpcp" -> OnLcp(link, <<>>, "Down")
       [] p.code \in {"Ignored", "ProtoRejOther"} -> Result(link, <<>>)
       [] OTHER -> OnLcp([link EXCEPT !.lcp = s.fsm], s.out, s.outcome)

InputIpcp(link, p) ==
  LET s == InputFsm(link.ipcp, p)
  IN OnIpcp([link EXCEPT !.ipcp = s.fsm], s.out, s.outcome)

\* input, by protocol: IP, LCP, IPCP, or one the code does not speak.  A
\* truncated packet, and an LCP or IPCP packet whose length or options do
\* not parse, is dropped whatever the state: protocol "malformed".
InputLink(link, p) ==
  CASE p.proto = "ip" /\ IsUp(link) -> Result(link, <<Deliver>>)
    [] p.proto = "lcp" -> InputLcp(link, p)
    [] p.proto = "ipcp" /\ link.lcp.state = "Opened" -> InputIpcp(link, p)
    [] p.proto = "unknown" /\ link.lcp.state = "Opened" ->
         LET g == NextId(link.lcp)
         IN Result([link EXCEPT !.lcp = g], <<Send(g, "ProtoRej")>>)
    [] OTHER -> Result(link, <<>>)

=============================================================================

--------------------------------- MODULE Ppp ---------------------------------
(***************************************************************************)
(* A PPP link driven the way the tunnel drives it (crates/sslvpn/src/      *)
(* tunnel.rs) against a gateway that may send any packet at any time.      *)
(* Link::run opens the link, then feeds it the packets that arrive and the *)
(* restart timers until a Down action is performed, the user cancels or    *)
(* the connection fails; teardown then closes the link and feeds it on     *)
(* until it is no longer closing.                                          *)
(*                                                                         *)
(* unframe feeds every complete frame of its buffer before any action is   *)
(* performed, so packets may still reach a link that has reported Down, or *)
(* one whose closing has just ended; restart timers may not.               *)
(***************************************************************************)
EXTENDS PppMachine

CONSTANTS
  LcpOptions,         \* the option lists the gateway's LCP packets hold
  IpcpOptions         \* and those of its IPCP packets

VARIABLES
  link,               \* the state of struct Ppp
  acts,               \* the actions the last call returned
  closed,             \* whether teardown has called close
  sent,               \* history: Configure-Requests sent by each layer
  ups                 \* history: how many Up actions were returned

vars == <<link, acts, closed, sent, ups>>

Options(l) == IF l = "lcp" THEN LcpOptions ELSE IpcpOptions
OptionRecords == [kind : STRING, value : Int]

ASSUME OptionsAssumption == \A l \in Layers : Options(l) \subseteq Seq(OptionRecords)

-----------------------------------------------------------------------------
(* The packets a gateway may send.                                         *)

\* The identifier is there where the code reads it: in answers to us.
Requests(l) == [proto : {l}, code : {"ConfReq"}, opts : Options(l)]
Acks(l) == [proto : {l}, code : {"ConfAck"}, id : Ids]
Refusals(l) == [proto : {l}, code : {"ConfNak", "ConfRej"}, id : Ids, opts : Options(l)]
PlainPackets(l) ==
  [proto : {l}, code : {"TermReq", "TermAck", "CodeRejEssential", "CodeRejOther", "Unknown"}]
LcpOnlyPackets ==
  [proto : {"lcp"}, code : {"EchoReq", "ProtoRejIpcp", "ProtoRejOther", "Ignored"}]
OtherPackets == [proto : {"ip", "unknown", "malformed"}]

-----------------------------------------------------------------------------
(* History of what a call sent: per layer the number of Configure-Requests *)
(* and the identifier and options of the last one.                         *)

NothingSent == [n |-> 0, id |-> 0, opts |-> <<>>]
Elements(out) == {out[i] : i \in DOMAIN out}
RequestsIn(out, l) ==
  {a \in Elements(out) : a.do = "Send" /\ a.layer = l /\ a.code = "ConfReq"}
SentAfter(s, l, out) ==
  IF RequestsIn(out, l) = {} THEN s
  ELSE LET a == CHOOSE a \in RequestsIn(out, l) : TRUE
       IN [n |-> s.n + 1, id |-> a.id, opts |-> a.opts]

Reports(out, what) == \E a \in Elements(out) : a.do = what

Call(r) ==
  /\ link' = r.link
  /\ acts' = r.out
  /\ sent' = [l \in Layers |-> SentAfter(sent[l], l, r.out)]
  /\ ups' = IF Reports(r.out, "Up") THEN ups + 1 ELSE ups

-----------------------------------------------------------------------------
Init ==
  /\ link = NewLink
  /\ acts = <<>>
  /\ closed = FALSE
  /\ sent = [l \in Layers |-> NothingSent]
  /\ ups = 0

Opened == link.lcp.state # "Initial"

\* Link::run starts with open.
Open ==
  /\ ~Opened
  /\ Call(OpenLink(link))
  /\ UNCHANGED closed

\* The gateway's packet p is fed by unframe.
Input(p) ==
  /\ Opened
  /\ Call(InputLink(link, p))
  /\ UNCHANGED closed

ReceiveConf ==
  \E l \in Layers : \E p \in Requests(l) \cup Acks(l) \cup Refusals(l) : Input(p)
ReceivePlain == \E l \in Layers : \E p \in PlainPackets(l) : Input(p)
ReceiveLcpOnly == \E p \in LcpOnlyPackets : Input(p)
ReceiveOther == \E p \in OtherPackets : Input(p)

\* The loop is still waiting for the deadline of next_timeout: Link::run
\* until a Down; close_ppp while the link is closing, but its CLOSE_GRACE of
\* 7 seconds is over before the restart timer of 3 seconds fires again after
\* the last Terminate-Request.
Driven ==
  /\ Opened
  /\ IF closed THEN IsClosing(link) /\ link.lcp.retransmits # 0 ELSE ~link.down

Timeout(due) ==
  /\ Driven
  /\ due \subseteq Armed(link) /\ due # {}
  /\ Call(TimeoutLink(link, due))
  /\ UNCHANGED closed

SomeTimeout == \E due \in SUBSET Layers : Timeout(due)

\* teardown: after a Down, a cancel or an error of the connection.
Close ==
  /\ Opened
  /\ ~closed
  /\ closed' = TRUE
  /\ Call(CloseLink(link))

Next ==
  \/ Open
  \/ ReceiveConf
  \/ ReceivePlain
  \/ ReceiveLcpOnly
  \/ ReceiveOther
  \/ SomeTimeout
  \/ Close

Spec == Init /\ [][Next]_vars

\* What the tunnel loops do by themselves, and when: their select! cannot
\* neglect a deadline that has passed, polling its branches in random order, and
\* teardown follows every Down.
Driver == Open \/ SomeTimeout \/ (link.down /\ Close)

Due == ~Opened \/ (Driven /\ Armed(link) # {}) \/ (link.down /\ ~closed)

\* Weak fairness of Driver, which is enabled when Due.
Fairness == []<>~Due \/ []<><<Driver>>_vars

FairSpec == Spec /\ Fairness

-----------------------------------------------------------------------------
(* Properties.                                                             *)

Fsms(l) ==
  [layer : {l}, state : States, id : Ids, retransmits : Nat, nakLoops : Nat,
   timer : BOOLEAN, peerOptions : Seq(OptionRecords),
   want : [OurKinds(l) -> Int], ask : [OurKinds(l) -> BOOLEAN], peer : Int]
Links == [lcp : Fsms("lcp"), ipcp : Fsms("ipcp"), down : BOOLEAN]

\* Type invariant of the link and the driver.
TypeOK ==
  /\ link \in Links
  /\ closed \in BOOLEAN
  /\ ups \in Nat
  /\ \A l \in Layers : sent[l].n \in Nat /\ sent[l].id \in Ids

\* A layer that negotiates or closes has its restart timer armed, so that a
\* lost packet is sent again or given up on, and an open one has not: nothing
\* would end it (Fsm::timeout, and every place that sets the timer).
TimerArmed ==
  \A l \in Layers :
    /\ link[l].state \in Negotiating \cup {"Closing"} => link[l].timer
    /\ link[l].state \in {"Initial", "Opened"} => ~link[l].timer

\* Before the end is reported, Link::run never waits with neither IP flowing
\* nor a deadline set: it would sleep until the user interrupts it.  In
\* particular a layer that ends always gets Down reported.
NeverStuck == Opened /\ ~link.down => IsUp(link) \/ Armed(link) # {}

\* Until its end is reported, IPCP runs only on top of an open LCP: LCP
\* cannot leave the Opened state behind IPCP's back.
IpOverOpenLcp ==
  ~link.down /\ link.ipcp.state \in Negotiating \cup {"Opened"}
    => link.lcp.state = "Opened"

\* The interface is configured at most once per link, whatever the gateway
\* renegotiates (Link::bring_up would replace the host state it must undo).
UpOnce == ups <= 1

\* When Up is returned both layers are open, our address is a real one, and
\* the MTU is at most the default MRU (on_ipcp).
UpIsSound ==
  \A a \in Elements(acts) : a.do = "Up" =>
    /\ link.lcp.state = "Opened" /\ link.ipcp.state = "Opened"
    /\ a.local # Unspecified
    /\ a.mtu <= DefaultMru

\* After teardown has called close, no packet makes the link configure the
\* interface or deliver to it: the host, already put back, stays so.
QuietAfterClose == closed => ~Reports(acts, "Up") /\ ~Reports(acts, "Deliver")

\* A gateway that never agrees gets a bounded number of Configure-Requests
\* from each layer: one, the retransmissions, and one per negative answer.
RequestBound ==
  \A l \in Layers : sent[l].n <= 1 + MaxConfigure(l) + 2 * MaxNakLoops

\* What a layer believes it asked for is what its last Configure-Request
\* held, so that an acknowledgement, recognised by identifier alone, never
\* opens the layer with values the gateway was not told.
RequestInUse ==
  \A l \in Layers : link[l].state \in Negotiating \cup {"Opened"}
    => sent[l].opts = Request(link[l])

\* A closed layer stays closed, one that closes can only become closed, and
\* an open one never goes back to negotiating.
OnlyForward ==
  [][\A l \in Layers :
       /\ link[l].state = "Closed" => link'[l].state = "Closed"
       /\ link[l].state = "Closing" => link'[l].state \in {"Closing", "Closed"}
       /\ link[l].state = "Opened" => link'[l].state \in {"Opened", "Closing", "Closed"}]_vars

\* A negotiation always ends: with the link up, with a reported end, or with
\* the user closing it (retransmissions and negative answers are bounded).
Decides == <>(ups > 0 \/ link.down \/ closed)

\* The wait of close_ppp ends: the gateway acknowledges, or every
\* Terminate-Request that fits the grace period has been sent.
CloseEnds == closed ~> ~IsClosing(link) \/ link.lcp.retransmits = 0

-----------------------------------------------------------------------------
(* The inductive invariant behind the safety properties: how the states of *)
(* the two automatons, the reported end and the driver fit together, and   *)
(* what the Configure-Requests sent leave to send.                         *)

Coherent(L, c) ==
  /\ L.lcp.state \in {"Initial"} \cup Negotiating => L.ipcp.state = "Initial" /\ ~c
  /\ L.lcp.state = "Opened" => L.ipcp.state \in Negotiating \cup {"Opened"} /\ ~c
  /\ L.lcp.state = "Closing" => L.ipcp.state = "Closed" /\ (L.down \/ c)
  /\ L.lcp.state = "Closed" => L.down
  /\ c => L.ipcp.state = "Closed"
  /\ L.ipcp.timer => L.ipcp.state \in Negotiating

\* An automaton as every handler leaves it: well typed, LCP's MRU within the
\* default, the restart timer armed when it has to be.
Sound(f, l) ==
  /\ f \in Fsms(l)
  /\ l = "lcp" => f.want["mru"] <= DefaultMru
  /\ f.state \in Negotiating \cup {"Closing"} => f.timer
  /\ f.state \in {"Initial", "Opened"} => ~f.timer

\* How many more Configure-Requests an automaton can send.
Budget(f) ==
  (IF f.state \in Negotiating THEN f.retransmits ELSE 0)
    + (2 * MaxNakLoops - Smaller(f.nakLoops, 2 * MaxNakLoops))

\* The history h of a layer's requests agrees with its automaton f.
Accounted(f, h, l) ==
  /\ h.n \in Nat
  /\ h.n + Budget(f) <= 1 + MaxConfigure(l) + 2 * MaxNakLoops
  /\ f.state = "Initial" => h.n = 0
  /\ f.state \in Negotiating \cup {"Opened"} => h.opts = Request(f)

LinkInv ==
  /\ TypeOK
  /\ Sound(link.lcp, "lcp") /\ Sound(link.ipcp, "ipcp")
  /\ Coherent(link, closed)
  /\ Accounted(link.lcp, sent["lcp"], "lcp")
  /\ Accounted(link.ipcp, sent["ipcp"], "ipcp")
  /\ ups <= 1
  /\ link.ipcp.state \in {"Initial"} \cup Negotiating => ups = 0
  /\ UpIsSound
  /\ QuietAfterClose

=============================================================================

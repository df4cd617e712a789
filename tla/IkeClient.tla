------------------------------ MODULE IkeClient ------------------------------
(***************************************************************************)
(* The IKEv2 session of the client (crates/ikev2/src/session.rs, setup.rs, *)
(* rekey.rs and lib.rs): one task that sets the tunnel up, watches it and  *)
(* takes it down.  The task has at most one request of its own under way;  *)
(* while it waits for the response it handles the requests of the gateway. *)
(*                                                                         *)
(* An action is what the task does between two waits.  The gateway is      *)
(* whatever holds the keys: the actions that receive take the message as   *)
(* a parameter, and this module lets it be any message.  Module IkeTunnel  *)
(* composes the client with a gateway that follows the protocol.           *)
(*                                                                         *)
(* An IKE SA, its SPIs and its keys, is a number: 0 before there are keys. *)
(* Datagrams that do not parse or authenticate change nothing and are left *)
(* out, and so are fragmentation and the contents of key exchanges.        *)
(***************************************************************************)
EXTENDS Integers, Vec, FiniteSets

CONSTANTS
  Eap,            \* whether the configured authentication is an EAP method
  Dpd,            \* whether dpd_delay is not 0
  Wanted,         \* the networks to cover, in order: split_include, or else
                  \* those the gateway pushed
  InitRetries,    \* INIT_RETRIES: 3 in the code
  GroupRetries,   \* GROUP_RETRIES: 2
  Retransmits,    \* RETRANSMITS: 5
  CloseSends      \* transmissions that fit the 5 seconds of teardown: 3

ASSUME IkeCounts ==
  /\ Eap \in BOOLEAN /\ Dpd \in BOOLEAN
  /\ InitRetries \in Nat \ {0} /\ GroupRetries \in Nat \ {0}
  /\ Retransmits \in Nat \ {0} /\ CloseSends \in 1 .. Retransmits

VARIABLES
  stage,          \* Session::stage
  sa,             \* the current IKE SA: spi_i, spi_r and keys
  next,           \* Session::next_ike, NoSa if there is none
  sas,            \* how many IKE SAs were derived so far
  messageId,      \* Session::message_id
  peerMessageId,  \* Session::peer_message_id
  lastResponse,   \* Session::last_response, NoMessage if there is none
  children,       \* Session::children, the newest first
  host,           \* whether Session::host is there: the interface is up
  down,           \* Session::down, "none" for None
  spi,            \* how many SPIs ChildSa::random_spi has drawn
  task,           \* what the task waits for
  wait,           \* the request under way (the locals of Session::request)
  left,           \* further attempts of ike_sa_init or create_child
  kid,            \* the parameters of create_child
  todo,           \* the networks establish has yet to look at
  outcome,        \* what run returns
  sent            \* history: every message the client sent

saVars == <<sa, next, sas, peerMessageId, lastResponse>>
kidVars == <<spi, left, kid, todo>>
vars == <<stage, saVars, messageId, children, host, down, kidVars, task, wait, outcome, sent>>

NoSa == 0
NoSpi == 0
NoMessage == [sa |-> NoSa, id |-> 0, resp |-> FALSE, body |-> [what |-> "none"]]
NoRequest == [sa |-> NoSa, id |-> 0, body |-> [what |-> "none"], sends |-> 0]
NoKid == [in |-> NoSpi, old |-> NoSpi, nets |-> {}]

Stages == {"Init", "Auth", "Established"}
Asking == {"init", "auth", "eap", "final", "child", "delete", "dpd"}
Tasks == {"start", "watch", "close", "done"} \cup Asking

Message(s, i, r, b) == [sa |-> s, id |-> i, resp |-> r, body |-> b]
Body(what) == [what |-> what]

-----------------------------------------------------------------------------
(* Requests and the end of the session.                                    *)

\* Mutant: the counter does not move on.
RequestSameId(s, i, t, b) ==
  /\ task' = t
  /\ wait' = [sa |-> s, id |-> i, body |-> b, sends |-> 1]
  /\ messageId' = i
  /\ sent' = sent \cup {Message(s, i, FALSE, b)}

\* request: the message gets identifier i on IKE SA s, and the counter moves
\* on before anything is sent.
Request(s, i, t, b) ==
  /\ task' = t
  /\ wait' = [sa |-> s, id |-> i, body |-> b, sends |-> 1]
  /\ messageId' = i + 1
  /\ sent' = sent \cup {Message(s, i, FALSE, b)}

Done == task' = "done" /\ wait' = NoRequest /\ children' = <<>>

\* Mutants: the host is left as it is; the gateway is told only if the
\* interface was up.
TeardownKeepsHost(o, st, d, kids) ==
  /\ outcome' = o /\ down' = d /\ UNCHANGED host
  /\ IF st = "Established" /\ d = "none"
     THEN Request(sa, messageId, "close", Body("deleteIke")) /\ children' = kids
     ELSE Done /\ UNCHANGED <<messageId, sent>>
TeardownIfUp(o, st, d, kids) ==
  /\ outcome' = o /\ down' = d /\ host' = FALSE
  /\ IF host /\ st = "Established" /\ d = "none"
     THEN Request(sa, messageId, "close", Body("deleteIke")) /\ children' = kids
     ELSE Done /\ UNCHANGED <<messageId, sent>>

\* run ends with o and teardown puts the host back; the gateway is told if it
\* has an IKE SA (stage st) and the session did not go down (d).  The CHILD
\* SAs, kids by now, are dropped last.
Teardown(o, st, d, kids) ==
  /\ outcome' = o
  /\ host' = FALSE
  /\ down' = d
  /\ IF st = "Established" /\ d = "none"
     THEN Request(sa, messageId, "close", Body("deleteIke")) /\ children' = kids
     ELSE Done /\ UNCHANGED <<messageId, sent>>

\* An error while the tunnel is set up or watched.
Fail(st, kids) == Teardown("Error", st, down, kids)

\* Back to the loop of watch.
Watch == task' = "watch" /\ wait' = NoRequest

-----------------------------------------------------------------------------
(* Setting the tunnel up (setup.rs).                                       *)

Init ==
  /\ stage = "Init"
  /\ sa = NoSa /\ next = NoSa /\ sas = 0
  /\ messageId = 0 /\ peerMessageId = 0 /\ lastResponse = NoMessage
  /\ children = <<>> /\ host = FALSE /\ down = "none"
  /\ spi = 0 /\ left = 0 /\ kid = NoKid /\ todo = Wanted
  /\ task = "start" /\ wait = NoRequest /\ outcome = "none" /\ sent = {}

InitRequest(n) == left' = n /\ Request(NoSa, 0, "init", [what |-> "init", left |-> n])

\* establish, up to the first request; the configuration may be refused.
Establish ==
  /\ task = "start"
  /\ UNCHANGED <<stage, saVars, spi, kid, todo>>
  /\ \/ InitRequest(InitRetries) /\ UNCHANGED <<children, host, down, outcome>>
     \/ Fail(stage, children) /\ UNCHANGED left

\* A response to the request under way: of the current IKE SA, whichever
\* that is by now.
Answers(m) == task \in Asking \cup {"close"} /\ m.resp /\ m.id = wait.id /\ m.sa = sa

\* auth_request: our identity, our credentials and the first CHILD SA.
AuthRequest == Body("auth")

\* ike_sa_init: a cookie or another group means another attempt, with
\* identifier 0 again.
OnInitReply(m) ==
  /\ task = "init" /\ Answers(m)
  /\ UNCHANGED <<next, peerMessageId, lastResponse, kid, todo>>
  /\ \/ /\ m.body.what = "redirected" /\ left > 1
        /\ InitRequest(left - 1)
        /\ UNCHANGED <<stage, sa, sas, spi, children, host, down, outcome>>
     \/ /\ m.body.what = "refused" \/ (m.body.what = "redirected" /\ left <= 1)
        /\ Fail(stage, children)
        /\ UNCHANGED <<stage, sa, sas, spi, left>>
     \/ /\ m.body.what = "accepted"
        /\ sa' = 1 /\ sas' = 1 /\ stage' = "Auth" /\ spi' = spi + 1
        /\ Request(1, messageId, "auth", AuthRequest)
        /\ UNCHANGED <<left, children, host, down, outcome>>

\* Mutant: any CHILD SA covers every network.
UncoveredByNone(q, kids) == IF kids = <<>> THEN q ELSE <<>>

\* The networks of q from the first one that kids does not cover.
Uncovered(q, kids) ==
  LET open == {i \in DOMAIN q : \A k \in DOMAIN kids : q[i] \notin kids[k].nets}
  IN IF open = {} THEN <<>>
     ELSE SubSeq(q, CHOOSE i \in open : \A j \in open : i <= j, Len(q))

\* child_request, for the attempt that leaves n.
ChildRequest(in, old, nets, n) ==
  [what |-> "child", in |-> in, old |-> old, nets |-> nets, left |-> n]

\* create_child, up to its first request.
CreateChild(old, nets) ==
  /\ spi' = spi + 1
  /\ left' = GroupRetries
  /\ kid' = [in |-> spi + 1, old |-> old, nets |-> nets]
  /\ Request(sa, messageId, "child", ChildRequest(spi + 1, old, nets, GroupRetries))

\* Mutant: the interface comes up before the CHILD SA is there.
NextChildUpFirst(kids) ==
  LET q == Uncovered(todo, kids)
  IN IF q # <<>>
     THEN /\ CreateChild(NoSpi, {Head(q)}) /\ todo' = Tail(q)
          /\ children' = kids
          /\ UNCHANGED <<host, outcome, down>>
     ELSE /\ todo' = <<>>
          /\ host' = TRUE /\ Watch
          /\ UNCHANGED <<children, messageId, sent, outcome, down, spi, left, kid>>

\* bring_up and its set_routes: the interface is up, or something failed and
\* what was set up so far is dropped again.
BringUp(kids) ==
  \/ /\ host' = TRUE /\ Watch /\ children' = kids
     /\ UNCHANGED <<messageId, sent, outcome, down>>
  \/ Fail("Established", kids)

\* establish, once children is kids: the next CHILD SA to ask for, or
\* bring_up.
NextChild(kids) ==
  LET q == Uncovered(todo, kids)
  IN IF q # <<>>
     THEN /\ CreateChild(NoSpi, {Head(q)}) /\ todo' = Tail(q)
          /\ children' = kids
          /\ UNCHANGED <<host, outcome, down>>
     ELSE /\ todo' = <<>>
          /\ UNCHANGED <<spi, left, kid>>
          /\ BringUp(kids)

NewChild(in, b) == [in |-> in, out |-> b.out, nets |-> b.nets, replaced |-> FALSE]

\* The rest of ike_auth after the reply that may hold the AUTH payload
\* (gateway_committed): the gateway created the IKE SA, perhaps without a
\* CHILD SA we can use, or it refused us.
OnFinalReply(m) ==
  /\ task = (IF Eap THEN "final" ELSE "auth") /\ Answers(m)
  /\ UNCHANGED saVars
  /\ \/ /\ m.body.what = "created"
        /\ stage' = "Established"
        /\ NextChild(Append(children, NewChild(spi, m.body)))
     \/ /\ m.body.what = "authOnly"
        /\ stage' = "Established"
        /\ Fail("Established", children) /\ UNCHANGED kidVars
     \/ /\ m.body.what = "refused"
        /\ Fail(stage, children) /\ UNCHANGED <<stage, kidVars>>

\* eap_rounds: a reply of the EAP conversation, the first one after the
\* gateway has proved itself.
OnEapReply(m) ==
  /\ Eap /\ task \in {"auth", "eap"} /\ Answers(m)
  /\ UNCHANGED <<stage, saVars, kidVars>>
  /\ \/ /\ m.body.what = "eapRequest"
        /\ Request(sa, messageId, "eap", Body("eap"))
        /\ UNCHANGED <<children, host, down, outcome>>
     \/ /\ m.body.what = "eapSuccess"
        /\ Request(sa, messageId, "final", Body("final"))
        /\ UNCHANGED <<children, host, down, outcome>>
     \/ /\ m.body.what = "refused"
        /\ Fail(stage, children)

-----------------------------------------------------------------------------
(* CHILD SAs (rekey.rs).                                                   *)

\* Vec::retain and Vec::remove.
Without(kids, in) == Retained(kids, {k \in DOMAIN kids : kids[k].in # in})
Has(kids, in) == \E k \in DOMAIN kids : kids[k].in = in

\* The rest of create_child: the new CHILD SA goes first, and the one it
\* replaces, if it is still there, is deleted on both sides (delete_child).
OnChildReply(m) ==
  /\ task = "child" /\ Answers(m)
  /\ UNCHANGED <<stage, saVars>>
  /\ \/ /\ m.body.what = "redirected" /\ left > 1
        /\ left' = left - 1
        /\ Request(sa, messageId, "child", ChildRequest(kid.in, kid.old, kid.nets, left - 1))
        /\ UNCHANGED <<children, host, down, outcome, spi, kid, todo>>
     \/ /\ m.body.what = "notFound" /\ kid.old # NoSpi
        /\ children' = Without(children, kid.old)
        /\ Watch
        /\ UNCHANGED <<messageId, sent, host, down, outcome, kidVars>>
     \/ /\ \/ m.body.what = "refused"
           \/ m.body.what = "redirected" /\ left <= 1
           \/ m.body.what = "notFound" /\ kid.old = NoSpi
        /\ Fail(stage, children) /\ UNCHANGED kidVars
     \/ /\ m.body.what = "created" /\ kid.old = NoSpi
        /\ NextChild(<<NewChild(kid.in, m.body)>> \o children)
     \/ /\ m.body.what = "created" /\ kid.old # NoSpi
        /\ children' = <<NewChild(kid.in, m.body)>> \o Without(children, kid.old)
        /\ IF Has(children, kid.old)
           THEN Request(sa, messageId, "delete", [what |-> "deleteChild", in |-> kid.old])
           ELSE Watch /\ UNCHANGED <<messageId, sent>>
        /\ UNCHANGED <<host, down, outcome, kidVars>>

\* delete_child and dead peer detection are content with any response.
OnPlainReply(m) ==
  /\ task \in {"delete", "dpd"} /\ Answers(m)
  /\ Watch
  /\ UNCHANGED <<stage, saVars, messageId, children, host, down, kidVars, outcome, sent>>

OnCloseReply(m) ==
  /\ task = "close" /\ Answers(m)
  /\ Done
  /\ UNCHANGED <<stage, saVars, messageId, host, down, kidVars, outcome, sent>>

-----------------------------------------------------------------------------
(* Requests of the gateway (handle_packet).                                *)

\* A request on the current IKE SA while the task listens.  One on another
\* IKE SA, or with an identifier other than these two, is ignored.
Heard(m) == task \in Asking \cup {"watch", "close"} /\ sa # NoSa /\ ~m.resp /\ m.sa = sa
IsNew(m) == Heard(m) /\ m.id = peerMessageId

\* A retransmission gets the same response again, if it is the last one.
OnRetransmission(m) ==
  /\ Heard(m) /\ m.id = peerMessageId - 1
  /\ lastResponse # NoMessage /\ lastResponse.id = m.id
  /\ sent' = sent \cup {lastResponse}
  /\ UNCHANGED <<stage, saVars, messageId, children, host, down, kidVars, task, wait, outcome>>

\* respond, for a request m that is not a retransmission; b is the response.
Respond(m, b) ==
  /\ peerMessageId' = peerMessageId + 1
  /\ lastResponse' = Message(sa, m.id, TRUE, b)
  /\ sent' = sent \cup {Message(sa, m.id, TRUE, b)}

\* on_create_child_sa and handle_packet: what we do not do (another CHILD
\* SA, proposals or syntax we cannot accept, other exchanges) is refused.
OnRefused(m) ==
  /\ IsNew(m) /\ m.body.what = "other"
  /\ Respond(m, Body("refused"))
  /\ UNCHANGED <<stage, sa, next, sas, messageId, children, host, down, kidVars, task, wait,
                 outcome>>

\* on_ike_rekey: the new IKE SA is kept aside.
OnIkeRekey(m) ==
  /\ IsNew(m) /\ m.body.what = "rekeyIke"
  /\ sas' = sas + 1
  /\ next' = sas + 1
  /\ Respond(m, [what |-> "ikeCreated", sa |-> sas + 1])
  /\ UNCHANGED <<stage, sa, messageId, children, host, down, kidVars, task, wait, outcome>>

\* Mutant: the SPI is taken for our inbound one.
ByIn(kids, out) ==
  LET found == {k \in DOMAIN kids : kids[k].in = out}
  IN IF found = {} THEN 0 ELSE CHOOSE k \in found : \A j \in found : k <= j

\* The index of the first CHILD SA of kids whose outbound SPI is out.
ByOut(kids, out) ==
  LET found == {k \in DOMAIN kids : kids[k].out = out}
  IN IF found = {} THEN 0 ELSE CHOOSE k \in found : \A j \in found : k <= j

\* on_child_rekey: the new CHILD SA goes first, the old one stays until the
\* gateway deletes it.
OnChildRekey(m) ==
  LET old == ByOut(children, m.body.old)
  IN /\ IsNew(m) /\ m.body.what = "rekeyChild"
     /\ IF old = 0
        THEN Respond(m, Body("notFound")) /\ UNCHANGED <<children, spi>>
        ELSE /\ spi' = spi + 1
             /\ children' = <<NewChild(spi + 1, m.body)>>
                              \o [children EXCEPT ![old].replaced = TRUE]
             /\ Respond(m, [what |-> "childCreated", in |-> spi + 1])
     /\ UNCHANGED <<stage, sa, next, sas, messageId, host, down, left, kid, todo, task, wait,
                    outcome>>

\* on_informational, the CHILD SAs: those the gateway deletes, by our
\* outbound SPI, are dropped, and named in the response by our inbound one.
Dropped(kids, outs) == {k \in DOMAIN kids : \E o \in outs : ByOut(kids, o) = k}
Kept(kids, outs) == Retained(kids, DOMAIN kids \ Dropped(kids, outs))

\* Mutant: the last CHILD SA ends nothing.
EndsIkeOnly(m, kids) == m.body.ike

\* What an INFORMATIONAL request ends: the IKE SA, by its own DELETE or with
\* the last CHILD SA of an interface that is up.
EndsIke(m, kids) == m.body.ike \/ (m.body.esp /\ kids = <<>> /\ host)

\* Mutant: the SPIs and keys of the old IKE SA stay.
SwitchIkeKeepsSa ==
  /\ next' = NoSa /\ UNCHANGED sa
  /\ messageId' = 0 /\ peerMessageId' = 0 /\ lastResponse' = NoMessage

\* switch_ike: the rekeyed IKE SA takes over, both counters start again.
SwitchIke ==
  /\ sa' = next /\ next' = NoSa
  /\ messageId' = 0 /\ peerMessageId' = 0 /\ lastResponse' = NoMessage

\* on_informational: the response goes out on the IKE SA of the request;
\* without a rekeyed IKE SA its end is that of the session, which during the
\* setup is an error.
OnInformational(m) ==
  LET kids == Kept(children, m.body.outs)
      response == Message(sa, m.id, TRUE,
        [what |-> "deleted", ins |-> {children[k].in : k \in Dropped(children, m.body.outs)}])
  IN /\ IsNew(m) /\ m.body.what = "info"
     /\ sent' = sent \cup {response}
     /\ IF EndsIke(m, kids) /\ next # NoSa
        THEN /\ SwitchIke
             /\ children' = kids
             /\ UNCHANGED <<host, down, task, wait, outcome>>
        ELSE /\ peerMessageId' = peerMessageId + 1
             /\ lastResponse' = response
             /\ UNCHANGED <<sa, next, messageId>>
             /\ IF EndsIke(m, kids)
                THEN /\ down' = "closed" /\ host' = FALSE /\ Done
                     /\ outcome' = CASE task = "close" -> outcome
                                     [] task # "close" /\ host -> "Down"
                                     [] OTHER -> "Error"
                ELSE children' = kids /\ UNCHANGED <<host, down, task, wait, outcome>>
     /\ UNCHANGED <<stage, sas, kidVars>>

-----------------------------------------------------------------------------
(* Timers and the user (request, watch, on_timer).                         *)

Sends == IF task = "close" THEN CloseSends ELSE Retransmits

\* Mutant: without an end.
RetransmitForever ==
  /\ task \in Asking \cup {"close"}
  /\ wait' = [wait EXCEPT !.sends = @ + 1]
  /\ UNCHANGED <<stage, saVars, messageId, children, host, down, kidVars, task, outcome, sent>>

Retransmit ==
  /\ task \in Asking \cup {"close"} /\ wait.sends < Sends
  /\ wait' = [wait EXCEPT !.sends = @ + 1]
  /\ UNCHANGED <<stage, saVars, messageId, children, host, down, kidVars, task, outcome, sent>>

\* Mutants: dead peer detection, or teardown, waits for a response for ever.
GiveUpNotDpd ==
  /\ task \in (Asking \ {"dpd"}) \cup {"close"} /\ wait.sends = Sends
  /\ UNCHANGED <<stage, saVars, kidVars>>
  /\ IF task = "close" THEN Done /\ UNCHANGED <<messageId, sent, host, down, outcome>>
     ELSE Fail(stage, children)
GiveUpNotClose ==
  /\ task \in Asking /\ wait.sends = Sends
  /\ Fail(stage, children)
  /\ UNCHANGED <<stage, saVars, kidVars>>

\* No response after the last transmission: the tunnel ends.  An unanswered
\* dead peer detection, or a timeout during the setup, counts as down; one
\* of a rekey does not, and the gateway is sent a DELETE.
GiveUp ==
  /\ task \in Asking \cup {"close"} /\ wait.sends = Sends
  /\ UNCHANGED <<stage, saVars, kidVars>>
  /\ CASE task = "close" ->
            Done /\ UNCHANGED <<messageId, sent, host, down, outcome>>
       [] task # "close" /\ (~host \/ task = "dpd") ->
            Teardown(IF host THEN "Down" ELSE "Error", stage, "silent", children)
       [] OTHER -> Fail(stage, children)

\* A socket or the TUN device fails: the session ends with an error, or has
\* ended if teardown is waiting.
IoError ==
  /\ task \in Asking \cup {"watch", "close"}
  /\ UNCHANGED <<stage, saVars, kidVars>>
  /\ IF task = "close" THEN Done /\ UNCHANGED <<messageId, sent, host, down, outcome>>
     ELSE Fail(stage, children)

\* The user stops the session: not once teardown has begun.
Cancel ==
  /\ task \in Asking \cup {"watch"}
  /\ Teardown("Stopped", stage, down, children)
  /\ UNCHANGED <<stage, saVars, kidVars>>

\* on_timer: dead peer detection, or the first CHILD SA that is due for a
\* rekey.  Keepalives change nothing.
StartDpd ==
  /\ Dpd /\ task = "watch"
  /\ Request(sa, messageId, "dpd", Body("dpd"))
  /\ UNCHANGED <<stage, saVars, children, host, down, kidVars, outcome>>

StartRekey(k) ==
  /\ task = "watch" /\ k \in DOMAIN children /\ ~children[k].replaced
  /\ CreateChild(children[k].in, children[k].nets)
  /\ UNCHANGED <<stage, saVars, children, host, down, todo, outcome>>

-----------------------------------------------------------------------------
(* What a gateway may send, and the specification for one that sends       *)
(* anything at any time.                                                   *)

CONSTANTS
  Keyed,          \* the IKE SAs it holds keys of, and NoSa for IKE_SA_INIT
  Numbers,        \* the message identifiers of its responses
  OrderNumbers,   \* and those of its requests
  Networks,       \* the networks a CHILD SA may cover
  GatewaySpis     \* the SPIs the gateway draws for CHILD SAs

ASSUME WantedAssumption == Wanted \in Seq(Networks)
ASSUME NumbersAssumption ==
  /\ Keyed \subseteq Nat /\ GatewaySpis \subseteq Nat
  /\ Numbers \subseteq Nat /\ OrderNumbers \subseteq Nat

ReplyBodies ==
  [what : {"redirected", "refused", "accepted", "authOnly", "eapRequest", "eapSuccess",
           "notFound", "done"}]
    \cup [what : {"created"}, out : GatewaySpis, nets : SUBSET Networks]
OrderBodies ==
  [what : {"other", "rekeyIke"}]
    \cup [what : {"rekeyChild"}, old : GatewaySpis, out : GatewaySpis, nets : SUBSET Networks]
    \cup {b \in [what : {"info"}, ike : BOOLEAN, esp : BOOLEAN, outs : SUBSET GatewaySpis] :
            b.outs # {} => b.esp}

\* The gateway's message m reaches the client.
OnReply(m) ==
  \/ OnInitReply(m) \/ OnFinalReply(m) \/ OnEapReply(m)
  \/ OnChildReply(m) \/ OnPlainReply(m) \/ OnCloseReply(m)
OnOrder(m) ==
  \/ OnRetransmission(m) \/ OnRefused(m) \/ OnIkeRekey(m) \/ OnChildRekey(m)
  \/ OnInformational(m)

\* What the client does by itself.
Local ==
  \/ Establish \/ Retransmit \/ GiveUp \/ IoError \/ Cancel \/ StartDpd
  \/ \E k \in DOMAIN children : StartRekey(k)

Next ==
  \/ \E s \in Keyed, i \in Numbers : \E b \in ReplyBodies : OnReply(Message(s, i, TRUE, b))
  \/ \E s \in Keyed, i \in OrderNumbers : \E b \in OrderBodies : OnOrder(Message(s, i, FALSE, b))
  \/ Local

Spec == Init /\ [][Next]_vars

-----------------------------------------------------------------------------
(* Properties.                                                             *)

\* Type invariant of the session.
TypeOK ==
  /\ stage \in Stages /\ task \in Tasks
  /\ sa \in Nat /\ next \in Nat /\ sas \in Nat
  /\ messageId \in Nat /\ peerMessageId \in Nat
  /\ host \in BOOLEAN /\ down \in {"none", "closed", "silent"}
  /\ spi \in Nat /\ left \in Nat
  /\ children \in Seq([in : Nat, out : Nat, nets : SUBSET Networks, replaced : BOOLEAN])
  /\ wait.sa \in Nat /\ wait.id \in Nat /\ wait.sends \in 0 .. Retransmits
  /\ outcome \in {"none", "Stopped", "Down", "Error"}

Encrypted == {m \in sent : m.sa # NoSa}
Nonce(m) == <<m.sa, m.id, m.resp>>

\* Two encrypted messages of an IKE SA with the same AEAD nonce (message id
\* and direction, Message::seal) are the same message: no identifier is used
\* for two requests or two responses, across retransmissions, errors, rekeys
\* of the IKE SA and teardown.
NonceUnique == \A m, n \in Encrypted : Nonce(m) = Nonce(n) => m = n

\* The interface is up only after the gateway has authenticated, and a
\* session that is over has put it back.
HostOnlyEstablished == host => stage = "Established" /\ task \in Asking \cup {"watch"}

\* The interface never comes up without a CHILD SA, even if the gateway
\* deletes some while others are still being set up (establish, bring_up).
UpWithChild == [][~host /\ host' => children' # <<>>]_vars

=============================================================================

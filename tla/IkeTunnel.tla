------------------------------ MODULE IkeTunnel ------------------------------
(***************************************************************************)
(* The client's IKEv2 session with a gateway that follows RFC 7296, over a *)
(* network that loses, duplicates, delays and reorders datagrams: whatever *)
(* a side has ever sent may reach the other at any time, any number of     *)
(* times, or never.  Retransmissions are thereby included on both sides.   *)
(*                                                                         *)
(* The gateway is not part of the repository.  It answers each request     *)
(* once, in the order of the identifiers, has one request of its own under *)
(* way per IKE SA, may rekey and delete the CHILD SAs and the IKE SA, and  *)
(* may crash for good.                                                     *)
(***************************************************************************)
EXTENDS IkeClient

CONSTANTS
  MaxSas,         \* bound: IKE SAs, the first one and the rekeyed ones
  MaxRequests,    \* bound: requests of the client on an IKE SA
  MaxOrders       \* bound: requests of the gateway on an IKE SA

Sas == 1 .. MaxSas
ASSUME BoundsAssumption == MaxSas \in Nat \ {0} /\ MaxRequests \in Nat /\ MaxOrders \in Nat

VARIABLES
  gwSas,          \* the gateway's IKE SAs: state and counters
  gwCurrent,      \* the IKE SA that owns the CHILD SAs
  gwKids,         \* the gateway's CHILD SAs
  gwSpi,          \* how many SPIs the gateway has drawn
  gwInit,         \* the IKE_SA_INIT request the gateway accepted
  gwAlive,        \* whether the gateway runs
  gwSent,         \* every message the gateway sent
  missed          \* history: a response to the request under way was dropped

gwVars == <<gwSas, gwCurrent, gwKids, gwSpi, gwInit, gwAlive, gwSent>>
allVars == <<vars, gwVars, missed>>

\* state: "none", "half" open, "up", "closing" (its DELETE was sent), "gone".
NewSa == [state |-> "none", expect |-> 0, id |-> 0, order |-> NoMessage]

GwInit ==
  /\ gwSas = [s \in Sas |-> NewSa] /\ gwCurrent = NoSa
  /\ gwKids = {} /\ gwSpi = 0 /\ gwInit = 0 /\ gwAlive = TRUE /\ gwSent = {}

-----------------------------------------------------------------------------
(* The gateway answers a request of the client.                            *)

Reply(m, b) == gwSent' = gwSent \cup {Message(m.sa, m.id, TRUE, b)}

\* IKE_SA_INIT: an attempt is always answered with a cookie or another group,
\* for which the gateway keeps no state, or once for good.  Field of tells
\* which attempt the reply is for: the message itself does not.
GwOnInit ==
  \E m \in sent :
    /\ gwAlive /\ m.body.what = "init" /\ gwSas[1].state = "none"
    /\ UNCHANGED <<gwCurrent, gwKids, gwSpi, gwAlive>>
    /\ \/ /\ Reply(m, [what |-> "redirected", of |-> m.body.left])
          /\ UNCHANGED <<gwSas, gwInit>>
       \/ Reply(m, Body("refused")) /\ UNCHANGED <<gwSas, gwInit>>
       \/ /\ Message(m.sa, m.id, TRUE, [what |-> "redirected", of |-> m.body.left]) \notin gwSent
          /\ Reply(m, Body("accepted"))
          /\ gwSas' = [gwSas EXCEPT ![1].state = "half", ![1].expect = 1]
          /\ gwInit' = m.body.left

\* The next request of the client on an IKE SA the gateway has.
Expected(m) ==
  /\ gwAlive /\ ~m.resp /\ m.sa \in Sas
  /\ gwSas[m.sa].state \in {"half", "up", "closing"} /\ m.id = gwSas[m.sa].expect
Taken(m, state) ==
  gwSas' = [gwSas EXCEPT ![m.sa].expect = @ + 1, ![m.sa].state = state]

\* The first CHILD SA is asked for the first network, or for all if none is
\* named.  The gateway may narrow what is asked for (RFC 7296, 2.9), also to
\* selectors that do not cover any network of the client's.
FirstNets == IF Wanted = <<>> THEN Networks ELSE {Head(Wanted)}

GwOnAuth ==
  \E m \in sent :
    /\ Expected(m) /\ m.body.what \in {"auth", "eap", "final"}
    /\ UNCHANGED <<gwInit, gwAlive>>
    /\ \/ /\ Reply(m, Body("refused")) /\ Taken(m, "gone")
          /\ UNCHANGED <<gwCurrent, gwKids, gwSpi>>
       \/ /\ Eap /\ m.body.what # "final"
          /\ \/ m.id < MaxRequests /\ Reply(m, Body("eapRequest"))
             \/ m.body.what = "eap" /\ Reply(m, Body("eapSuccess"))
          /\ Taken(m, "half") /\ UNCHANGED <<gwCurrent, gwKids, gwSpi>>
       \/ /\ Eap => m.body.what = "final"
          /\ Taken(m, "up") /\ gwCurrent' = 1
          /\ \/ Reply(m, Body("authOnly")) /\ UNCHANGED <<gwKids, gwSpi>>
             \/ \E nets \in SUBSET FirstNets :
                  /\ Reply(m, [what |-> "created", out |-> gwSpi + 1, nets |-> nets])
                  /\ gwSpi' = gwSpi + 1
                  /\ gwKids' = {[in |-> 1, out |-> gwSpi + 1, nets |-> nets]}

\* CREATE_CHILD_SA: a rekey of a CHILD SA the gateway does not have, or no
\* longer, is not possible; any may be refused, asked with another group, or
\* narrowed.
GwOnChild ==
  \E m \in sent :
    /\ Expected(m) /\ m.body.what = "child"
    /\ Taken(m, gwSas[m.sa].state)
    /\ UNCHANGED <<gwCurrent, gwInit, gwAlive>>
    /\ \/ /\ \/ Reply(m, Body("refused"))
             \/ Reply(m, Body("redirected"))
             \/ /\ m.body.old # NoSpi /\ \A c \in gwKids : c.in # m.body.old
                /\ Reply(m, Body("notFound"))
          /\ UNCHANGED <<gwKids, gwSpi>>
       \/ /\ m.body.old # NoSpi => \E c \in gwKids : c.in = m.body.old
          /\ gwSpi' = gwSpi + 1
          /\ \E nets \in SUBSET m.body.nets :
               /\ gwKids' = gwKids \cup {[in |-> m.body.in, out |-> gwSpi + 1, nets |-> nets]}
               /\ Reply(m, [what |-> "created", out |-> gwSpi + 1, nets |-> nets])

GwOnInformational ==
  \E m \in sent :
    /\ Expected(m) /\ m.body.what \in {"dpd", "deleteChild", "deleteIke"}
    /\ Reply(m, Body("done"))
    /\ Taken(m, IF m.body.what = "deleteIke" THEN "gone" ELSE gwSas[m.sa].state)
    /\ gwKids' = CASE m.body.what = "deleteChild" -> {c \in gwKids : c.in # m.body.in}
                   [] m.body.what = "deleteIke" /\ m.sa = gwCurrent -> {}
                   [] OTHER -> gwKids
    /\ UNCHANGED <<gwCurrent, gwSpi, gwInit, gwAlive>>

-----------------------------------------------------------------------------
(* Requests of the gateway's own.                                          *)

Order(s, b, state) ==
  LET m == Message(s, gwSas[s].id, FALSE, b)
  IN /\ gwAlive /\ gwSas[s].state = "up" /\ gwSas[s].order = NoMessage
     /\ gwSas[s].id < MaxOrders
     /\ gwSas' = [gwSas EXCEPT ![s].id = @ + 1, ![s].order = m, ![s].state = state]
     /\ gwSent' = gwSent \cup {m}
     /\ UNCHANGED <<gwCurrent, gwInit, gwAlive>>

Info(ike, outs) == [what |-> "info", ike |-> ike, esp |-> outs # {}, outs |-> outs]

GwProbe == \E s \in Sas : Order(s, Info(FALSE, {}), "up") /\ UNCHANGED <<gwKids, gwSpi>>

GwAdditional == \E s \in Sas : Order(s, Body("other"), "up") /\ UNCHANGED <<gwKids, gwSpi>>

\* The gateway leaves a CHILD SA alone until the client has it: it has seen
\* ESP traffic, or time has passed.  (A DELETE that overtook the response
\* that creates the CHILD SA would find nothing to delete.)
Installed(c) ==
  \/ \E k \in DOMAIN children : children[k].in = c.in
  \/ \E m \in sent : m.body.what = "deleteChild" /\ m.body.in = c.in

GwDeleteChild ==
  \E s \in Sas, c \in gwKids :
    /\ Installed(c)
    /\ Order(s, Info(FALSE, {c.out}), "up")
    /\ gwKids' = gwKids \ {c} /\ UNCHANGED gwSpi

GwRekeyChild ==
  \E c \in gwKids :
    /\ gwCurrent # NoSa /\ Installed(c)
    /\ Order(gwCurrent, [what |-> "rekeyChild", old |-> c.out, out |-> gwSpi + 1,
                         nets |-> c.nets], "up")
    /\ gwSpi' = gwSpi + 1 /\ UNCHANGED gwKids

\* Long after the IKE SA was set up.
GwRekeyIke ==
  /\ gwCurrent # NoSa /\ gwCurrent < MaxSas /\ host
  /\ Order(gwCurrent, Body("rekeyIke"), "up") /\ UNCHANGED <<gwKids, gwSpi>>

\* The last request on an IKE SA: it was rekeyed, or the tunnel is closed.
GwDeleteIke == \E s \in Sas : Order(s, Info(TRUE, {}), "closing") /\ UNCHANGED <<gwKids, gwSpi>>

\* The client's response to the request under way.
GwOnResponse ==
  \E m \in sent :
    /\ gwAlive /\ m.resp /\ m.sa \in Sas
    /\ gwSas[m.sa].order # NoMessage /\ m.id = gwSas[m.sa].order.id
    /\ LET order == gwSas[m.sa].order.body
           answered == [gwSas EXCEPT ![m.sa].order = NoMessage,
                                     ![m.sa].state = IF @ = "closing" THEN "gone" ELSE @]
       IN /\ gwSas' = IF m.body.what = "ikeCreated"
                      THEN [answered EXCEPT ![m.body.sa].state = "up"] ELSE answered
          /\ gwCurrent' = IF m.body.what = "ikeCreated" THEN m.body.sa ELSE gwCurrent
          /\ gwKids' = CASE m.body.what = "childCreated" ->
                              gwKids \cup {[in |-> m.body.in, out |-> order.out, nets |-> order.nets]}
                         [] order.what = "info" /\ order.ike /\ m.sa = gwCurrent -> {}
                         [] OTHER -> gwKids
    /\ UNCHANGED <<gwSpi, gwInit, gwAlive, gwSent>>

GwCrash == gwAlive /\ gwAlive' = FALSE /\ UNCHANGED <<gwSas, gwCurrent, gwKids, gwSpi, gwInit, gwSent>>

Gateway ==
  /\ \/ GwOnInit \/ GwOnAuth \/ GwOnChild \/ GwOnInformational
     \/ GwProbe \/ GwAdditional \/ GwDeleteChild \/ GwRekeyChild \/ GwRekeyIke \/ GwDeleteIke
     \/ GwOnResponse \/ GwCrash
  /\ UNCHANGED <<vars, missed>>

-----------------------------------------------------------------------------
(* The client receives what the gateway has sent, and acts by itself.      *)

Receive ==
  /\ \E m \in gwSent : OnReply(m) \/ OnOrder(m)
  /\ missed' = FALSE
  /\ UNCHANGED gwVars

\* A response to the request under way that is for another IKE SA by now.
ReceiveOther ==
  /\ \E m \in gwSent : /\ task \in Asking \cup {"close"}
                       /\ m.resp /\ m.id = wait.id /\ m.sa = wait.sa /\ m.sa # sa
  /\ missed' = TRUE
  /\ UNCHANGED <<vars, gwVars>>

\* messageId counts the requests on the current IKE SA.  After a crash of the
\* gateway the client ends soon enough.
Bounded(A) ==
  /\ messageId < MaxRequests \/ ~gwAlive
  /\ A /\ missed' = FALSE /\ UNCHANGED gwVars
ClientDpd == Bounded(StartDpd)

\* A CHILD SA is due an hour after its creation: a gateway that created it
\* by a rekey has had the response by then, or is no more.
Settled(c) ==
  \/ ~gwAlive
  \/ \A m \in sent : m.body.what = "childCreated" /\ m.body.in = c.in =>
       gwSas[m.sa].order = NoMessage \/ gwSas[m.sa].order.id # m.id
ClientRekey ==
  \E k \in DOMAIN children : Settled(children[k]) /\ Bounded(StartRekey(k))
ClientTimer == (Retransmit \/ GiveUp) /\ UNCHANGED <<gwVars, missed>>
ClientStart == Establish /\ UNCHANGED <<gwVars, missed>>
ClientStop == (Cancel \/ IoError) /\ UNCHANGED <<gwVars, missed>>

TunnelInit == Init /\ GwInit /\ missed = FALSE
TunnelNext ==
  \/ Gateway \/ Receive \/ ReceiveOther
  \/ ClientDpd \/ ClientRekey \/ ClientTimer \/ ClientStart \/ ClientStop

TunnelSpec == TunnelInit /\ [][TunnelNext]_allVars

\* The deadlines of request and of watch are branches of a select! that
\* polls its branches in random order: none is neglected.
TunnelFairSpec ==
  TunnelSpec /\ WF_allVars(ClientStart) /\ WF_allVars(ClientTimer) /\ WF_allVars(ClientDpd)

-----------------------------------------------------------------------------
(* Properties.                                                             *)

Quiet == task = "watch" /\ gwAlive /\ \A s \in Sas : gwSas[s].order = NoMessage

\* When nothing is under way on either side, client and gateway have the
\* same CHILD SAs, whatever rekeys and deletes of the two crossed.
ChildrenAgree ==
  Quiet => gwKids = {[in |-> children[k].in, out |-> children[k].out, nets |-> children[k].nets] :
                       k \in DOMAIN children}

\* The IKE SA the client works with is one the gateway has.
SaExists == Quiet => gwSas[sa].state = "up"

\* An interface that is up has a CHILD SA to carry its traffic, or the
\* gateway is about to end the session: the client never keeps routing
\* packets into a tunnel that drops them all.  A session whose IKE SA was
\* rekeyed is another matter: see TakesOverAfterDelete.
UpHasChild == Quiet /\ host /\ sas = 1 => children # <<>>

\* A session whose IKE SA was never rekeyed and that ends by itself has told
\* the gateway, if that has the IKE SA (teardown).
ToldOfEnd ==
  task = "done" /\ stage = "Established" /\ down = "none" /\ sas = 1 /\ gwSas[1].state = "up" =>
    \E m \in sent : m.body.what = "deleteIke" /\ m.sa = 1

\* The gateway has answered a request for a CHILD SA for network n with one
\* that does not cover it.
Narrowed(n) ==
  \E q \in sent, r \in gwSent :
    /\ q.body.what = "child" /\ n \in q.body.nets
    /\ r.resp /\ r.sa = q.sa /\ r.id = q.id /\ r.body.what = "created" /\ n \notin r.body.nets

\* The gateway has sent a DELETE for a CHILD SA that covered network n.
Withdrawn(n) ==
  \E g, d \in gwSent :
    /\ g.body.what \in {"created", "rekeyChild"} /\ n \in g.body.nets
    /\ ~d.resp /\ d.body.what = "info" /\ g.body.out \in d.body.outs

\* The interface comes up with every wanted network covered by a CHILD SA,
\* except one for which the gateway has deleted a CHILD SA that establish
\* already had, and one that establish has asked a CHILD SA for by itself,
\* also when the first CHILD SA was narrowed, and that the gateway has narrowed
\* away again: create_child takes the selectors it gets.
UpCovers ==
  [][~host /\ host' =>
       \A i \in DOMAIN Wanted :
         \/ \E k \in DOMAIN children' : Wanted[i] \in children'[k].nets
         \/ Narrowed(Wanted[i]) \/ Withdrawn(Wanted[i])]_allVars

\* A session whose gateway has died ends: dead peer detection notices.
DeathNoticed == ~gwAlive ~> task = "done"

\* Once run has an outcome, teardown ends: whether the gateway answers the
\* DELETE or not, and whatever it sends meanwhile.
TeardownEnds == outcome # "none" ~> task = "done"

-----------------------------------------------------------------------------
(* What comments of session.rs and setup.rs say and the code does not do.  *)

\* The rekeyed IKE SA takes over "once it [the gateway] deletes the old one":
\* once the client works with another IKE SA the gateway has sent its DELETE.
TakesOverAfterDelete ==
  \A s \in Sas : s < sa => \E m \in gwSent : ~m.resp /\ m.sa = s /\ m.body.what = "info" /\ m.body.ike

\* A session goes down because the gateway "stopped answering" only if no
\* answer to the request given up has come.
SilentIsSilent == down = "silent" => ~missed

\* teardown "tells the gateway the IKE SA is gone": also the one that waits
\* to take over.
TellsGateway ==
  task = "done" /\ stage = "Established" /\ down = "none" =>
    \A s \in Sas : gwSas[s].state = "up" =>
      \E m \in sent : m.body.what = "deleteIke" /\ m.sa = s

\* request "waits for its response": the IKE_SA_INIT attempt the client takes
\* the answer to be for, which the AUTH payloads cover, is the one the gateway
\* accepted.
SameInit == task = "auth" /\ sa = 1 => left = gwInit

=============================================================================

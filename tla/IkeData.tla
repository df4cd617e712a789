------------------------------ MODULE IkeData ------------------------------
(***************************************************************************)
(* What an IKEv2 session negotiates, proves and carries, from the          *)
(* IKE_SA_INIT response to the ESP traffic: the algorithms (Proposals),    *)
(* the EAP conversation (Eap), the messages cut into fragments             *)
(* (Reassembly) and the CHILD SAs (EspSa), composed the way                *)
(* ikev2/src/setup.rs, session.rs and rekey.rs compose them.               *)
(*                                                                         *)
(* IkeTunnel has the control of the exchanges: retransmissions, crossing   *)
(* rekeys, the ends of a session.  Here an exchange of the client after    *)
(* the set-up is a dead peer detection, or a rekey taken as one step.      *)
(*                                                                         *)
(* The gateway is not part of the repository.  It has the right            *)
(* certificate, and may or may not know the user's password; it has one    *)
(* request under way, once it holds the SA to be established.  Fragments   *)
(* of its messages arrive in any order, any number of times, or never.     *)
(***************************************************************************)
EXTENDS Proposals, Reassembly, Eap, EspSa, FiniteSets

CONSTANTS
  Settings,      \* settings: the ike and esp specs, the EAP method
  Foreign,       \* answers of a gateway that are no choice from our proposals
  IkeOffers,     \* what a gateway proposes to rekey the IKE SA: lists of proposals
  EspOffers,     \* what it proposes to rekey a CHILD SA
  Totals,        \* numbers of fragments a message may come in
  Challenges,    \* MSCHAPv2 challenges the gateway may send
  Loads,         \* bounds of a behaviour, traded against each other; on an IKE
                 \* SA, the requests of the client in the set-up (rounds) and
                 \* up to which id after it (asks), the requests of the gateway
                 \* (orders), and whether there are packets (traffic)
  MaxSas         \* bound: IKE SAs

ASSUME TotalsAssumption == Totals \subseteq Nat \ {0}

ASSUME BoundsAssumption == MaxSas \in Nat \ {0} /\ \A l \in Loads : l.orders \in Nat

\* The words of the settings name ciphers; the transform id of a cipher says
\* whether it is an AEAD one and whether it comes in several key lengths.
WordsOf(s) == UNION {ToSet(spec) : spec \in ToSet(s.ike) \cup ToSet(s.esp)}
CiphersOf(s) == {w.is : w \in {v \in WordsOf(s) : v.kind = "cipher"}}

ASSUME SettingsAssumption ==
  \A s \in Settings :
    /\ s.method \in Methods \cup {"any"}
    /\ {s.ike, s.esp} \subseteq Seq(Seq(WordsOf(s)))
    /\ CiphersOf(s) \subseteq [id : STRING, bits : Nat, aead : BOOLEAN]
    /\ \A c, d \in CiphersOf(s) :
         c.id = d.id => c.aead = d.aead /\ (c.bits = 0 <=> d.bits = 0)

\* Only a cipher has a key length, if it comes in several.
ASSUME OffersAssumption ==
  \A offer \in IkeOffers \cup EspOffers :
    /\ offer \in Seq(ToSet(offer))
    /\ \A p \in ToSet(offer) : \A t \in p.transforms :
         /\ t = Transform(t.kind, t.id, t.bits)
         /\ t.kind # "cipher" => t.bits = 0
         /\ \A s \in Settings : \A c \in CiphersOf(s) :
              t.kind = "cipher" /\ t.id = c.id /\ c.bits = 0 => t.bits = 0

\* What makes an answer a choice from a proposal of ours: it names every
\* transform of it, but for those an answer may leave out.
Names(p, t) == \E u \in p.transforms : u.kind = t.kind /\ u.id = t.id /\ t.bits \in {0, u.bits}
MayLeaveOut(p, kind) ==
  p.protocol = "esp" /\ kind \in {"esn", "group"} /\ TransformsOf(p, kind) = {}
Chooses(p, proposal) ==
  /\ p.protocol = proposal.protocol /\ ~p.foreign /\ (p.protocol = "esp" => p.spi)
  /\ \A t \in proposal.transforms : Names(p, t) \/ MayLeaveOut(p, t.kind)
  /\ p.protocol = "esp" /\ TransformsOf(p, "group") # {} =>
       TransformsOf(proposal, "group") # {}

ASSUME ForeignAssumption ==
  \A p \in Foreign, s \in Settings :
    /\ \A i \in DOMAIN s.ike : ~Chooses(p, IkeProposal(IkeSet(s.ike[i])))
    /\ \A i \in DOMAIN s.esp : ~Chooses(p, EspProposal(EspSet(s.esp[i]), TRUE))

VARIABLES
  settings,      \* Config; never changes
  phase,         \* of the set-up; then "up", or "down"
  peer,          \* eap::Peer
  knows,         \* whether the gateway knows the password; never changes
  load,          \* the bounds of this behaviour; never change
  wire,          \* the exchanges and the reassembler: see NewWire
  chain,         \* history: the chain of payloads this step completed
  deal,          \* history: the algorithms this step agreed on
  claimed        \* history: EAP ended well after MSCHAPv2

dataVars == <<settings, phase, peer, knows, load, wire, chain, deal, claimed>>
vars == <<dataVars, espVars>>

IkeSets == ParseIke(settings.ike)
EspSets == ParseEsp(settings.esp)
GroupsOf(sets) == {sets[i].group : i \in DOMAIN sets} \ {None}

\* A gateway's message on an IKE SA.
Message(sa, id, resp, total, body) ==
  [sa |-> sa, id |-> id, resp |-> resp, total |-> total, body |-> body]

\* sa: the IKE SA.  id: message_id, of the request the client waits for the
\* response to, or would send next.  waiting: "yes", "no", or "lost" when the
\* request was on an IKE SA that is gone.  peerId: peer_message_id.  next:
\* whether there is a next_ike.  The rest is the gateway's: its answer to that
\* request, its own request, and the one before, which it may still resend.
NewWire ==
  [sa |-> 1, id |-> 1, waiting |-> "no", peerId |-> 0, next |-> FALSE,
   answer |-> NoMessage, order |-> NoMessage, old |-> NoMessage,
   reassembler |-> EmptyReassembler]

\* ours: what the client takes.  theirs: what the gateway holds it to be.
Deal(ours, theirs) == [ours |-> ours, theirs |-> theirs]
NoDeal == Deal(NoSet, NoSet)

Init ==
  /\ settings \in Settings /\ knows \in BOOLEAN /\ load \in Loads
  /\ phase = "init" /\ peer = NewPeer(settings.method)
  /\ wire = NewWire /\ chain = NoChain /\ deal = NoDeal /\ claimed = FALSE
  /\ EspInit

Silent == deal' = NoDeal
NoMessageDone == chain' = NoChain
SameRest == UNCHANGED <<settings, knows, load, claimed>>

\* The session ends, and with it its exchanges.
Closes == phase' = "down" /\ wire' = NewWire /\ peer' = NewPeer(settings.method) /\ Silent
Ends == Closes /\ UNCHANGED espVars

-----------------------------------------------------------------------------
(* IKE_SA_INIT.                                                            *)

\* establish: settings that make no algorithms end the session at once.
BadSettings ==
  /\ phase = "init" /\ ~(Usable(IkeSets) /\ Usable(EspSets))
  /\ Ends /\ NoMessageDone /\ SameRest

\* accept_init: the response to a request with a KE payload for this group.
AcceptInit(group, p, theirs) ==
  LET ours == SelectIke(p, IkeSets, group)
  IN  IF ours = NoSet THEN Ends
      ELSE /\ phase' = "auth" /\ deal' = Deal(ours, theirs)
           /\ wire' = [wire EXCEPT !.waiting = "yes"]
           /\ UNCHANGED <<peer, espVars>>

InitResponse ==
  /\ phase = "init" /\ Usable(IkeSets) /\ Usable(EspSets)
  /\ \E group \in GroupsOf(IkeSets) :
       \/ \E i \in DOMAIN IkeSets :
            /\ IkeSets[i].group = group
            /\ AcceptInit(group, IkeProposal(IkeSets[i]), IkeSets[i])
       \/ \E p \in Foreign : AcceptInit(group, p, NoSet)
  /\ NoMessageDone /\ SameRest

-----------------------------------------------------------------------------
(* The gateway sends (external).                                           *)

Packet(code, type, op, challenge, proof) ==
  [code |-> code, type |-> type, op |-> op, challenge |-> challenge, proof |-> proof]
Plain(code) == Packet(code, "none", "none", 0, 0)
MschapPacket(op, challenge, proof) == Packet("request", "mschapv2", op, challenge, proof)

\* Only a gateway that knows the password can prove it, and only for the
\* challenge that was answered last.
EapPackets ==
  {Plain("success"), Plain("failure")}
    \cup {Packet("request", t, "none", 0, 0) : t \in {"identity", "md5", "gtc", "other"}}
    \cup {MschapPacket("challenge", c, 0) : c \in Challenges}
    \cup {MschapPacket("success", 0, 0), MschapPacket("failure", 0, 0)}
    \cup IF knows /\ peer.challenge # 0
         THEN {MschapPacket("success", 0, peer.challenge)} ELSE {}

\* The final AUTH payload, with the EAP key or with SK_pr.
AuthPackets == {Plain("failure"), Plain("skp")} \cup IF knows THEN {Plain("msk")} ELSE {}

GatewayAnswers ==
  /\ wire.waiting = "yes" /\ wire.answer = NoMessage
  /\ \E total \in Totals : \E body \in CASE phase = "auth" -> EapPackets
                                        [] phase = "final" -> AuthPackets
                                        [] OTHER -> {Plain("done")} :
       /\ phase = "auth" => wire.id < load.rounds
       /\ wire' = [wire EXCEPT !.answer = Message(wire.sa, wire.id, TRUE, total, body)]
  /\ Silent /\ NoMessageDone /\ SameRest /\ UNCHANGED <<phase, peer, espVars>>

GatewayOrders ==
  /\ phase = "up" \/ (phase = "final" /\ wire.answer # NoMessage)
  /\ wire.order = NoMessage /\ wire.peerId < load.orders
  /\ \E total \in Totals : \E code \in {"dpd", "ike", "child", "other", "delete", "deleteChild"} :
       wire' = [wire EXCEPT !.order = Message(wire.sa, wire.peerId, FALSE, total, Plain(code))]
  /\ Silent /\ NoMessageDone /\ SameRest /\ UNCHANGED <<phase, peer, espVars>>

-----------------------------------------------------------------------------
(* The response the client waits for.                                      *)

\* request returns; w is the wire.
Answered(w) == [w EXCEPT !.id = @ + 1, !.waiting = "no", !.answer = NoMessage]
Asked(w) == [w EXCEPT !.waiting = "yes"]

\* eap_rounds.
EapRound(m, w) ==
  LET r == Handle(peer, m.body)
  IN  /\ phase = "auth"
      /\ \/ r.step = "error" /\ Ends /\ UNCHANGED claimed
         \/ /\ r.step = "reply" /\ UNCHANGED <<phase, claimed>>
            /\ peer' = r.peer /\ wire' = Asked(Answered(w)) /\ Silent /\ UNCHANGED espVars
         \/ /\ r.step = "success" /\ phase' = "final"
            /\ claimed' = (peer.method = "mschapv2" \/ peer.challenge # 0)
            /\ peer' = r.peer /\ wire' = Asked(Answered(w)) /\ Silent /\ UNCHANGED espVars

\* verify_shared_auth.
VerifySharedAuth(m) == m.body.code = IF peer.msk # 0 THEN "msk" ELSE "skp"

\* child_from, with a proposal p of the gateway's and the group of the shared
\* secret; theirs is what the gateway holds the algorithms to be, and accepted
\* what the caller does with the new SA.
ChildFrom(p, group, theirs, accepted) ==
  LET ours == SelectEsp(p, EspSets, group)
  IN  IF ours = NoSet THEN Ends ELSE deal' = Deal(ours, theirs) /\ accepted

\* ike_auth, the end of it: the first CHILD SA, negotiated without groups.
FinalAuth(m, w) ==
  LET created ==
        /\ phase' = "up" /\ peer' = NewPeer(settings.method) /\ wire' = Answered(w)
        /\ First
  IN  /\ phase = "final"
      /\ \/ ~VerifySharedAuth(m) /\ Ends
         \/ /\ VerifySharedAuth(m)
            /\ \/ \E i \in DOMAIN EspSets :
                    ChildFrom(EspProposal(EspSets[i], FALSE), None,
                              [EspSets[i] EXCEPT !.group = None], created)
               \/ \E p \in Foreign : ChildFrom(p, None, NoSet, created)
      /\ UNCHANGED claimed

\* The dead peer detection is answered.
Alive(w) ==
  /\ phase = "up" /\ wire' = Answered(w) /\ Silent
  /\ UNCHANGED <<phase, peer, claimed, espVars>>

TakeResponse(m, w) == EapRound(m, w) \/ FinalAuth(m, w) \/ Alive(w)

-----------------------------------------------------------------------------
(* A request of the gateway.                                               *)

\* A plausible mistake: the fragments of the old IKE SA are kept.
SwitchIkeOnly(w) ==
  [w EXCEPT !.sa = @ + 1, !.id = 0, !.peerId = 0, !.next = FALSE,
            !.waiting = IF @ = "no" THEN "no" ELSE "lost",
            !.answer = NoMessage, !.order = NoMessage, !.old = NoMessage]

\* switch_ike.
SwitchIke(w) ==
  [w EXCEPT !.sa = @ + 1, !.id = 0, !.peerId = 0, !.next = FALSE,
            !.waiting = IF @ = "no" THEN "no" ELSE "lost",
            !.answer = NoMessage, !.order = NoMessage, !.old = NoMessage,
            !.reassembler = EmptyReassembler]

\* handle_packet: the request is the one expected.
Taken(m, w) == [w EXCEPT !.peerId = @ + 1, !.order = NoMessage, !.old = m]

\* on_informational: a DELETE of the IKE SA, or of the last CHILD SA.
Ended(w) ==
  \/ w.next /\ w.sa < MaxSas /\ wire' = SwitchIke(w) /\ Silent /\ UNCHANGED <<phase, peer>>
  \/ ~w.next /\ Closes

OnInformational(m, w) ==
  \/ /\ m.body.code = "dpd" /\ wire' = w /\ Silent /\ UNCHANGED <<phase, peer, espVars>>
  \/ m.body.code = "delete" /\ Ended(w) /\ UNCHANGED espVars
  \/ /\ m.body.code = "deleteChild"
     /\ (\E g \in Sas : PeerDelete(g)) \/ UNCHANGED espVars
     /\ IF live' = <<>> /\ phase = "up" THEN Ended(w)
        ELSE wire' = w /\ Silent /\ UNCHANGED <<phase, peer>>

\* The gateway holds an answer to be what it says, if it offered that: every
\* transform of it but the one for no extended sequence numbers.
Holds(p, answer, ours) ==
  IF \A t \in answer.transforms : t.kind = "esn" \/ t \in p.transforms
  THEN ours ELSE NoSet

Refuse(w) == wire' = w /\ Silent /\ UNCHANGED <<phase, peer, espVars>>

\* on_ike_rekey: a proposal must be for the group of the KE payload.
OnIkeRekey(w) ==
  \E offer \in IkeOffers : \E ke \in GroupsOf(IkeSets) \cup {None, "unknown"} :
    LET i == FirstIke(offer, IkeSets, ke)
        ours == SelectIke(offer[i], IkeSets, ke)
    IN  IF ke = None \/ i = 0 \/ ~offer[i].spi THEN Refuse(w)
        ELSE /\ wire' = [w EXCEPT !.next = TRUE]
             /\ deal' = Deal(ours, Holds(offer[i], IkeProposal(ours), [ours EXCEPT !.group = ke]))
             /\ UNCHANGED <<phase, peer, espVars>>

\* on_child_rekey: a group takes a KE payload, and is the payload's.
OnChildRekey(w) ==
  \E g \in Sas : \E offer \in EspOffers : \E ke \in GroupsOf(EspSets) \cup {None, "unknown"} :
    LET i == FirstEsp(offer, EspSets, ke)
        ours == SelectEsp(offer[i], EspSets, ke)
    IN  IF ~IsLive(g) \/ ke = "unknown" \/ i = 0 \/ (ours.group # None /\ ke = None)
        THEN Refuse(w)
        ELSE /\ wire' = w /\ PeerRekey(g)
             /\ deal' = Deal(ours, Holds(offer[i], EspProposal(ours, TRUE),
                                         [ours EXCEPT !.group = IF @ = None THEN @ ELSE ke]))
             /\ UNCHANGED <<phase, peer>>

\* on_create_child_sa: another CHILD SA, or what makes no sense, is refused.
OnCreateChildSa(m, w) ==
  \/ m.body.code = "other" /\ Refuse(w)
  \/ m.body.code = "ike" /\ OnIkeRekey(w)
  \/ m.body.code = "child" /\ OnChildRekey(w)

TakeRequest(m, w) ==
  /\ OnInformational(m, w) \/ OnCreateChildSa(m, w)
  /\ UNCHANGED claimed

-----------------------------------------------------------------------------
(* A datagram arrives.                                                     *)

Whole(c, m) == c.first = m /\ \A n \in DOMAIN c.parts : c.parts[n] = m

\* open_response and open_request: the client waits for m, expects it, or has
\* answered it before.  A chain of several messages' fragments is dropped, or
\* if it can be read makes no sense.
Datagram(m, number) ==
  LET o == Opened(wire.reassembler, m, number)
      w == [wire EXCEPT !.reassembler = o.reassembler]
      Dropped == wire' = w /\ Silent /\ UNCHANGED <<phase, peer, claimed, espVars>>
  IN  /\ chain' = o.chain
      /\ \/ (o.chain = NoChain \/ m = wire.old) /\ Dropped
         \/ /\ o.chain # NoChain /\ Whole(o.chain, m)
            /\ \/ m = wire.answer /\ TakeResponse(m, w)
               \/ m = wire.order /\ TakeRequest(m, Taken(m, w))
         \/ /\ o.chain # NoChain /\ ~Whole(o.chain, m)
            /\ \/ Dropped
               \/ m = wire.answer /\ phase # "up" /\ Ends /\ UNCHANGED claimed
               \/ m = wire.answer /\ Alive(w)
               \/ m = wire.order /\ Refuse(Taken(m, w)) /\ UNCHANGED claimed

DatagramArrives ==
  /\ \E m \in {wire.answer, wire.order, wire.old} \ {NoMessage} :
       \E number \in Fragments(m) : Datagram(m, number)
  /\ UNCHANGED <<settings, knows, load>>

\* request: no response in time, or a cancel.
GivesUp ==
  /\ wire.waiting # "no" /\ Ends /\ NoMessageDone /\ SameRest

-----------------------------------------------------------------------------
(* The established tunnel.                                                 *)

Idle == phase = "up" /\ wire.waiting = "no"

\* watch: dead peer detection.
Asks ==
  /\ Idle /\ wire.id <= load.asks
  /\ wire' = Asked(wire)
  /\ Silent /\ NoMessageDone /\ SameRest /\ UNCHANGED <<phase, peer, espVars>>

\* create_child and rekey_child: the KE payload is for the first group there
\* is, or the one the gateway asked for instead; a proposal with a group is
\* chosen with that one only.
RekeyChild ==
  /\ Idle
  /\ \E g \in Sas, hour \in BOOLEAN :
       LET replace == Rekey(g, hour) /\ UNCHANGED <<phase, peer, wire>>
       IN  /\ IsLive(g) /\ g \notin replaced /\ IsDue(g, hour) /\ drawn < Generations
           /\ \/ \E i \in DOMAIN EspSets :
                   ChildFrom(EspProposal(EspSets[i], TRUE), EspSets[i].group, EspSets[i], replace)
              \/ \E p \in Foreign : ChildFrom(p, None, NoSet, replace)
  /\ NoMessageDone /\ SameRest

\* on_esp and on_tun_packet.
Traffic ==
  /\ phase = "up" /\ load.traffic
  /\ OnTunPacket \/ \E g \in Sas, s \in Numbers : OnEsp(g, s)
  /\ Silent /\ NoMessageDone /\ SameRest /\ UNCHANGED <<phase, peer, wire>>

Next ==
  \/ BadSettings \/ InitResponse \/ GatewayAnswers \/ GatewayOrders
  \/ DatagramArrives \/ GivesUp \/ Asks \/ RekeyChild \/ Traffic

Spec == Init /\ [][Next]_vars

-----------------------------------------------------------------------------

\* The code of an EAP packet, of an AUTH payload, or of what a request asks.
Codes ==
  {"request", "success", "failure", "skp", "msk", "done"}
    \cup {"dpd", "ike", "child", "other", "delete", "deleteChild"}

Bodies ==
  [code : Codes,
   type : Methods \cup {"none", "identity", "other"},
   op : {"none", "challenge", "success", "failure"},
   challenge : {0} \cup Challenges, proof : {0} \cup Challenges]

Messages ==
  [sa : 1 .. MaxSas, id : Nat, resp : BOOLEAN, total : Totals, body : Bodies]

TypeOK ==
  /\ EspTypeOK
  /\ settings \in Settings /\ load \in Loads /\ knows \in BOOLEAN /\ claimed \in BOOLEAN
  /\ phase \in {"init", "auth", "final", "up", "down"}
  /\ peer \in [method : Methods \cup {"any"}, challenge : {0} \cup Challenges,
               msk : {0} \cup Challenges]
  /\ wire.sa \in 1 .. MaxSas /\ wire.id \in Nat /\ wire.peerId \in 0 .. load.orders
  /\ {wire.answer, wire.order, wire.old} \subseteq Messages \cup {NoMessage}

\* Both sides hold an SA to have the same algorithms: what the client takes
\* from the gateway's choice is that choice, also where two of its own sets
\* differ in a key length or a group only (accept_init, child_from), and what
\* it takes from the gateway's proposals was offered, with the group of the KE
\* payload (on_ike_rekey, on_child_rekey).  An answer that is no choice of its
\* proposals is not taken.
AlgorithmsAgree == deal.ours = deal.theirs

\* Once MSCHAPv2 was wanted or under way, the tunnel comes up only with a
\* gateway that knows the password, whichever methods, challenges and successes
\* it sends before (handle, verify_shared_auth).
ProvenGateway == phase = "up" /\ claimed => knows

\* The chain of payloads a datagram completes is all of one message, read from
\* that message's first fragment, however the fragments of several messages,
\* of several IKE SAs and of retransmissions arrive; only a request and a
\* response with the same id and number of fragments get mixed (Reassembler,
\* switch_ike).
WholeMessages ==
  \A n \in DOMAIN chain.parts :
    LET m == chain.parts[n]
    IN  /\ DOMAIN chain.parts = Fragments(m)
        /\ chain.parts[1] = chain.first
        /\ \A k \in DOMAIN chain.parts :
             LET o == chain.parts[k]
             IN  o = m \/ (o.resp # m.resp /\ o.sa = m.sa /\ o.id = m.id /\ o.total = m.total)
=============================================================================

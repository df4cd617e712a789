-------------------------------- MODULE Eap --------------------------------
(***************************************************************************)
(* The EAP peer: ikev2/src/eap.rs.  A peer is a record: the method it      *)
(* insists on ("any" for none), the MSCHAPv2 challenge it answered last,   *)
(* and the challenge whose proof gave it a master session key; challenges  *)
(* are numbers, 0 for none.                                                *)
(*                                                                         *)
(* A packet of the gateway is a record: its code, the type of a request,   *)
(* the opcode of an MSCHAPv2 request, and for its success the challenge    *)
(* that the authenticator response proves knowledge of the password for.   *)
(***************************************************************************)
EXTENDS Naturals

Methods == {"mschapv2", "md5", "gtc"}

NewPeer(method) == [method |-> method, challenge |-> 0, msk |-> 0]

\* A reply says what of the password it gives away.
Reply(peer, kind) == [peer |-> peer, step |-> "reply", kind |-> kind]
Failure(peer) == [peer |-> peer, step |-> "error", kind |-> "none"]

Accepts(peer, method) == peer.method \in {"any", method}

\* A plausible mistake: a proof is asked for only when the method is insisted on.
SuccessIfInsisted(peer) ==
  IF peer.method = "mschapv2" /\ peer.msk = 0 THEN Failure(peer)
  ELSE [peer |-> peer, step |-> "success", kind |-> "none"]

\* handle, a success: MSCHAPv2, wanted or under way, must have proved the
\* gateway's knowledge of the password.
Success(peer) ==
  IF (peer.method = "mschapv2" \/ peer.challenge # 0) /\ peer.msk = 0
  THEN Failure(peer)
  ELSE [peer |-> peer, step |-> "success", kind |-> "none"]

\* mschapv2: a new challenge replaces the conversation but not the key.
Mschapv2(peer, p) ==
  CASE p.op = "challenge" -> Reply([peer EXCEPT !.challenge = p.challenge], "hash")
    [] p.op = "success" ->
         IF peer.challenge # 0 /\ p.proof = peer.challenge
         THEN Reply([peer EXCEPT !.msk = peer.challenge], "none")
         ELSE Failure(peer)
    [] OTHER -> Failure(peer)

\* request: a method we do not insist on is answered with the one we do.
EapRequest(peer, p) ==
  CASE p.type \in {"identity", "notification"} -> Reply(peer, "none")
    [] p.type \in Methods /\ ~Accepts(peer, p.type) -> Reply(peer, "none")
    [] p.type = "mschapv2" -> Mschapv2(peer, p)
    [] p.type = "md5" -> Reply(peer, "hash")
    [] p.type = "gtc" -> Reply(peer, "password")
    [] OTHER -> Failure(peer)

\* handle.
Handle(peer, p) ==
  CASE p.code = "success" -> Success(peer)
    [] p.code = "request" -> EapRequest(peer, p)
    [] OTHER -> Failure(peer)
=============================================================================

------------------------------- MODULE EspSa -------------------------------
(***************************************************************************)
(* The CHILD SAs and the traffic on them: ikev2/src/child.rs and the part  *)
(* of ikev2/src/session.rs that uses it.  A CHILD SA is numbered by its    *)
(* generation; its keys are its own.  Packets are only their sequence      *)
(* numbers: on the way they may be lost, repeated and reordered, and one   *)
(* that is not authentic is dropped before its number is looked at.        *)
(***************************************************************************)
EXTENDS Vec

CONSTANTS
  Window,        \* REPLAY_WINDOW: 64 in the code
  MaxSeq,        \* u32::MAX
  Limit,         \* SEQUENCE_LIMIT
  Generations    \* CHILD SAs there may be

ASSUME EspAssumption ==
  /\ Window \in Nat \ {0} /\ MaxSeq \in Nat \ {0}
  /\ Limit \in 0 .. MaxSeq /\ Generations \in Nat \ {0}

VARIABLES
  live,       \* Session::children, the newest first
  replaced,   \* those of them with ChildSa::replaced
  drawn,      \* how many there have been
  seqOut,     \* ChildSa::seq_out, of each
  replay,     \* ChildSa::replay, of each
  sends,      \* history: how often a number was sent
  accepts     \* history: how often a number was accepted

espVars == <<live, replaced, drawn, seqOut, replay, sends, accepts>>

Numbers == 0 .. MaxSeq
Sas == 1 .. Generations

\* Replay::default.  window: n is in it if highest - n was received.
NewReplay == [highest |-> 0, window |-> {}]

EspInit ==
  /\ live = <<>> /\ replaced = {} /\ drawn = 0
  /\ seqOut = [g \in Sas |-> 0]
  /\ replay = [g \in Sas |-> NewReplay]
  /\ sends = [g \in Sas |-> [s \in Numbers |-> 0]]
  /\ accepts = [g \in Sas |-> [s \in Numbers |-> 0]]

-----------------------------------------------------------------------------

\* Replay::accept: whether a number is new.
IsNew(r, s) ==
  /\ s # 0
  /\ s > r.highest \/ (r.highest - s < Window /\ r.highest - s \notin r.window)

\* A plausible mistake: a jump forward marks only the new number.
RecordedAlone(r, s) ==
  IF s > r.highest THEN [highest |-> s, window |-> {0}]
  ELSE [r EXCEPT !.window = @ \cup {r.highest - s}]

\* Replay::accept: the window with the number recorded.
Recorded(r, s) ==
  IF s > r.highest
  THEN [highest |-> s,
        window |-> {0} \cup {n \in 0 .. Window - 1 :
                               \E m \in r.window : n = m + (s - r.highest)}]
  ELSE [r EXCEPT !.window = @ \cup {r.highest - s}]

IsLive(g) == \E i \in DOMAIN live : live[i] = g

Without(g) == Retained(live, {i \in DOMAIN live : live[i] # g})

\* on_esp and decapsulate: an authentic packet with number s on SA g.
OnEsp(g, s) ==
  /\ IsLive(g)
  /\ IF IsNew(replay[g], s)
     THEN /\ replay' = [replay EXCEPT ![g] = Recorded(@, s)]
          /\ accepts' = [accepts EXCEPT ![g][s] = @ + 1]
     ELSE UNCHANGED <<replay, accepts>>
  /\ UNCHANGED <<live, replaced, drawn, seqOut, sends>>

\* A plausible mistake: the last number is not looked out for.
OnTunPacketUnchecked ==
  /\ live # <<>>
  /\ seqOut' = [seqOut EXCEPT ![Head(live)] = @ + 1]
  /\ sends' = [sends EXCEPT ![Head(live)][seqOut[Head(live)] + 1] = 1]
  /\ UNCHANGED <<live, replaced, drawn, replay, accepts>>

\* on_tun_packet and encapsulate, on the newest SA; with no numbers left the
\* packet is dropped.
OnTunPacket ==
  /\ live # <<>>
  /\ LET g == Head(live)
     IN  /\ seqOut[g] # MaxSeq
         /\ seqOut' = [seqOut EXCEPT ![g] = @ + 1]
         /\ sends' = [sends EXCEPT ![g][seqOut[g] + 1] = @ + 1]
  /\ UNCHANGED <<live, replaced, drawn, replay, accepts>>

\* ChildSa::new: the newest SA carries the traffic from now on.
Install ==
  /\ drawn < Generations
  /\ drawn' = drawn + 1
  /\ UNCHANGED <<seqOut, replay, sends, accepts>>

First == Install /\ live' = <<drawn + 1>> /\ UNCHANGED replaced

\* is_due: the numbers are about to run out, or the hour is over.
IsDue(g, hour) == seqOut[g] >= Limit \/ hour

\* rekey_child: the SA that is due is replaced and deleted.
Rekey(g, hour) ==
  /\ IsLive(g) /\ g \notin replaced /\ IsDue(g, hour)
  /\ Install
  /\ live' = <<drawn + 1>> \o Without(g)
  /\ UNCHANGED replaced

\* on_child_rekey: the gateway's old SA still receives.
PeerRekey(g) ==
  /\ IsLive(g)
  /\ Install
  /\ live' = <<drawn + 1>> \o live
  /\ replaced' = replaced \cup {g}

\* on_informational: the gateway deletes one.
PeerDelete(g) ==
  /\ IsLive(g)
  /\ live' = Without(g)
  /\ UNCHANGED <<replaced, drawn, seqOut, replay, sends, accepts>>

EspNext ==
  \/ First \/ OnTunPacket
  \/ \E g \in Sas :
       \/ \E s \in Numbers : OnEsp(g, s)
       \/ \E hour \in BOOLEAN : Rekey(g, hour)
       \/ PeerRekey(g)
       \/ PeerDelete(g)

EspSpec == EspInit /\ [][EspNext]_espVars

-----------------------------------------------------------------------------

EspTypeOK ==
  /\ live \in Seq(Sas) /\ replaced \subseteq Sas /\ drawn \in 0 .. Generations
  /\ seqOut \in [Sas -> Numbers]
  /\ replay \in [Sas -> [highest : Numbers, window : SUBSET (0 .. Window - 1)]]
  /\ sends \in [Sas -> [Numbers -> Nat]]
  /\ accepts \in [Sas -> [Numbers -> Nat]]

\* No sequence number is used twice under one key: the gateway's packets are
\* accepted at most once each, however they arrive (Replay::accept), and ours,
\* whose numbers are the nonces of an AEAD cipher, are sent at most once, also
\* when no rekey comes before the numbers run out (encapsulate).
NumbersOnce ==
  \A g \in Sas : \A s \in Numbers : sends[g][s] <= 1 /\ accepts[g][s] <= 1
=============================================================================

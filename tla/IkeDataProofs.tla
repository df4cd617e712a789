--------------------------- MODULE IkeDataProofs ---------------------------
(***************************************************************************)
(* Proofs about module IkeData, for every value of the constants: sequence *)
(* numbers are used once, a gateway that was asked to prove that it knows  *)
(* the password does know it, messages are put together from their own     *)
(* fragments, and both sides take the same algorithms.                     *)
(***************************************************************************)
EXTENDS IkeData, LeastNumber, TLAPS

-----------------------------------------------------------------------------
(* Sequence numbers.                                                       *)

Counters ==
  /\ seqOut \in [Sas -> Numbers]
  /\ replay \in [Sas -> [highest : Numbers, window : SUBSET (0 .. Window - 1)]]
  /\ sends \in [Sas -> [Numbers -> Nat]]
  /\ accepts \in [Sas -> [Numbers -> Nat]]

\* What was sent is behind seq_out; what was accepted is behind the highest
\* number, and in the window while the window reaches back that far.
SentBehind == \A g \in Sas : \A s \in Numbers :
  sends[g][s] <= 1 /\ (s > seqOut[g] => sends[g][s] = 0)
Tracked(r, a) == \A s \in Numbers :
  /\ a[s] <= 1
  /\ s > r.highest => a[s] = 0
  /\ s <= r.highest /\ r.highest - s < Window /\ r.highest - s \notin r.window => a[s] = 0
AcceptedTracked == \A g \in Sas : Tracked(replay[g], accepts[g])

EspInv == Counters /\ SentBehind /\ AcceptedTracked

LEMMA EspInitInv == EspInit => EspInv
  BY EspAssumption DEF EspInit, EspInv, Counters, SentBehind, AcceptedTracked, Tracked,
     NewReplay, Numbers, Sas

\* One number accepted, on the window of one SA.
LEMMA RecordedTracks ==
  ASSUME NEW r \in [highest : Numbers, window : SUBSET (0 .. Window - 1)],
         NEW a \in [Numbers -> Nat], NEW s \in Numbers,
         Tracked(r, a), IsNew(r, s)
  PROVE  /\ Recorded(r, s) \in [highest : Numbers, window : SUBSET (0 .. Window - 1)]
         /\ Tracked(Recorded(r, s), [a EXCEPT ![s] = @ + 1])
<1> DEFINE b == [a EXCEPT ![s] = @ + 1]
<1> Window \in Nat \ {0} /\ MaxSeq \in Nat BY EspAssumption
<1>1. a[s] = 0
  BY DEF Tracked, IsNew, Numbers
<1>2. \A t \in Numbers : b[t] = IF t = s THEN 1 ELSE a[t]
  BY <1>1
<1>3. CASE s > r.highest
  <2> DEFINE w == {0} \cup {n \in 0 .. Window - 1 : \E m \in r.window : n = m + (s - r.highest)}
  <2>1. Recorded(r, s) = [highest |-> s, window |-> w]
    BY <1>3 DEF Recorded
  <2>2. w \subseteq 0 .. Window - 1
    OBVIOUS
  <2>3. ASSUME NEW t \in Numbers, t <= s, s - t < Window, s - t \notin w
        PROVE  b[t] = 0
    <3>1. t # s
      BY <2>3 DEF Numbers
    <3>2. CASE t > r.highest
      BY <3>1, <3>2, <1>2 DEF Tracked
    <3>3. CASE t <= r.highest
      <4>1. r.highest - t < Window /\ s - t \in 0 .. Window - 1
            /\ s - t = (r.highest - t) + (s - r.highest)
        BY <3>3, <2>3, <1>3 DEF Numbers
      <4>2. r.highest - t \notin r.window
        BY <4>1, <2>3
      <4> QED BY <4>1, <4>2, <3>1, <3>3, <1>2 DEF Tracked
    <3> QED BY <3>2, <3>3 DEF Numbers
  <2>4. ASSUME NEW t \in Numbers PROVE b[t] <= 1 /\ (t > s => b[t] = 0)
    BY <1>2, <1>3 DEF Tracked, Numbers
  <2> DEFINE n == [highest |-> s, window |-> w]
  <2>5. n.highest = s /\ n.window = w
    OBVIOUS
  <2>6. n \in [highest : Numbers, window : SUBSET (0 .. Window - 1)]
    BY <2>2
  <2> HIDE DEF w, b, n
  <2>7. Tracked(n, b)
    BY <2>3, <2>4, <2>5 DEF Tracked
  <2> QED BY <2>1, <2>6, <2>7 DEF b, n
<1>4. CASE ~(s > r.highest)
  <2>1. Recorded(r, s) = [highest |-> r.highest, window |-> r.window \cup {r.highest - s}]
    BY <1>4 DEF Recorded
  <2>2. r.highest - s \in 0 .. Window - 1
    BY <1>4 DEF IsNew, Numbers
  <2>3. ASSUME NEW t \in Numbers
        PROVE  /\ b[t] <= 1 /\ (t > r.highest => b[t] = 0)
               /\ t <= r.highest /\ r.highest - t < Window
                    /\ r.highest - t \notin r.window \cup {r.highest - s} => b[t] = 0
    BY <1>2, <1>4 DEF Tracked, Numbers
  <2> HIDE DEF b
  <2> QED BY <2>1, <2>2, <2>3 DEF Tracked, b
<1> QED BY <1>3, <1>4

LEMMA OnEspKeeps ==
  ASSUME EspInv, NEW g \in Sas, NEW s \in Numbers, OnEsp(g, s) PROVE EspInv'
<1>1. CASE ~IsNew(replay[g], s)
  BY <1>1 DEF OnEsp, EspInv, Counters, SentBehind, AcceptedTracked, Tracked
<1>2. CASE IsNew(replay[g], s)
  <2>1. /\ replay' = [replay EXCEPT ![g] = Recorded(replay[g], s)]
        /\ accepts' = [accepts EXCEPT ![g] = [accepts[g] EXCEPT ![s] = @ + 1]]
        /\ UNCHANGED <<seqOut, sends>>
    BY <1>2 DEF OnEsp
  <2>2. /\ Recorded(replay[g], s) \in [highest : Numbers, window : SUBSET (0 .. Window - 1)]
        /\ Tracked(Recorded(replay[g], s), [accepts[g] EXCEPT ![s] = @ + 1])
    BY <1>2, RecordedTracks DEF EspInv, Counters, AcceptedTracked
  <2>3. Counters'
    BY <2>1, <2>2 DEF EspInv, Counters
  <2>4. AcceptedTracked'
    <3> SUFFICES ASSUME NEW h \in Sas PROVE Tracked(replay'[h], accepts'[h])
      BY DEF AcceptedTracked
    <3>1. CASE h = g
      BY <3>1, <2>1, <2>2 DEF EspInv, Counters
    <3>2. CASE h # g
      <4>1. replay'[h] = replay[h] /\ accepts'[h] = accepts[h]
        BY <3>2, <2>1 DEF EspInv, Counters
      <4> QED BY <4>1 DEF EspInv, AcceptedTracked
    <3> QED BY <3>1, <3>2
  <2> QED BY <2>1, <2>3, <2>4 DEF EspInv, SentBehind
<1> QED BY <1>1, <1>2

LEMMA OnTunPacketKeeps == ASSUME EspInv, OnTunPacket PROVE EspInv'
<1> DEFINE g == Head(live)
<1>1. /\ seqOut[g] # MaxSeq
      /\ seqOut' = [seqOut EXCEPT ![g] = @ + 1]
      /\ sends' = [sends EXCEPT ![g] = [sends[g] EXCEPT ![seqOut[g] + 1] = @ + 1]]
      /\ UNCHANGED <<replay, accepts>>
  BY DEF OnTunPacket
<1> HIDE DEF g
<1>2. AcceptedTracked'
  BY <1>1 DEF EspInv, AcceptedTracked, Tracked
<1>3. CASE g \in Sas
  <2>1. seqOut[g] + 1 \in Numbers /\ seqOut[g] \in Numbers /\ sends[g] \in [Numbers -> Nat]
    BY <1>1, <1>3, EspAssumption DEF EspInv, Counters, Numbers
  <2>2. sends[g][seqOut[g] + 1] = 0
    BY <2>1, <1>3 DEF EspInv, SentBehind, Numbers
  <2>3. Counters'
    BY <1>1, <2>1, <1>3 DEF EspInv, Counters
  <2>4. ASSUME NEW h \in Sas, NEW s \in Numbers
        PROVE  sends'[h][s] <= 1 /\ (s > seqOut'[h] => sends'[h][s] = 0)
    <3>1. CASE h # g
      BY <3>1, <1>1 DEF EspInv, Counters, SentBehind
    <3>2. CASE h = g
      <4>1. sends'[h] = [sends[g] EXCEPT ![seqOut[g] + 1] = @ + 1] /\ seqOut'[h] = seqOut[g] + 1
        BY <3>2, <1>1, <1>3 DEF EspInv, Counters
      <4>2. sends[g][s] <= 1 /\ (s > seqOut[g] => sends[g][s] = 0) /\ sends[g][s] \in Nat
        BY <1>3, <2>1 DEF EspInv, SentBehind
      <4> QED BY <4>1, <4>2, <2>1, <2>2 DEF Numbers
    <3> QED BY <3>1, <3>2
  <2> QED BY <2>3, <2>4, <1>2 DEF EspInv, SentBehind
<1>4. CASE g \notin Sas
  <2>1. seqOut' = seqOut /\ sends' = sends
    BY <1>1, <1>4 DEF EspInv, Counters
  <2> QED BY <2>1, <1>1, <1>2 DEF EspInv, Counters, SentBehind
<1> QED BY <1>3, <1>4

\* The other steps install, replace and delete SAs, and touch no counter.
SameCounters == UNCHANGED <<seqOut, replay, sends, accepts>>

LEMMA SameCountersKeep == ASSUME EspInv, SameCounters PROVE EspInv'
  BY DEF SameCounters, EspInv, Counters, SentBehind, AcceptedTracked, Tracked

LEMMA EspStepOfResponse == ASSUME NEW m, NEW w, TakeResponse(m, w) PROVE SameCounters
<1> USE DEF SameCounters, espVars, Ends
<1>1. CASE EapRound(m, w)
  BY <1>1 DEF EapRound
<1>2. CASE FinalAuth(m, w)
  BY <1>2 DEF FinalAuth, ChildFrom, First, Install
<1>3. CASE Alive(w)
  BY <1>3 DEF Alive
<1> QED BY <1>1, <1>2, <1>3 DEF TakeResponse

LEMMA EspStepOfRequest == ASSUME NEW m, NEW w, TakeRequest(m, w) PROVE SameCounters
<1> USE DEF SameCounters, espVars, Refuse
<1>1. CASE OnInformational(m, w)
  BY <1>1 DEF OnInformational, PeerDelete
<1>2. CASE OnCreateChildSa(m, w)
  BY <1>2 DEF OnCreateChildSa, OnIkeRekey, OnChildRekey, PeerRekey, Install
<1> QED BY <1>1, <1>2 DEF TakeRequest

\* Every step is a packet or leaves the counters alone.
LEMMA StepCounts ==
  ASSUME [Next]_vars
  PROVE  \/ SameCounters \/ OnTunPacket
         \/ \E g \in Sas, s \in Numbers : OnEsp(g, s)
<1> USE DEF SameCounters, espVars, Ends
<1>1. CASE UNCHANGED vars
  BY <1>1 DEF vars
<1>2. CASE BadSettings \/ InitResponse \/ GatewayAnswers \/ GatewayOrders \/ GivesUp \/ Asks
  BY <1>2 DEF BadSettings, InitResponse, AcceptInit, GatewayAnswers, GatewayOrders, GivesUp, Asks
<1>3. CASE DatagramArrives
  <2>1. PICK m, number : Datagram(m, number)
    BY <1>3 DEF DatagramArrives
  <2> DEFINE o == Opened(wire.reassembler, m, number)
             w == [wire EXCEPT !.reassembler = o.reassembler]
  <2>2. CASE UNCHANGED espVars
    BY <2>2
  <2>3. CASE TakeResponse(m, w)
    BY <2>3, EspStepOfResponse
  <2>4. CASE TakeRequest(m, Taken(m, w))
    BY <2>4, EspStepOfRequest
  <2> HIDE DEF o, w
  <2> QED BY <2>1, <2>2, <2>3, <2>4 DEF Datagram, Alive, Refuse, o, w
<1>4. CASE RekeyChild
  BY <1>4 DEF RekeyChild, ChildFrom, Rekey, Install
<1>5. CASE Traffic
  BY <1>5 DEF Traffic
<1> QED BY <1>1, <1>2, <1>3, <1>4, <1>5 DEF Next

\* No sequence number is used twice under one key, whatever the gateway and
\* the network do: encapsulate and Replay::accept, over the life of a session.
THEOREM SequenceNumbersOnce == Spec => []NumbersOnce
<1>1. Init => EspInv
  BY EspInitInv DEF Init
<1>2. EspInv /\ [Next]_vars => EspInv'
  BY StepCounts, SameCountersKeep, OnTunPacketKeeps, OnEspKeeps
<1>3. EspInv => NumbersOnce
  BY DEF EspInv, SentBehind, AcceptedTracked, Tracked, NumbersOnce
<1> QED BY <1>1, <1>2, <1>3, PTL DEF Spec

-----------------------------------------------------------------------------
(* EAP: what shows that the gateway knows the password.                    *)

\* A proof under way, a key and a claim each take a gateway that knows.
Honest(w) == w.answer # NoMessage /\ w.answer.body.proof # 0 => knows
KeyProven == peer.msk # 0 => knows
ClaimProven == claimed => knows

IsPeer(q) == q = [method |-> q.method, challenge |-> q.challenge, msk |-> q.msk]

EapInv == IsPeer(peer) /\ knows \in BOOLEAN /\ Honest(wire) /\ KeyProven /\ ClaimProven

\* Handling a packet gives a key only for a proof, and a success only with a
\* key if MSCHAPv2 was wanted or under way.
LEMMA HandleProves ==
  ASSUME NEW q, NEW p, NEW k \in BOOLEAN, IsPeer(q), q.msk # 0 => k, p.proof # 0 => k
  PROVE  LET r == Handle(q, p)
         IN  /\ IsPeer(r.peer) /\ (r.peer.msk # 0 => k)
             /\ r.step = "success" /\ (q.method = "mschapv2" \/ q.challenge # 0) => k
<1>1. Failure(q).peer = q /\ Failure(q).step = "error"
  BY DEF Failure
<1>2. \A kind : Reply(q, kind).peer = q /\ Reply(q, kind).step = "reply"
  BY DEF Reply
<1>3. Success(q).peer = q
      /\ (Success(q).step = "success" /\ (q.method = "mschapv2" \/ q.challenge # 0) => q.msk # 0)
  BY <1>1 DEF Success
<1>4. /\ (Mschapv2(q, p).peer.msk # 0 => k) /\ Mschapv2(q, p).step # "success"
      /\ IsPeer(Mschapv2(q, p).peer)
  <2> /\ [q EXCEPT !.challenge = p.challenge]
           = [method |-> q.method, challenge |-> p.challenge, msk |-> q.msk]
      /\ [q EXCEPT !.msk = q.challenge]
           = [method |-> q.method, challenge |-> q.challenge, msk |-> q.challenge]
    BY DEF IsPeer
  <2>1. CASE p.op = "challenge"
    BY <2>1 DEF Mschapv2, Reply, IsPeer
  <2>2. CASE p.op = "success"
    BY <2>2, <1>1 DEF Mschapv2, Reply, IsPeer
  <2>3. CASE p.op # "challenge" /\ p.op # "success"
    BY <2>3, <1>1 DEF Mschapv2
  <2> QED BY <2>1, <2>2, <2>3
<1>5. /\ (EapRequest(q, p).peer.msk # 0 => k) /\ EapRequest(q, p).step # "success"
      /\ IsPeer(EapRequest(q, p).peer)
  BY <1>1, <1>2, <1>4 DEF EapRequest
<1> QED BY <1>1, <1>3, <1>5 DEF Handle

LEMMA NewPeerIsPeer == \A method : IsPeer(NewPeer(method)) /\ NewPeer(method).msk = 0
  BY DEF IsPeer, NewPeer

-----------------------------------------------------------------------------
(* Messages and their fragments.                                           *)

IsWire(w) ==
  /\ DOMAIN w = {"sa", "id", "waiting", "peerId", "next", "answer", "order", "old", "reassembler"}
  /\ w.id \in Nat /\ w.peerId \in Nat

\* Where the gateway's messages stand: the answer at the client's id, its
\* request at the id expected, the one before just behind.
Placed(w) ==
  /\ w.answer # NoMessage =>
       w.answer.sa = w.sa /\ w.answer.id = w.id /\ w.answer.resp /\ w.answer.total \in Nat \ {0}
  /\ w.order # NoMessage =>
       w.order.sa = w.sa /\ w.order.id = w.peerId /\ ~w.order.resp /\ w.order.total \in Nat \ {0}
  /\ w.old # NoMessage =>
       w.old.sa = w.sa /\ w.old.id \in Nat /\ w.old.id + 1 = w.peerId /\ ~w.old.resp
         /\ w.old.total \in Nat \ {0}

IsReassembler(r) == DOMAIN r = {"id", "total", "first", "parts"}

\* A fragment in the reassembler is of a message of this IKE SA with the id and
\* the total the reassembler is at: the answer, or a request that is not newer
\* than the expected one.
Fits(m, r, w) ==
  /\ m.sa = w.sa /\ m.id = r.id /\ m.total = r.total /\ m.total \in Nat /\ m.total # 1
  /\ m.resp => m = w.answer /\ m # NoMessage
  /\ ~m.resp => \/ m = w.order /\ m # NoMessage
                \/ m = w.old /\ m # NoMessage
                \/ m.id \in Nat /\ m.id + 1 < w.peerId

Collects(r, w) ==
  /\ IsReassembler(r)
  /\ \A n \in DOMAIN r.parts : Fits(r.parts[n], r, w)
  /\ \A n, k \in DOMAIN r.parts :
       (r.parts[n].resp <=> r.parts[k].resp) => r.parts[n] = r.parts[k]
  /\ 1 \in DOMAIN r.parts => r.first = r.parts[1]

WireInv(w) == IsWire(w) /\ Placed(w) /\ Collects(w.reassembler, w)

\* No fragment of the answer waits for others.
NoPartOfAnswer(w) == \A n \in DOMAIN w.reassembler.parts : ~w.reassembler.parts[n].resp

\* The messages that may arrive.
Arriving(m, w) == m # NoMessage /\ (m = w.answer \/ m = w.order \/ m = w.old)

LEMMA EmptyCollects == \A w : Collects(EmptyReassembler, w)
  BY DEF Collects, EmptyReassembler, IsReassembler

LEMMA ArrivingFits ==
  ASSUME NEW w, IsWire(w), Placed(w), NEW m, Arriving(m, w), m.total # 1,
         NEW r, r.id = m.id, r.total = m.total
  PROVE  Fits(m, r, w)
  BY DEF IsWire, Placed, Arriving, Fits

\* Of one direction and with one id, there is one message.
LEMMA SameMessage ==
  ASSUME NEW w, IsWire(w), Placed(w), NEW m, Arriving(m, w),
         NEW r, NEW q, Fits(q, r, w), q.id = m.id, q.resp <=> m.resp
  PROVE  q = m
  BY DEF IsWire, Placed, Arriving, Fits

LEMMA StartedCollects ==
  ASSUME NEW w, NEW r, Collects(r, w), NEW m
  PROVE  /\ Collects(Started(r, m), w)
         /\ Started(r, m).id = m.id /\ Started(r, m).total = m.total
<1>1. CASE r.id = m.id /\ r.total = m.total
  BY <1>1 DEF Started
<1>2. CASE ~(r.id = m.id /\ r.total = m.total)
  <2> DEFINE s == Started(r, m)
  <2>1. s.id = m.id /\ s.total = m.total /\ s.parts = <<>> /\ IsReassembler(s)
    BY <1>2 DEF Started, Collects, IsReassembler
  <2>2. DOMAIN s.parts = {}
    BY <2>1
  <2> HIDE DEF s
  <2> QED BY <2>1, <2>2 DEF Collects, s
<1> QED BY <1>1, <1>2

LEMMA InsertedCollects ==
  ASSUME NEW w, IsWire(w), Placed(w), NEW r, Collects(r, w),
         NEW m, Arriving(m, w), m.total # 1, NEW number
  PROVE  /\ Collects(Inserted(r, m, number), w)
         /\ Inserted(r, m, number).total = m.total
<1> DEFINE s == Started(r, m)
           parts == [n \in DOMAIN s.parts \cup {number} |-> IF n = number THEN m ELSE s.parts[n]]
           i == Inserted(r, m, number)
<1>1. Collects(s, w) /\ s.id = m.id /\ s.total = m.total
  BY StartedCollects
<1>2. /\ i.id = m.id /\ i.total = m.total /\ i.parts = parts /\ IsReassembler(i)
      /\ i.first = IF number = 1 THEN m ELSE s.first
  <2> IsReassembler(s)
    BY <1>1 DEF Collects
  <2> HIDE DEF s
  <2>1. i = [s EXCEPT !.first = IF number = 1 THEN m ELSE s.first, !.parts = parts]
    BY DEF Inserted, s
  <2> HIDE DEF i, parts
  <2> QED BY <2>1, <1>1 DEF IsReassembler
<1> HIDE DEF s, i
<1>3. Fits(m, i, w)
  BY <1>2, ArrivingFits
<1>4. ASSUME NEW n \in DOMAIN parts
      PROVE  /\ Fits(parts[n], i, w)
             /\ (parts[n].resp <=> m.resp) => parts[n] = m
  <2>1. CASE n = number
    BY <2>1, <1>3
  <2>2. CASE n # number
    <3>1. parts[n] = s.parts[n] /\ Fits(s.parts[n], s, w)
      BY <2>2, <1>1 DEF Collects
    <3>2. Fits(s.parts[n], i, w)
      BY <3>1, <1>1, <1>2 DEF Fits
    <3>3. s.parts[n].id = m.id
      BY <3>1, <1>1 DEF Fits
    <3> QED BY <3>1, <3>2, <3>3, SameMessage
  <2> QED BY <2>1, <2>2
<1>5. \A n, k \in DOMAIN parts : (parts[n].resp <=> parts[k].resp) => parts[n] = parts[k]
  <2> SUFFICES ASSUME NEW n \in DOMAIN parts, NEW k \in DOMAIN parts,
                      parts[n].resp <=> parts[k].resp
               PROVE  parts[n] = parts[k]
    OBVIOUS
  <2>1. CASE n = number \/ k = number
    BY <2>1, <1>4
  <2>2. CASE n # number /\ k # number
    BY <2>2, <1>1 DEF Collects
  <2> QED BY <2>1, <2>2
<1>6. 1 \in DOMAIN parts => i.first = parts[1]
  BY <1>1, <1>2 DEF Collects
<1>7. Collects(i, w)
  <2> HIDE DEF parts
  <2>1. \A n \in DOMAIN i.parts : Fits(i.parts[n], i, w)
    BY <1>2, <1>4
  <2>2. \A n, k \in DOMAIN i.parts :
          (i.parts[n].resp <=> i.parts[k].resp) => i.parts[n] = i.parts[k]
    BY <1>2, <1>5
  <2> QED BY <1>2, <1>6, <2>1, <2>2 DEF Collects
<1> QED BY <1>2, <1>7 DEF i

WholeChain(c) ==
  \A n \in DOMAIN c.parts :
    LET m == c.parts[n]
    IN  /\ DOMAIN c.parts = Fragments(m)
        /\ c.parts[1] = c.first
        /\ \A k \in DOMAIN c.parts :
             LET o == c.parts[k]
             IN  o = m \/ (o.resp # m.resp /\ o.sa = m.sa /\ o.id = m.id /\ o.total = m.total)

LEMMA NoChainWhole == WholeChain(NoChain)
  BY DEF WholeChain, NoChain

\* A reassembler that has all the numbers up to its total has a whole chain.
LEMMA CollectedWhole ==
  ASSUME NEW w, NEW r, Collects(r, w), DOMAIN r.parts = 1 .. r.total
  PROVE  WholeChain([first |-> r.first, parts |-> r.parts])
<1> DEFINE parts == r.parts
<1> SUFFICES ASSUME NEW n \in DOMAIN parts
             PROVE  /\ DOMAIN parts = Fragments(parts[n])
                    /\ parts[1] = r.first
                    /\ \A k \in DOMAIN parts :
                         \/ parts[k] = parts[n]
                         \/ /\ parts[k].resp # parts[n].resp /\ parts[k].sa = parts[n].sa
                            /\ parts[k].id = parts[n].id /\ parts[k].total = parts[n].total
  BY DEF WholeChain
<1>1. \A k \in DOMAIN parts :
        /\ parts[k].sa = w.sa /\ parts[k].id = r.id /\ parts[k].total = r.total /\ r.total \in Nat
  BY DEF Collects, Fits
<1>2. DOMAIN parts = Fragments(parts[n])
  BY <1>1 DEF Fragments
<1>3. 1 \in DOMAIN parts
  BY <1>1
<1>4. parts[1] = r.first
  BY <1>3 DEF Collects
<1>5. \A k \in DOMAIN parts : parts[k].resp = parts[n].resp => parts[k] = parts[n]
  BY DEF Collects
<1> QED BY <1>1, <1>2, <1>4, <1>5

LEMMA OpenedCollects ==
  ASSUME NEW w, WireInv(w), NEW m, Arriving(m, w), NEW number
  PROVE  LET o == Opened(w.reassembler, m, number)
         IN  /\ Collects(o.reassembler, w)
             /\ WholeChain(o.chain)
             /\ o.chain # NoChain /\ m.resp =>
                  \A n \in DOMAIN o.reassembler.parts : ~o.reassembler.parts[n].resp
<1> DEFINE r == w.reassembler
           s == Inserted(r, m, number)
<1>0. IsWire(w) /\ Placed(w) /\ Collects(r, w)
  BY DEF WireInv
<1>1. CASE m.total = 1
  <2>1. Opened(r, m, number) = [reassembler |-> r, chain |-> [first |-> m, parts |-> <<m>>]]
    BY <1>1 DEF Opened
  <2>2. WholeChain([first |-> m, parts |-> <<m>>])
    BY <1>1 DEF WholeChain, Fragments
  <2>3. ASSUME m.resp, NEW n \in DOMAIN r.parts PROVE ~r.parts[n].resp
    <3>1. m = w.answer
      BY <2>3 DEF Arriving, WireInv, Placed
    <3>2. r.parts[n].total # 1 /\ (r.parts[n].resp => r.parts[n] = w.answer)
      BY <1>0 DEF Collects, Fits
    <3> QED BY <3>1, <3>2, <1>1
  <2> QED BY <1>0, <2>1, <2>2, <2>3
<1>2. CASE m.total # 1
  <2>1. Collects(s, w) /\ s.total = m.total
    BY <1>0, <1>2, InsertedCollects
  <2> HIDE DEF s
  <2>2. Opened(r, m, number) = Added(r, m, number)
    BY <1>2 DEF Opened
  <2> HIDE DEF r
  <2>3. Added(r, m, number) =
          CASE ~Numbered(m, number) -> [reassembler |-> r, chain |-> NoChain]
            [] DOMAIN s.parts # 1 .. m.total -> [reassembler |-> s, chain |-> NoChain]
            [] OTHER -> [reassembler |-> EmptyReassembler,
                         chain |-> [first |-> s.first, parts |-> s.parts]]
    BY DEF Added, s
  <2> DEFINE o == Opened(r, m, number)
  <2>4. \/ o.reassembler = r /\ o.chain = NoChain
        \/ o.reassembler = s /\ o.chain = NoChain
        \/ /\ Numbered(m, number) /\ DOMAIN s.parts = 1 .. m.total
           /\ o.reassembler = EmptyReassembler
           /\ o.chain = [first |-> s.first, parts |-> s.parts]
    BY <2>2, <2>3
  <2> HIDE DEF o
  <2>5. CASE o.chain = NoChain /\ (o.reassembler = r \/ o.reassembler = s)
    BY <1>0, <2>1, <2>5, NoChainWhole DEF o, r
  <2>6. CASE /\ DOMAIN s.parts = 1 .. m.total /\ o.reassembler = EmptyReassembler
             /\ o.chain = [first |-> s.first, parts |-> s.parts]
    <3>1. WholeChain(o.chain)
      BY <2>1, <2>6, CollectedWhole
    <3>2. Collects(o.reassembler, w) /\ DOMAIN o.reassembler.parts = {}
      BY <2>6, EmptyCollects DEF EmptyReassembler
    <3> QED BY <3>1, <3>2 DEF o, r
  <2> QED BY <2>4, <2>5, <2>6 DEF o, r
<1> QED BY <1>1, <1>2

\* The wire with the reassembler the datagram leaves.
Received(w, r) == [w EXCEPT !.reassembler = r]

LEMMA ReceivedKeeps ==
  ASSUME NEW w, WireInv(w), NEW r, Collects(r, w)
  PROVE  LET v == Received(w, r)
         IN  WireInv(v) /\ v.answer = w.answer /\ v.order = w.order /\ v.reassembler = r
<1> DEFINE v == Received(w, r)
<1>1. /\ IsWire(v) /\ v.sa = w.sa /\ v.id = w.id /\ v.peerId = w.peerId /\ v.answer = w.answer
      /\ v.order = w.order /\ v.old = w.old /\ v.reassembler = r
  BY DEF Received, WireInv, IsWire
<1> HIDE DEF v
<1>2. Placed(v)
  BY <1>1 DEF WireInv, Placed
<1>3. Collects(r, v)
  BY <1>1 DEF Collects, Fits
<1> QED BY <1>1, <1>2, <1>3 DEF WireInv, v

LEMMA AnsweredKeeps ==
  ASSUME NEW w, WireInv(w), NoPartOfAnswer(w)
  PROVE  WireInv(Answered(w)) /\ WireInv(Asked(Answered(w)))
<1>1. ASSUME NEW v, IsWire(v), v.sa = w.sa, v.id = w.id + 1, v.peerId = w.peerId,
             v.answer = NoMessage, v.order = w.order, v.old = w.old,
             v.reassembler = w.reassembler
      PROVE  WireInv(v)
  <2>1. Placed(v)
    BY <1>1 DEF WireInv, Placed
  <2>2. Collects(w.reassembler, v)
    BY <1>1 DEF WireInv, Collects, Fits, NoPartOfAnswer
  <2> QED BY <1>1, <2>1, <2>2 DEF WireInv
<1>2. /\ IsWire(Answered(w)) /\ Answered(w).sa = w.sa /\ Answered(w).id = w.id + 1
      /\ Answered(w).peerId = w.peerId /\ Answered(w).answer = NoMessage
      /\ Answered(w).order = w.order /\ Answered(w).old = w.old
      /\ Answered(w).reassembler = w.reassembler
  BY DEF Answered, WireInv, IsWire
<1> DEFINE a == Answered(w)
<1> HIDE DEF a
<1>3. /\ IsWire(Asked(a)) /\ Asked(a).sa = a.sa /\ Asked(a).id = a.id
      /\ Asked(a).peerId = a.peerId /\ Asked(a).answer = a.answer /\ Asked(a).order = a.order
      /\ Asked(a).old = a.old /\ Asked(a).reassembler = a.reassembler
  BY <1>2 DEF Asked, IsWire, a
<1> QED BY <1>1, <1>2, <1>3 DEF a

LEMMA AskedKeeps == ASSUME NEW w, WireInv(w) PROVE WireInv(Asked(w))
<1> DEFINE v == Asked(w)
<1>1. /\ IsWire(v) /\ v.sa = w.sa /\ v.id = w.id /\ v.peerId = w.peerId /\ v.answer = w.answer
      /\ v.order = w.order /\ v.old = w.old /\ v.reassembler = w.reassembler
  BY DEF Asked, WireInv, IsWire
<1> HIDE DEF v
<1> QED BY <1>1 DEF WireInv, Placed, Collects, Fits, v

LEMMA TakenKeeps ==
  ASSUME NEW w, WireInv(w), NEW m, m = w.order, m # NoMessage
  PROVE  WireInv(Taken(m, w))
<1> DEFINE v == Taken(m, w)
<1>1. /\ IsWire(v) /\ v.sa = w.sa /\ v.id = w.id /\ v.peerId = w.peerId + 1 /\ v.answer = w.answer
      /\ v.order = NoMessage /\ v.old = m /\ v.reassembler = w.reassembler
  BY DEF Taken, WireInv, IsWire
<1> HIDE DEF v
<1>2. Placed(v)
  BY <1>1 DEF WireInv, Placed, IsWire
<1>3. ASSUME NEW n \in DOMAIN w.reassembler.parts
      PROVE  Fits(w.reassembler.parts[n], w.reassembler, v)
  BY <1>1 DEF WireInv, Collects, Fits, Placed, IsWire
<1>4. Collects(w.reassembler, v)
  BY <1>3 DEF WireInv, Collects
<1> QED BY <1>1, <1>2, <1>4 DEF WireInv, v

LEMMA SwitchKeeps == ASSUME NEW w, WireInv(w) PROVE WireInv(SwitchIke(w))
<1> DEFINE v == SwitchIke(w)
<1>1. /\ IsWire(v) /\ v.answer = NoMessage /\ v.order = NoMessage /\ v.old = NoMessage
      /\ v.reassembler = EmptyReassembler
  BY DEF SwitchIke, WireInv, IsWire
<1> HIDE DEF v
<1> QED BY <1>1, EmptyCollects DEF WireInv, Placed, v

LEMMA NextKeeps == ASSUME NEW w, WireInv(w) PROVE WireInv([w EXCEPT !.next = TRUE])
<1> DEFINE v == [w EXCEPT !.next = TRUE]
<1>1. /\ IsWire(v) /\ v.sa = w.sa /\ v.id = w.id /\ v.peerId = w.peerId /\ v.answer = w.answer
      /\ v.order = w.order /\ v.old = w.old /\ v.reassembler = w.reassembler
  BY DEF WireInv, IsWire
<1> HIDE DEF v
<1> QED BY <1>1 DEF WireInv, Placed, Collects, Fits, v

LEMMA NewWireInv == WireInv(NewWire)
<1>1. IsWire(NewWire) /\ Placed(NewWire)
  BY DEF NewWire, IsWire, Placed
<1>2. NewWire.reassembler = EmptyReassembler
  BY DEF NewWire
<1> QED BY <1>1, <1>2, EmptyCollects DEF WireInv

LEMMA AnswersOf ==
  ASSUME NEW w, IsWire(w)
  PROVE  /\ Answered(w).answer = NoMessage /\ Asked(Answered(w)).answer = NoMessage
         /\ Asked(w).answer = w.answer /\ SwitchIke(w).answer = NoMessage
         /\ [w EXCEPT !.next = TRUE].answer = w.answer
         /\ \A m : Taken(m, w).answer = w.answer
  BY DEF IsWire, Answered, Asked, SwitchIke, Taken

-----------------------------------------------------------------------------
(* The steps.                                                              *)

Inv == EapInv /\ WireInv(wire) /\ WholeMessages

LEMMA ClosesKeeps ==
  ASSUME Inv, Closes, UNCHANGED <<knows, claimed>> PROVE EapInv' /\ WireInv(wire)'
<1>1. wire' = NewWire /\ IsPeer(peer') /\ peer'.msk = 0
  BY NewPeerIsPeer DEF Closes
<1>2. NewWire.answer = NoMessage
  BY DEF NewWire
<1> QED BY <1>1, <1>2, NewWireInv DEF Inv, EapInv, Honest, KeyProven, ClaimProven

\* A step that leaves the conversation alone and keeps the gateway's answer, or
\* drops it.
LEMMA WireStep ==
  ASSUME Inv, NEW w, WireInv(w), w.answer \in {NoMessage, wire.answer},
         wire' = w, UNCHANGED <<peer, knows, claimed>>
  PROVE  EapInv' /\ WireInv(wire)'
  BY DEF Inv, EapInv, Honest, KeyProven, ClaimProven

LEMMA ResponseKeeps ==
  ASSUME Inv, NEW w, WireInv(w), NoPartOfAnswer(w), wire.answer # NoMessage,
         TakeResponse(wire.answer, w), UNCHANGED knows
  PROVE  EapInv' /\ WireInv(wire)'
<1> DEFINE m == wire.answer
<1>0. /\ WireInv(Answered(w)) /\ WireInv(Asked(Answered(w)))
      /\ Answered(w).answer = NoMessage /\ Asked(Answered(w)).answer = NoMessage
  BY AnsweredKeeps, AnswersOf DEF WireInv
<1>1. CASE EapRound(m, w)
  <2> DEFINE r == Handle(peer, m.body)
  <2>1. /\ IsPeer(r.peer) /\ (r.peer.msk # 0 => knows)
        /\ r.step = "success" /\ (peer.method = "mschapv2" \/ peer.challenge # 0) => knows
    BY HandleProves DEF Inv, EapInv, Honest, KeyProven
  <2> HIDE DEF r
  <2>2. CASE Ends /\ UNCHANGED claimed
    BY <2>2, ClosesKeeps DEF Ends
  <2>3. CASE peer' = r.peer /\ wire' = Asked(Answered(w)) /\ UNCHANGED claimed
    BY <2>1, <2>3, <1>0 DEF Inv, EapInv, Honest, KeyProven, ClaimProven
  <2>4. CASE /\ peer' = r.peer /\ wire' = Asked(Answered(w)) /\ r.step = "success"
             /\ claimed' = (peer.method = "mschapv2" \/ peer.challenge # 0)
    BY <2>1, <2>4, <1>0 DEF Inv, EapInv, Honest, KeyProven, ClaimProven
  <2> QED BY <1>1, <2>2, <2>3, <2>4 DEF EapRound, r
<1>2. CASE FinalAuth(m, w)
  <2>1. CASE Ends /\ UNCHANGED claimed
    BY <2>1, ClosesKeeps DEF Ends
  <2>2. CASE peer' = NewPeer(settings.method) /\ wire' = Answered(w) /\ UNCHANGED claimed
    BY <2>2, <1>0, NewPeerIsPeer DEF Inv, EapInv, Honest, KeyProven, ClaimProven
  <2> QED BY <1>2, <2>1, <2>2 DEF FinalAuth, ChildFrom
<1>3. CASE Alive(w)
  BY <1>3, <1>0, WireStep DEF Alive
<1> QED BY <1>1, <1>2, <1>3 DEF TakeResponse

LEMMA RequestKeeps ==
  ASSUME Inv, NEW v, WireInv(v), v.answer = wire.answer, NEW m, TakeRequest(m, v),
         UNCHANGED knows
  PROVE  EapInv' /\ WireInv(wire)'
<1>1. CASE wire' = v /\ UNCHANGED <<peer, claimed>>
  BY <1>1, WireStep
<1>2. CASE Ended(v) /\ UNCHANGED claimed
  <2>1. CASE wire' = SwitchIke(v) /\ UNCHANGED peer
    BY <1>2, <2>1, SwitchKeeps, AnswersOf, WireStep DEF WireInv
  <2>2. CASE Closes
    BY <1>2, <2>2, ClosesKeeps
  <2> QED BY <1>2, <2>1, <2>2 DEF Ended
<1>3. CASE wire' = [v EXCEPT !.next = TRUE] /\ UNCHANGED <<peer, claimed>>
  BY <1>3, NextKeeps, AnswersOf, WireStep DEF WireInv
<1>4. CASE OnInformational(m, v) /\ UNCHANGED claimed
  BY <1>1, <1>2, <1>4 DEF OnInformational
<1>5. CASE OnCreateChildSa(m, v) /\ UNCHANGED claimed
  BY <1>1, <1>3, <1>5 DEF OnCreateChildSa, OnIkeRekey, OnChildRekey, Refuse
<1> QED BY <1>4, <1>5 DEF TakeRequest

LEMMA DatagramKeeps ==
  ASSUME Inv, NEW m, Arriving(m, wire), NEW number, Datagram(m, number),
         UNCHANGED <<knows>>
  PROVE  Inv'
<1> DEFINE o == Opened(wire.reassembler, m, number)
           w == Received(wire, o.reassembler)
<1>1. /\ Collects(o.reassembler, wire) /\ WholeChain(o.chain)
      /\ o.chain # NoChain /\ m.resp =>
           \A n \in DOMAIN o.reassembler.parts : ~o.reassembler.parts[n].resp
  BY OpenedCollects DEF Inv
<1> HIDE DEF o
<1>2. WireInv(w) /\ w.answer = wire.answer /\ w.order = wire.order /\ w.reassembler = o.reassembler
  BY <1>1, ReceivedKeeps DEF Inv
<1>3. m = wire.answer => m.resp
  BY DEF Inv, WireInv, Placed, Arriving
<1>4. m = wire.answer /\ o.chain # NoChain => NoPartOfAnswer(w)
  BY <1>1, <1>2, <1>3 DEF NoPartOfAnswer
<1>5. m = wire.order => WireInv(Taken(m, w)) /\ Taken(m, w).answer = wire.answer
  BY <1>2, TakenKeeps, AnswersOf DEF Arriving, WireInv
<1>6. chain' = o.chain
  BY DEF Datagram, o
<1>7. WholeMessages'
  BY <1>1, <1>6 DEF WholeMessages, WholeChain
<1> HIDE DEF w
<1>8. CASE wire' = w /\ UNCHANGED <<peer, claimed>>
  BY <1>8, <1>2, <1>7, WireStep DEF Inv
<1>9. CASE o.chain # NoChain /\ m = wire.answer /\ TakeResponse(m, w)
  BY <1>9, <1>2, <1>4, <1>7, ResponseKeeps DEF Inv, Arriving
<1>10. CASE m = wire.order /\ TakeRequest(m, Taken(m, w))
  BY <1>10, <1>5, <1>7, RequestKeeps DEF Inv
<1>11. CASE Ends /\ UNCHANGED claimed
  BY <1>11, <1>7, ClosesKeeps DEF Inv, Ends
<1>12. CASE o.chain # NoChain /\ m = wire.answer /\ Alive(w)
  BY <1>12, <1>9 DEF TakeResponse
<1>13. CASE m = wire.order /\ Refuse(Taken(m, w)) /\ UNCHANGED claimed
  BY <1>13, <1>5, <1>7, WireStep DEF Inv, Refuse
<1> QED BY <1>8, <1>9, <1>10, <1>11, <1>12, <1>13 DEF Datagram, o, w, Received

\* The gateway sends: an answer at the client's id, with a proof only if it
\* knows the password, or a request at the id expected.
LEMMA GatewayKeeps ==
  ASSUME Inv, GatewayAnswers \/ GatewayOrders PROVE EapInv' /\ WireInv(wire)'
<1>0. IsWire(wire) /\ Placed(wire) /\ Collects(wire.reassembler, wire) /\ EapInv
      /\ UNCHANGED <<peer, knows, claimed>>
  BY DEF Inv, WireInv, GatewayAnswers, GatewayOrders, SameRest
<1>1. CASE GatewayAnswers
  <2>1. PICK total \in Totals, body \in (CASE phase = "auth" -> EapPackets
                                           [] phase = "final" -> AuthPackets
                                           [] OTHER -> {Plain("done")}) :
          wire' = [wire EXCEPT !.answer = Message(wire.sa, wire.id, TRUE, total, body)]
    BY <1>1 DEF GatewayAnswers
  <2>2. body \in EapPackets \/ body \in AuthPackets \/ body = Plain("done")
    BY <2>1
  <2>3. body.proof # 0 => knows
    BY <2>2 DEF EapPackets, AuthPackets, Packet, Plain, MschapPacket
  <2> DEFINE v == wire'
             a == Message(wire.sa, wire.id, TRUE, total, body)
  <2>4. /\ IsWire(v) /\ v.sa = wire.sa /\ v.id = wire.id /\ v.peerId = wire.peerId
        /\ v.order = wire.order /\ v.old = wire.old /\ v.reassembler = wire.reassembler
        /\ v.answer = a
    BY <2>1, <1>0 DEF IsWire
  <2>5. a.sa = v.sa /\ a.id = v.id /\ a.resp /\ a.total \in Nat \ {0} /\ a.body = body
    BY <2>4, TotalsAssumption DEF Message
  <2> HIDE DEF v, a
  <2>6. Placed(v)
    BY <2>4, <2>5, <1>0 DEF Placed
  <2>7. \A n \in DOMAIN wire.reassembler.parts : ~wire.reassembler.parts[n].resp
    BY <1>0, <1>1 DEF Collects, Fits, GatewayAnswers
  <2>8. Collects(v.reassembler, v)
    BY <2>4, <2>7, <1>0 DEF Collects, Fits
  <2>9. WireInv(v) /\ Honest(v)
    BY <2>3, <2>4, <2>5, <2>6, <2>8 DEF WireInv, Honest
  <2> QED BY <2>9, <1>0 DEF EapInv, Honest, KeyProven, ClaimProven, v
<1>2. CASE GatewayOrders
  <2>1. PICK total \in Totals,
             code \in {"dpd", "ike", "child", "other", "delete", "deleteChild"} :
          wire' = [wire EXCEPT !.order = Message(wire.sa, wire.peerId, FALSE, total, Plain(code))]
    BY <1>2 DEF GatewayOrders
  <2> DEFINE v == wire'
             a == Message(wire.sa, wire.peerId, FALSE, total, Plain(code))
  <2>4. /\ IsWire(v) /\ v.sa = wire.sa /\ v.id = wire.id /\ v.peerId = wire.peerId
        /\ v.answer = wire.answer /\ v.old = wire.old /\ v.reassembler = wire.reassembler
        /\ v.order = a
    BY <2>1, <1>0 DEF IsWire
  <2>5. a.sa = v.sa /\ a.id = v.peerId /\ ~a.resp /\ a.total \in Nat \ {0}
    BY <2>4, TotalsAssumption DEF Message
  <2> HIDE DEF v, a
  <2>6. Placed(v)
    BY <2>4, <2>5, <1>0 DEF Placed
  <2>7. wire.order = NoMessage
    BY <1>2 DEF GatewayOrders
  <2>8. Collects(v.reassembler, v)
    BY <2>4, <2>7, <1>0 DEF Collects, Fits
  <2>9. WireInv(v) /\ v.answer = wire.answer
    BY <2>4, <2>6, <2>8 DEF WireInv
  <2> QED BY <2>9, <1>0, WireStep DEF v
<1> QED BY <1>1, <1>2

LEMMA InitInv == Init => Inv
<1> SUFFICES ASSUME Init PROVE Inv
  OBVIOUS
<1>1. IsPeer(peer) /\ peer.msk = 0 /\ wire = NewWire /\ knows \in BOOLEAN /\ claimed = FALSE
  BY NewPeerIsPeer DEF Init
<1>2. wire.answer = NoMessage
  BY <1>1 DEF NewWire
<1>3. WholeMessages
  BY DEF Init, WholeMessages, NoChain
<1> QED BY <1>1, <1>2, <1>3, NewWireInv DEF Inv, EapInv, Honest, KeyProven, ClaimProven

LEMMA StepInv == Inv /\ [Next]_vars => Inv'
<1> SUFFICES ASSUME Inv, [Next]_vars PROVE Inv'
  OBVIOUS
<1>1. CASE UNCHANGED vars
  BY <1>1 DEF vars, dataVars, Inv, EapInv, IsPeer, Honest, KeyProven, ClaimProven, WireInv,
     IsWire, Placed, Collects, IsReassembler, Fits, WholeMessages
<1>2. CASE DatagramArrives
  BY <1>2, DatagramKeeps DEF DatagramArrives, Arriving
<1>3. ASSUME NoMessageDone PROVE WholeMessages'
  BY <1>3 DEF NoMessageDone, NoChain, WholeMessages
<1>4. CASE NoMessageDone /\ Closes /\ SameRest
  BY <1>3, <1>4, ClosesKeeps DEF SameRest, Inv
<1>5. CASE BadSettings \/ GivesUp
  BY <1>4, <1>5 DEF BadSettings, GivesUp, Ends
<1>6. CASE GatewayAnswers \/ GatewayOrders
  BY <1>3, <1>6, GatewayKeeps DEF GatewayAnswers, GatewayOrders, Inv
<1>7. CASE InitResponse
  <2>1. CASE Ends
    BY <1>4, <1>7, <2>1 DEF InitResponse, Ends
  <2>2. CASE wire' = [wire EXCEPT !.waiting = "yes"] /\ UNCHANGED peer
    BY <1>3, <1>7, <2>2, AskedKeeps, AnswersOf, WireStep
       DEF InitResponse, SameRest, Asked, Inv, WireInv
  <2> QED BY <1>7, <2>1, <2>2 DEF InitResponse, AcceptInit
<1>8. CASE Asks
  BY <1>3, <1>8, AskedKeeps, AnswersOf, WireStep DEF Asks, SameRest, Inv, WireInv
<1>9. CASE NoMessageDone /\ SameRest /\ UNCHANGED <<wire, peer>>
  BY <1>3, <1>9, WireStep DEF SameRest, Inv
<1>10. CASE RekeyChild
  BY <1>4, <1>9, <1>10 DEF RekeyChild, ChildFrom, Ends
<1>11. CASE Traffic
  BY <1>9, <1>11 DEF Traffic
<1> QED BY <1>1, <1>2, <1>5, <1>6, <1>7, <1>8, <1>10, <1>11 DEF Next

\* Once MSCHAPv2 was wanted or under way, only a gateway that knows the password
\* gets the client to bring the tunnel up, for any number of rounds, challenges
\* and methods: eap::Peer and the end of ike_auth.
THEOREM GatewayProven == Spec => []ProvenGateway
<1>1. Inv => ProvenGateway
  BY DEF Inv, EapInv, ClaimProven, ProvenGateway
<1> QED BY <1>1, InitInv, StepInv, PTL DEF Spec

\* What the reassembler hands on is all of one message, for any number and size
\* of messages and any order and repetition of fragments, but for a request and
\* a response with the same id and number of fragments: Reassembler::add, with
\* its reset in switch_ike.
THEOREM MessagesWhole == Spec => []WholeMessages
<1>1. Inv => WholeMessages
  BY DEF Inv
<1> QED BY <1>1, InitInv, StepInv, PTL DEF Spec

-----------------------------------------------------------------------------
(* The algorithms.                                                         *)

LEMMA LeastIs ==
  ASSUME NEW M \in SUBSET Nat, M # {}
  PROVE  Min(M) \in M
<1>1. \E m \in M : \A k \in M : m <= k
  BY LeastNatural
<1> QED
  BY <1>1 DEF Min

LEMMA GreatestIs ==
  ASSUME NEW n \in Nat, NEW M \in SUBSET (1 .. n), M # {}
  PROVE  Max(M) \in M
<1> DEFINE D == {k \in Nat : n - k \in M}
<1>1. D # {} /\ D \in SUBSET Nat
  <2>1. PICK m \in M : TRUE
    OBVIOUS
  <2>2. m \in 1 .. n
    OBVIOUS
  <2>3. n - m \in Nat /\ n - (n - m) = m
    BY <2>2
  <2> QED
    BY <2>3
<1>2. PICK d \in D : \A k \in D : d <= k
  <2> HIDE DEF D
  <2> QED
    BY <1>1, LeastNatural
<1>3. n - d \in M /\ d \in Nat
  OBVIOUS
<1>4. ASSUME NEW m \in M PROVE n - d >= m
  <2>1. m \in 1 .. n
    OBVIOUS
  <2>2. n - m \in Nat /\ n - (n - m) = m
    BY <2>1
  <2>3. n - m \in D
    BY <2>2
  <2>4. d <= n - m
    BY <1>2, <2>3
  <2> QED
    BY <1>3, <2>1, <2>4
<1>5. \E x \in M : \A y \in M : x >= y
  BY <1>3, <1>4
<1> QED
  BY <1>5 DEF Max

\* A part of a spec is one of its words, or the default.
LEMMA PartIs ==
  ASSUME NEW W, NEW spec \in Seq(W), NEW kind, NEW default, Part(spec, kind, default) # default
  PROVE  \E w \in W : w.kind = kind /\ Part(spec, kind, default) = w.is
<1> DEFINE I == {i \in 1 .. Len(spec) : spec[i].kind = kind}
           i == SelectLastInSeq(spec, LAMBDA w : w.kind = kind)
<1>1. i = IF I # {} THEN Max(I) ELSE 0
  BY DEF SelectLastInSeq
<1>2. Part(spec, kind, default) = IF i = 0 THEN default ELSE spec[i].is
  BY DEF Part
<1> HIDE DEF i
<1>3. I # {}
  BY <1>1, <1>2
<1>4. Max(I) \in I
  <2>1. Len(spec) \in Nat /\ I \in SUBSET (1 .. Len(spec))
    OBVIOUS
  <2> HIDE DEF I
  <2> QED
    BY <1>3, <2>1, GreatestIs
<1>5. i \in 1 .. Len(spec) /\ spec[i].kind = kind
  BY <1>1, <1>3, <1>4
<1> QED
  BY <1>2, <1>5

\* What the settings make of a spec: one of their ciphers, and an integrity
\* algorithm unless the cipher brings its own.
IsSet(set, s) ==
  /\ set = AlgorithmSet(set.cipher, set.prf, set.integrity, set.group)
  /\ set.cipher \in CiphersOf(s)
  /\ set.cipher.aead => set.integrity = None

LEMMA CipherIs ==
  ASSUME NEW s, NEW spec \in Seq(WordsOf(s)), Part(spec, "cipher", NoCipher) # NoCipher
  PROVE  Part(spec, "cipher", NoCipher) \in CiphersOf(s)
<1>1. PICK w \in WordsOf(s) : w.kind = "cipher" /\ Part(spec, "cipher", NoCipher) = w.is
  BY PartIs
<1> QED
  BY <1>1 DEF CiphersOf

LEMMA SpecIs ==
  ASSUME NEW s, NEW spec \in Seq(WordsOf(s))
  PROVE  /\ IkeSet(spec) # NoSet => IsSet(IkeSet(spec), s)
         /\ EspSet(spec) # NoSet => IsSet(EspSet(spec), s) /\ EspSet(spec).prf = None
<1>1. PICK cipher : cipher = Part(spec, "cipher", NoCipher)
  OBVIOUS
<1>2. cipher # NoCipher => cipher \in CiphersOf(s)
  BY <1>1, CipherIs
<1>3. ASSUME NEW prf, NEW integrity, NEW group, cipher # NoCipher
      PROVE  IsSet(AlgorithmSet(cipher, prf, IF cipher.aead THEN None ELSE integrity, group), s)
  BY <1>2, <1>3 DEF IsSet, AlgorithmSet
<1>4. ASSUME IkeSet(spec) # NoSet PROVE IsSet(IkeSet(spec), s)
  <2>1. cipher # NoCipher
    BY <1>1, <1>4 DEF IkeSet
  <2>2. \E prf, integrity, group :
          IkeSet(spec) = AlgorithmSet(cipher, prf, IF cipher.aead THEN None ELSE integrity, group)
    BY <1>1, <1>4 DEF IkeSet
  <2> QED
    BY <1>3, <2>1, <2>2
<1>5. ASSUME EspSet(spec) # NoSet PROVE IsSet(EspSet(spec), s) /\ EspSet(spec).prf = None
  <2>1. cipher # NoCipher
    BY <1>1, <1>5 DEF EspSet
  <2>2. \E integrity, group :
          EspSet(spec) = AlgorithmSet(cipher, None, IF cipher.aead THEN None ELSE integrity, group)
    BY <1>1, <1>5 DEF EspSet
  <2>3. IsSet(EspSet(spec), s)
    BY <1>3, <2>1, <2>2
  <2>4. EspSet(spec).prf = None
    BY <2>2 DEF AlgorithmSet
  <2> QED
    BY <2>3, <2>4
<1> QED
  BY <1>4, <1>5

\* The sets of the settings, as sequences.
LEMMA SetsAre ==
  ASSUME NEW s \in Settings
  PROVE  /\ ParseIke(s.ike) \in Seq({IkeSet(s.ike[i]) : i \in DOMAIN s.ike})
         /\ ParseEsp(s.esp) \in Seq({EspSet(s.esp[i]) : i \in DOMAIN s.esp})
         /\ DOMAIN ParseIke(s.ike) = DOMAIN s.ike /\ DOMAIN ParseEsp(s.esp) = DOMAIN s.esp
         /\ \A i \in DOMAIN s.ike :
              /\ ParseIke(s.ike)[i] = IkeSet(s.ike[i])
              /\ IkeSet(s.ike[i]) # NoSet => IsSet(IkeSet(s.ike[i]), s)
         /\ \A i \in DOMAIN s.esp :
              /\ ParseEsp(s.esp)[i] = EspSet(s.esp[i])
              /\ EspSet(s.esp[i]) # NoSet =>
                   IsSet(EspSet(s.esp[i]), s) /\ EspSet(s.esp[i]).prf = None
<1>1. s.ike \in Seq(Seq(WordsOf(s))) /\ s.esp \in Seq(Seq(WordsOf(s)))
  BY SettingsAssumption
<1>2. /\ \A i \in DOMAIN s.ike : s.ike[i] \in Seq(WordsOf(s))
      /\ \A i \in DOMAIN s.esp : s.esp[i] \in Seq(WordsOf(s))
  BY <1>1
<1>3. ASSUME NEW q \in Seq(Seq(WordsOf(s)))
      PROVE  /\ [i \in DOMAIN q |-> IkeSet(q[i])] \in Seq({IkeSet(q[i]) : i \in DOMAIN q})
             /\ [i \in DOMAIN q |-> EspSet(q[i])] \in Seq({EspSet(q[i]) : i \in DOMAIN q})
  <2>1. DOMAIN q = 1 .. Len(q) /\ Len(q) \in Nat
    OBVIOUS
  <2> QED
    BY <2>1
<1>4. /\ ParseIke(s.ike) \in Seq({IkeSet(s.ike[i]) : i \in DOMAIN s.ike})
      /\ ParseEsp(s.esp) \in Seq({EspSet(s.esp[i]) : i \in DOMAIN s.esp})
  BY <1>1, <1>3 DEF ParseIke, ParseEsp
<1>5. /\ \A i \in DOMAIN s.ike : IkeSet(s.ike[i]) # NoSet => IsSet(IkeSet(s.ike[i]), s)
      /\ \A i \in DOMAIN s.esp : EspSet(s.esp[i]) # NoSet =>
           IsSet(EspSet(s.esp[i]), s) /\ EspSet(s.esp[i]).prf = None
  BY <1>2, SpecIs
<1>6. /\ DOMAIN ParseIke(s.ike) = DOMAIN s.ike /\ DOMAIN ParseEsp(s.esp) = DOMAIN s.esp
      /\ \A i \in DOMAIN s.ike : ParseIke(s.ike)[i] = IkeSet(s.ike[i])
      /\ \A i \in DOMAIN s.esp : ParseEsp(s.esp)[i] = EspSet(s.esp[i])
  BY DEF ParseIke, ParseEsp
<1> QED
  BY <1>4, <1>5, <1>6

\* What select_ike and select_esp look for.
IkeMatch(p, set, group) ==
  /\ Permits(group, set.group) /\ OffersCipher(p, set)
  /\ Offers(p, "prf", set.prf, 0) /\ Offers(p, "group", set.group, 0)
HasGroup(p) == TransformsOf(p, "group") # {}
EspMatch(p, set, group) ==
  /\ OffersCipher(p, set)
  /\ HasGroup(p) => /\ set.group # None /\ Permits(group, set.group)
                    /\ Offers(p, "group", set.group, 0)

LEMMA IkeSelected ==
  ASSUME NEW S, NEW sets \in Seq(S), NEW p, NEW group, SelectIke(p, sets, group) # NoSet
  PROVE  /\ p.protocol = "ike" /\ ~p.foreign
         /\ \E j \in DOMAIN sets : SelectIke(p, sets, group) = sets[j] /\ IkeMatch(p, sets[j], group)
<1> DEFINE I == {j \in 1 .. Len(sets) :
                   /\ Permits(group, sets[j].group)
                   /\ OffersCipher(p, sets[j])
                   /\ Offers(p, "prf", sets[j].prf, 0)
                   /\ Offers(p, "group", sets[j].group, 0)}
           i == IF I # {} THEN Min(I) ELSE 0
<1>1. SelectIke(p, sets, group) =
        IF p.protocol # "ike" \/ p.foreign \/ i = 0 THEN NoSet ELSE sets[i]
  BY DEF SelectIke, SelectInSeq
<1>2. I \in SUBSET Nat /\ \A j \in I : j \in DOMAIN sets /\ IkeMatch(p, sets[j], group)
  BY DEF IkeMatch
<1> HIDE DEF I
<1>3. I # {} => Min(I) \in I
  BY <1>2, LeastIs
<1> QED
  BY <1>1, <1>2, <1>3

LEMMA EspSelected ==
  ASSUME NEW S, NEW sets \in Seq(S), NEW p, NEW group, SelectEsp(p, sets, group) # NoSet
  PROVE  /\ p.protocol = "esp" /\ ~p.foreign /\ p.spi
         /\ TransformsOf(p, "esn") # {} => Offers(p, "esn", "no", 0)
         /\ \E j \in DOMAIN sets :
              /\ SelectEsp(p, sets, group) =
                   [sets[j] EXCEPT !.group = IF HasGroup(p) THEN @ ELSE None]
              /\ EspMatch(p, sets[j], group)
<1> DEFINE I == {j \in 1 .. Len(sets) :
                   /\ OffersCipher(p, sets[j])
                   /\ HasGroup(p) => /\ sets[j].group # None /\ Permits(group, sets[j].group)
                                     /\ Offers(p, "group", sets[j].group, 0)}
           i == IF I # {} THEN Min(I) ELSE 0
           extended == TransformsOf(p, "esn") # {} /\ ~Offers(p, "esn", "no", 0)
<1>1. SelectEsp(p, sets, group) =
        IF p.protocol # "esp" \/ p.foreign \/ ~p.spi \/ extended \/ i = 0 THEN NoSet
        ELSE [sets[i] EXCEPT !.group = IF HasGroup(p) THEN @ ELSE None]
  BY DEF SelectEsp, SelectInSeq, HasGroup
<1>2. I \in SUBSET Nat /\ \A j \in I : j \in DOMAIN sets /\ EspMatch(p, sets[j], group)
  BY DEF EspMatch
<1> HIDE DEF I
<1>3. I # {} => Min(I) \in I
  BY <1>2, LeastIs
<1> QED
  BY <1>1, <1>2, <1>3

\* The choice from a proposal of our own is the set it was made of.
LEMMA OwnCipher ==
  ASSUME NEW s \in Settings, NEW a, NEW b, IsSet(a, s), IsSet(b, s), NEW p,
         \A t \in TransformsOf(p, "cipher") : t = Transform("cipher", a.cipher.id, a.cipher.bits),
         \A t \in TransformsOf(p, "integrity") : t \in Integrity(a),
         OffersCipher(p, b)
  PROVE  b.cipher = a.cipher /\ b.integrity = a.integrity
<1>1. /\ a.cipher \in CiphersOf(s) /\ b.cipher \in CiphersOf(s)
      /\ a.cipher \in [id : STRING, bits : Nat, aead : BOOLEAN]
      /\ b.cipher \in [id : STRING, bits : Nat, aead : BOOLEAN]
      /\ a.cipher.id = b.cipher.id =>
           a.cipher.aead = b.cipher.aead /\ (a.cipher.bits = 0 <=> b.cipher.bits = 0)
  BY SettingsAssumption DEF IsSet
<1>2. b.cipher.id = a.cipher.id /\ (b.cipher.bits = 0 \/ b.cipher.bits = a.cipher.bits)
  BY DEF OffersCipher, Offers, Transform
<1>3. b.cipher = a.cipher
  BY <1>1, <1>2
<1>4. CASE b.cipher.aead
  BY <1>3, <1>4 DEF IsSet
<1>5. CASE ~b.cipher.aead
  <2>1. PICK t \in TransformsOf(p, "integrity") : t.id = b.integrity
    BY <1>5 DEF OffersCipher, Offers
  <2>2. t = Transform("integrity", a.integrity, 0)
    BY <1>3, <1>5 DEF Integrity
  <2> QED
    BY <1>3, <2>1, <2>2 DEF Transform
<1> QED
  BY <1>3, <1>4, <1>5

LEMMA OwnIke ==
  ASSUME NEW s \in Settings, NEW a, NEW b, IsSet(a, s), IsSet(b, s), NEW group,
         IkeMatch(IkeProposal(a), b, group)
  PROVE  b = a
<1>1. PICK p : p = IkeProposal(a)
  OBVIOUS
<1>2. p.transforms = {Transform("cipher", a.cipher.id, a.cipher.bits),
                      Transform("prf", a.prf, 0), Transform("group", a.group, 0)}
                       \cup Integrity(a)
  BY <1>1 DEF IkeProposal, Proposal
<1>3. \A t \in Integrity(a) : t.kind = "integrity"
  BY DEF Integrity, Transform
<1>4. /\ \A t \in TransformsOf(p, "cipher") : t = Transform("cipher", a.cipher.id, a.cipher.bits)
      /\ \A t \in TransformsOf(p, "integrity") : t \in Integrity(a)
      /\ \A t \in TransformsOf(p, "prf") : t.id = a.prf
      /\ \A t \in TransformsOf(p, "group") : t.id = a.group
  BY <1>2, <1>3 DEF TransformsOf, Transform
<1>5. b.cipher = a.cipher /\ b.integrity = a.integrity
  BY <1>1, <1>4, OwnCipher DEF IkeMatch
<1>6. b.prf = a.prf /\ b.group = a.group
  BY <1>1, <1>4 DEF IkeMatch, Offers
<1> QED
  BY <1>5, <1>6 DEF IsSet

LEMMA OwnEsp ==
  ASSUME NEW s \in Settings, NEW a, NEW b, IsSet(a, s), IsSet(b, s), NEW group,
         NEW with \in BOOLEAN, EspMatch(EspProposal(a, with), b, group)
  PROVE  /\ b.cipher = a.cipher /\ b.integrity = a.integrity
         /\ HasGroup(EspProposal(a, with)) <=> with /\ a.group # None
         /\ HasGroup(EspProposal(a, with)) => b.group = a.group
<1>1. PICK p : p = EspProposal(a, with)
  OBVIOUS
<1>2. PICK groups : groups = IF with /\ a.group # None THEN {Transform("group", a.group, 0)} ELSE {}
  OBVIOUS
<1>3. p.transforms = {Transform("cipher", a.cipher.id, a.cipher.bits), Transform("esn", "no", 0)}
                       \cup Integrity(a) \cup groups
  BY <1>1, <1>2 DEF EspProposal, Proposal
<1>4. /\ \A t \in Integrity(a) : t.kind = "integrity"
      /\ \A t \in groups : t.kind = "group" /\ t.id = a.group
  BY <1>2 DEF Integrity, Transform
<1>5. /\ \A t \in TransformsOf(p, "cipher") : t = Transform("cipher", a.cipher.id, a.cipher.bits)
      /\ \A t \in TransformsOf(p, "integrity") : t \in Integrity(a)
      /\ TransformsOf(p, "group") = groups
  BY <1>3, <1>4 DEF TransformsOf, Transform
<1>6. b.cipher = a.cipher /\ b.integrity = a.integrity
  BY <1>1, <1>5, OwnCipher DEF EspMatch
<1>7. HasGroup(p) <=> with /\ a.group # None
  BY <1>2, <1>5 DEF HasGroup
<1>8. HasGroup(p) => b.group = a.group
  BY <1>1, <1>4, <1>5 DEF EspMatch, Offers
<1> QED
  BY <1>1, <1>6, <1>7, <1>8

\* An answer that is taken is a choice from one of our proposals.
LEMMA TakenIsChoice ==
  ASSUME NEW p, NEW set, NEW group
  PROVE  /\ p.protocol = "ike" /\ ~p.foreign /\ IkeMatch(p, set, group) =>
              Chooses(p, IkeProposal(set))
         /\ /\ p.protocol = "esp" /\ ~p.foreign /\ p.spi /\ EspMatch(p, set, group)
            /\ TransformsOf(p, "esn") # {} => Offers(p, "esn", "no", 0)
            => Chooses(p, EspProposal(set, TRUE))
<1>1. ASSUME NEW kind, NEW id, NEW bits, Offers(p, kind, id, bits)
      PROVE  Names(p, Transform(kind, id, bits))
  BY <1>1 DEF Offers, Names, TransformsOf, Transform
<1>2. ASSUME OffersCipher(p, set)
      PROVE  /\ Names(p, Transform("cipher", set.cipher.id, set.cipher.bits))
             /\ \A t \in Integrity(set) : Names(p, t)
  BY <1>1, <1>2 DEF OffersCipher, Integrity
<1>3. ASSUME p.protocol = "ike", ~p.foreign, IkeMatch(p, set, group)
      PROVE  Chooses(p, IkeProposal(set))
  <2>1. \A t \in IkeProposal(set).transforms : Names(p, t)
    BY <1>1, <1>2, <1>3 DEF IkeMatch, IkeProposal, Proposal
  <2> QED
    BY <1>3, <2>1 DEF Chooses, IkeProposal, Proposal
<1>4. ASSUME p.protocol = "esp", ~p.foreign, p.spi, EspMatch(p, set, group),
             TransformsOf(p, "esn") # {} => Offers(p, "esn", "no", 0)
      PROVE  Chooses(p, EspProposal(set, TRUE))
  <2> DEFINE t1 == Transform("cipher", set.cipher.id, set.cipher.bits)
             t2 == Transform("esn", "no", 0)
             t3 == Transform("group", set.group, 0)
             ts == EspProposal(set, TRUE).transforms
  <2>1. ts = {t1, t2} \cup Integrity(set) \cup (IF set.group # None THEN {t3} ELSE {})
    BY DEF EspProposal, Proposal
  <2>2. t2.kind = "esn" /\ t3.kind = "group"
    BY DEF Transform
  <2>3. Names(p, t1) /\ \A t \in Integrity(set) : Names(p, t)
    BY <1>2, <1>4 DEF EspMatch
  <2>4. Names(p, t2) \/ MayLeaveOut(p, t2.kind)
    BY <1>1, <1>4, <2>2 DEF MayLeaveOut
  <2>5. Names(p, t3) \/ MayLeaveOut(p, t3.kind)
    BY <1>1, <1>4, <2>2 DEF MayLeaveOut, EspMatch, HasGroup
  <2>6. HasGroup(p) => t3 \in ts
    BY <1>4, <2>1 DEF EspMatch
  <2>7. EspProposal(set, TRUE).protocol = "esp"
    BY DEF EspProposal, Proposal
  <2> HIDE DEF t1, t2, t3
  <2>8. \A t \in ts : Names(p, t) \/ MayLeaveOut(p, t.kind)
    BY <2>1, <2>3, <2>4, <2>5
  <2>9. HasGroup(p) => TransformsOf(EspProposal(set, TRUE), "group") # {}
    BY <2>2, <2>6 DEF TransformsOf
  <2> QED
    BY <1>4, <2>7, <2>8, <2>9 DEF Chooses, HasGroup
<1> QED
  BY <1>3, <1>4

\* What is taken from an offer was offered, key length and all.
WellFormed(p, s) ==
  \A t \in p.transforms :
    /\ t = Transform(t.kind, t.id, t.bits)
    /\ t.kind # "cipher" => t.bits = 0
    /\ \A c \in CiphersOf(s) : t.kind = "cipher" /\ t.id = c.id /\ c.bits = 0 => t.bits = 0

LEMMA OfferedTransforms ==
  ASSUME NEW s \in Settings, NEW set, IsSet(set, s), NEW p, WellFormed(p, s), OffersCipher(p, set)
  PROVE  /\ Transform("cipher", set.cipher.id, set.cipher.bits) \in p.transforms
         /\ Integrity(set) \subseteq p.transforms
         /\ \A kind, id : kind # "cipher" /\ Offers(p, kind, id, 0) =>
                            Transform(kind, id, 0) \in p.transforms
<1>1. PICK t \in p.transforms :
        /\ t.kind = "cipher" /\ t.id = set.cipher.id
        /\ set.cipher.bits = 0 \/ t.bits = set.cipher.bits
  BY DEF OffersCipher, Offers, TransformsOf
<1>2. t = Transform("cipher", set.cipher.id, set.cipher.bits)
  BY <1>1 DEF WellFormed, IsSet
<1>3. ASSUME NEW kind, NEW id, kind # "cipher", Offers(p, kind, id, 0)
      PROVE  Transform(kind, id, 0) \in p.transforms
  <2>1. PICK u \in p.transforms : u.kind = kind /\ u.id = id
    BY <1>3 DEF Offers, TransformsOf
  <2>2. u = Transform(kind, id, 0)
    BY <1>3, <2>1 DEF WellFormed
  <2> QED
    BY <2>2
<1>4. Integrity(set) \subseteq p.transforms
  BY <1>3 DEF Integrity, OffersCipher
<1> QED
  BY <1>1, <1>2, <1>3, <1>4

LEMMA OfferedIke ==
  ASSUME NEW s \in Settings, NEW set, IsSet(set, s), NEW p, WellFormed(p, s),
         NEW ke, ke # None, IkeMatch(p, set, ke)
  PROVE  Holds(p, IkeProposal(set), [set EXCEPT !.group = ke]) = set
<1>1. set.group = ke
  BY DEF IkeMatch, Permits
<1>2. [set EXCEPT !.group = ke] = set
  BY <1>1 DEF IsSet, AlgorithmSet
<1>3. /\ Transform("cipher", set.cipher.id, set.cipher.bits) \in p.transforms
      /\ Integrity(set) \subseteq p.transforms
      /\ Transform("prf", set.prf, 0) \in p.transforms
      /\ Transform("group", set.group, 0) \in p.transforms
  BY OfferedTransforms DEF IkeMatch
<1>4. \A t \in IkeProposal(set).transforms : t \in p.transforms
  BY <1>3 DEF IkeProposal, Proposal
<1> QED
  BY <1>2, <1>4 DEF Holds

Narrowed(set, p) == [set EXCEPT !.group = IF HasGroup(p) THEN @ ELSE None]
Keyed(set, ke) == [set EXCEPT !.group = IF @ = None THEN @ ELSE ke]
HeldEsp(p, set, ke) == Holds(p, EspProposal(set, TRUE), Keyed(set, ke))

LEMMA OfferedEsp ==
  ASSUME NEW s \in Settings, NEW set, IsSet(set, s), NEW p, WellFormed(p, s),
         NEW ke, EspMatch(p, set, ke), NEW ours,
         ours = Narrowed(set, p),
         ~(ours.group # None /\ ke = None)
  PROVE  HeldEsp(p, ours, ke) = ours
<1>1. /\ ours = AlgorithmSet(set.cipher, set.prf, set.integrity, ours.group)
      /\ ours.group = IF HasGroup(p) THEN set.group ELSE None
      /\ ours.cipher = set.cipher /\ ours.integrity = set.integrity
  BY DEF IsSet, AlgorithmSet, Narrowed
<1>2. ours.group # None => ours.group = ke /\ Offers(p, "group", ours.group, 0)
  BY <1>1 DEF EspMatch, Permits
<1>3. Keyed(ours, ke) = ours
  BY <1>1, <1>2 DEF AlgorithmSet, Keyed
<1>4. /\ Transform("cipher", ours.cipher.id, ours.cipher.bits) \in p.transforms
      /\ Integrity(ours) \subseteq p.transforms
      /\ ours.group # None => Transform("group", ours.group, 0) \in p.transforms
  BY <1>1, <1>2, OfferedTransforms DEF EspMatch, Integrity
<1>5. Transform("esn", "no", 0).kind = "esn"
  BY DEF Transform
<1>6. \A t \in EspProposal(ours, TRUE).transforms : t.kind = "esn" \/ t \in p.transforms
  BY <1>4, <1>5 DEF EspProposal, Proposal
<1> QED
  BY <1>3, <1>6 DEF Holds, HeldEsp

\* What an action does to the deal.
AgreedInv ==
  /\ settings \in Settings
  /\ phase \notin {"init", "down"} => Usable(IkeSets) /\ Usable(EspSets)
  /\ phase \in {"init", "down"} => wire.order = NoMessage
  /\ AlgorithmsAgree

\* A step that brings no order to a session that is not there.
Stays ==
  \/ phase' = "down" /\ wire' = NewWire
  \/ phase' = phase /\ wire'.order \in {wire.order, NoMessage}
  \/ {phase, phase'} \cap {"init", "down"} = {}

LEMMA StaysKeeps ==
  ASSUME AgreedInv, UNCHANGED settings, Stays, AlgorithmsAgree'
  PROVE  AgreedInv'
<1>1. IkeSets' = IkeSets /\ EspSets' = EspSets /\ settings' \in Settings
  BY DEF IkeSets, EspSets, AgreedInv
<1>2. NewWire.order = NoMessage
  BY DEF NewWire
<1>3. phase' \notin {"init", "down"} => phase \notin {"init", "down"}
  BY DEF Stays
<1>4. phase' \in {"init", "down"} => wire'.order = NoMessage
  BY <1>2 DEF Stays, AgreedInv
<1> QED
  BY <1>1, <1>3, <1>4 DEF AgreedInv

LEMMA SilentAgrees == ASSUME Silent PROVE AlgorithmsAgree'
  BY DEF Silent, NoDeal, Deal, AlgorithmsAgree

LEMMA OwnSets ==
  ASSUME settings \in Settings, Usable(IkeSets), Usable(EspSets)
  PROVE  /\ \A i \in DOMAIN IkeSets : IsSet(IkeSets[i], settings)
         /\ \A i \in DOMAIN EspSets : IsSet(EspSets[i], settings) /\ EspSets[i].prf = None
         /\ \A i \in DOMAIN IkeSets :
              i \in DOMAIN settings.ike /\ IkeSets[i] = IkeSet(settings.ike[i])
         /\ \A i \in DOMAIN EspSets :
              i \in DOMAIN settings.esp /\ EspSets[i] = EspSet(settings.esp[i])
         /\ IkeSets \in Seq({IkeSet(settings.ike[i]) : i \in DOMAIN settings.ike})
         /\ EspSets \in Seq({EspSet(settings.esp[i]) : i \in DOMAIN settings.esp})
<1>1. PICK s \in Settings : s = settings
  OBVIOUS
<1>2. IkeSets = ParseIke(s.ike) /\ EspSets = ParseEsp(s.esp)
  BY <1>1 DEF IkeSets, EspSets
<1>3. ASSUME NEW i \in DOMAIN IkeSets
      PROVE  /\ i \in DOMAIN s.ike /\ IkeSets[i] = IkeSet(s.ike[i])
             /\ IsSet(IkeSets[i], s)
  <2>1. i \in DOMAIN s.ike /\ IkeSets[i] = IkeSet(s.ike[i])
    BY <1>2, SetsAre
  <2>2. IkeSet(s.ike[i]) # NoSet
    BY <2>1 DEF Usable
  <2> QED
    BY <2>1, <2>2, SetsAre
<1>4. ASSUME NEW i \in DOMAIN EspSets
      PROVE  /\ i \in DOMAIN s.esp /\ EspSets[i] = EspSet(s.esp[i])
             /\ IsSet(EspSets[i], s) /\ EspSets[i].prf = None
  <2>1. i \in DOMAIN s.esp /\ EspSets[i] = EspSet(s.esp[i])
    BY <1>2, SetsAre
  <2>2. EspSet(s.esp[i]) # NoSet
    BY <2>1 DEF Usable
  <2> QED
    BY <2>1, <2>2, SetsAre
<1>5. /\ IkeSets \in Seq({IkeSet(s.ike[i]) : i \in DOMAIN s.ike})
      /\ EspSets \in Seq({EspSet(s.esp[i]) : i \in DOMAIN s.esp})
  BY <1>2, SetsAre
<1> QED
  BY <1>1, <1>3, <1>4, <1>5

LEMMA InitAgrees ==
  ASSUME AgreedInv, InitResponse
  PROVE  AgreedInv'
<1>1. UNCHANGED settings /\ Usable(IkeSets) /\ Usable(EspSets) /\ settings \in Settings
  BY DEF InitResponse, SameRest, AgreedInv
<1>2. IkeSets' = IkeSets /\ EspSets' = EspSets
  BY <1>1 DEF IkeSets, EspSets
<1>3. IkeSets \in Seq({IkeSet(settings.ike[i]) : i \in DOMAIN settings.ike})
  BY <1>1, SetsAre DEF IkeSets
<1>4. ASSUME NEW group, NEW p, NEW theirs, AcceptInit(group, p, theirs),
             SelectIke(p, IkeSets, group) = NoSet \/ SelectIke(p, IkeSets, group) = theirs
      PROVE  AlgorithmsAgree'
  <2>1. CASE SelectIke(p, IkeSets, group) = NoSet
    BY <1>4, <2>1, SilentAgrees DEF AcceptInit, Ends, Closes
  <2>2. CASE SelectIke(p, IkeSets, group) # NoSet
    BY <1>4, <2>2 DEF AcceptInit, Deal, AlgorithmsAgree
  <2> QED
    BY <2>1, <2>2
<1>5. ASSUME NEW group, NEW i \in DOMAIN IkeSets,
             SelectIke(IkeProposal(IkeSets[i]), IkeSets, group) # NoSet
      PROVE  SelectIke(IkeProposal(IkeSets[i]), IkeSets, group) = IkeSets[i]
  <2>1. PICK j \in DOMAIN IkeSets :
          /\ SelectIke(IkeProposal(IkeSets[i]), IkeSets, group) = IkeSets[j]
          /\ IkeMatch(IkeProposal(IkeSets[i]), IkeSets[j], group)
    BY <1>3, <1>5, IkeSelected
  <2>2. IsSet(IkeSets[i], settings) /\ IsSet(IkeSets[j], settings)
    BY <1>1, OwnSets
  <2> QED
    BY <1>1, <2>1, <2>2, OwnIke
<1>6. ASSUME NEW group, NEW p \in Foreign PROVE SelectIke(p, IkeSets, group) = NoSet
  <2> SUFFICES ASSUME SelectIke(p, IkeSets, group) # NoSet PROVE FALSE
    OBVIOUS
  <2>1. /\ p.protocol = "ike" /\ ~p.foreign
        /\ \E j \in DOMAIN IkeSets : IkeMatch(p, IkeSets[j], group)
    BY <1>3, IkeSelected
  <2>2. PICK j \in DOMAIN IkeSets : Chooses(p, IkeProposal(IkeSets[j]))
    BY <2>1, TakenIsChoice
  <2>3. j \in DOMAIN settings.ike /\ IkeSets[j] = IkeSet(settings.ike[j])
    BY <1>1, SetsAre DEF IkeSets
  <2> QED
    BY <1>1, <2>2, <2>3, ForeignAssumption
<1>7. AlgorithmsAgree'
  <2>1. PICK group \in GroupsOf(IkeSets) :
          \/ \E i \in DOMAIN IkeSets :
               AcceptInit(group, IkeProposal(IkeSets[i]), IkeSets[i])
          \/ \E p \in Foreign : AcceptInit(group, p, NoSet)
    BY DEF InitResponse
  <2> QED
    BY <1>4, <1>5, <1>6, <2>1
<1>8. phase' \in {"auth", "down"} /\ (phase' = "down" => wire' = NewWire)
  BY DEF InitResponse, AcceptInit, Ends, Closes
<1>9. NewWire.order = NoMessage
  BY DEF NewWire
<1> QED
  BY <1>1, <1>2, <1>7, <1>8, <1>9 DEF AgreedInv

\* The CHILD SA from a choice of the gateway's: of a proposal of ours, with or
\* without its group, or of none.
Agreed(p, group, theirs) ==
  SelectEsp(p, EspSets, group) = NoSet \/ SelectEsp(p, EspSets, group) = theirs

LEMMA ChildAgrees ==
  ASSUME settings \in Settings, Usable(IkeSets), Usable(EspSets)
  PROVE  /\ \A i \in DOMAIN EspSets :
              /\ Agreed(EspProposal(EspSets[i], FALSE), None, [EspSets[i] EXCEPT !.group = None])
              /\ Agreed(EspProposal(EspSets[i], TRUE), EspSets[i].group, EspSets[i])
         /\ \A p \in Foreign : Agreed(p, None, NoSet)
<1>1. ASSUME NEW p, NEW group, SelectEsp(p, EspSets, group) # NoSet
      PROVE  /\ p.protocol = "esp" /\ ~p.foreign /\ p.spi
             /\ TransformsOf(p, "esn") # {} => Offers(p, "esn", "no", 0)
             /\ \E j \in DOMAIN EspSets :
                  /\ SelectEsp(p, EspSets, group) =
                       [EspSets[j] EXCEPT !.group = IF HasGroup(p) THEN @ ELSE None]
                  /\ EspMatch(p, EspSets[j], group)
  BY <1>1, OwnSets, EspSelected
<1>2. ASSUME NEW i \in DOMAIN EspSets, NEW with \in BOOLEAN, NEW group,
             SelectEsp(EspProposal(EspSets[i], with), EspSets, group) # NoSet
      PROVE  SelectEsp(EspProposal(EspSets[i], with), EspSets, group) =
               IF with THEN EspSets[i] ELSE [EspSets[i] EXCEPT !.group = None]
  <2>1. PICK p : p = EspProposal(EspSets[i], with)
    OBVIOUS
  <2>2. PICK j \in DOMAIN EspSets :
          /\ SelectEsp(p, EspSets, group) =
               [EspSets[j] EXCEPT !.group = IF HasGroup(p) THEN @ ELSE None]
          /\ EspMatch(p, EspSets[j], group)
    BY <1>1, <1>2, <2>1
  <2>3. PICK a, b : a = EspSets[i] /\ b = EspSets[j]
    OBVIOUS
  <2>4. IsSet(a, settings) /\ IsSet(b, settings) /\ a.prf = None /\ b.prf = None
    BY <2>3, OwnSets
  <2>5. /\ b.cipher = a.cipher /\ b.integrity = a.integrity
        /\ HasGroup(p) <=> with /\ a.group # None
        /\ HasGroup(p) => b.group = a.group
    BY <2>1, <2>2, <2>3, <2>4, OwnEsp
  <2>6. /\ a = [cipher |-> a.cipher, prf |-> None, integrity |-> a.integrity, group |-> a.group]
        /\ b = [cipher |-> a.cipher, prf |-> None, integrity |-> a.integrity, group |-> b.group]
    BY <2>4, <2>5 DEF IsSet, AlgorithmSet
  <2>7. [b EXCEPT !.group = IF HasGroup(p) THEN @ ELSE None] =
          IF with THEN a ELSE [a EXCEPT !.group = None]
    <3>1. CASE HasGroup(p)
      BY <2>5, <2>6, <3>1
    <3>2. CASE ~HasGroup(p)
      BY <2>5, <2>6, <3>2
    <3> QED
      BY <3>1, <3>2
  <2> QED
    BY <2>1, <2>2, <2>3, <2>7
<1>3. ASSUME NEW p \in Foreign PROVE Agreed(p, None, NoSet)
  <2> SUFFICES ASSUME SelectEsp(p, EspSets, None) # NoSet PROVE FALSE
    BY DEF Agreed
  <2>1. /\ p.protocol = "esp" /\ ~p.foreign /\ p.spi
        /\ TransformsOf(p, "esn") # {} => Offers(p, "esn", "no", 0)
        /\ \E j \in DOMAIN EspSets : EspMatch(p, EspSets[j], None)
    BY <1>1
  <2>2. PICK j \in DOMAIN EspSets : Chooses(p, EspProposal(EspSets[j], TRUE))
    BY <2>1, TakenIsChoice
  <2>3. j \in DOMAIN settings.esp /\ EspSets[j] = EspSet(settings.esp[j])
    BY OwnSets
  <2> QED
    BY <2>2, <2>3, ForeignAssumption
<1>4. ASSUME NEW i \in DOMAIN EspSets
      PROVE  /\ Agreed(EspProposal(EspSets[i], FALSE), None, [EspSets[i] EXCEPT !.group = None])
             /\ Agreed(EspProposal(EspSets[i], TRUE), EspSets[i].group, EspSets[i])
  <2>1. PICK no \in BOOLEAN : no = FALSE
    OBVIOUS
  <2>2. PICK yes \in BOOLEAN : yes = TRUE
    OBVIOUS
  <2>3. Agreed(EspProposal(EspSets[i], no), None, [EspSets[i] EXCEPT !.group = None])
    BY <1>2, <2>1 DEF Agreed
  <2>4. Agreed(EspProposal(EspSets[i], yes), EspSets[i].group, EspSets[i])
    BY <1>2, <2>2 DEF Agreed
  <2> QED
    BY <2>1, <2>2, <2>3, <2>4
<1> QED
  BY <1>3, <1>4

LEMMA ChildFromAgrees ==
  ASSUME NEW p, NEW group, NEW theirs, NEW accepted \in BOOLEAN, Agreed(p, group, theirs),
         ChildFrom(p, group, theirs, accepted)
  PROVE  AlgorithmsAgree'
<1>1. CASE SelectEsp(p, EspSets, group) = NoSet
  BY <1>1, SilentAgrees DEF ChildFrom, Ends, Closes
<1>2. CASE SelectEsp(p, EspSets, group) # NoSet
  BY <1>2 DEF ChildFrom, Agreed, Deal, AlgorithmsAgree
<1> QED
  BY <1>1, <1>2

\* The gateway's proposals: the first acceptable one is one of them.
LEMMA FirstIs ==
  ASSUME NEW offer \in IkeOffers \cup EspOffers, NEW s \in Settings, NEW sets, NEW group
  PROVE  /\ FirstIke(offer, sets, group) # 0 =>
              /\ WellFormed(offer[FirstIke(offer, sets, group)], s)
              /\ SelectIke(offer[FirstIke(offer, sets, group)], sets, group) # NoSet
         /\ FirstEsp(offer, sets, group) # 0 =>
              /\ WellFormed(offer[FirstEsp(offer, sets, group)], s)
              /\ SelectEsp(offer[FirstEsp(offer, sets, group)], sets, group) # NoSet
<1> DEFINE I == {j \in 1 .. Len(offer) : SelectIke(offer[j], sets, group) # NoSet}
           E == {j \in 1 .. Len(offer) : SelectEsp(offer[j], sets, group) # NoSet}
<1>1. offer \in Seq(ToSet(offer))
  BY OffersAssumption
<1>2. \A j \in 1 .. Len(offer) : offer[j] \in ToSet(offer)
  BY <1>1
<1>3. \A j \in 1 .. Len(offer) : WellFormed(offer[j], s)
  BY <1>2, OffersAssumption DEF WellFormed
<1>4. /\ FirstIke(offer, sets, group) = IF I # {} THEN Min(I) ELSE 0
      /\ FirstEsp(offer, sets, group) = IF E # {} THEN Min(E) ELSE 0
  BY DEF FirstIke, FirstEsp, SelectInSeq
<1>5. /\ I \in SUBSET Nat /\ \A j \in I : j \in 1 .. Len(offer) /\ SelectIke(offer[j], sets, group) # NoSet
      /\ E \in SUBSET Nat /\ \A j \in E : j \in 1 .. Len(offer) /\ SelectEsp(offer[j], sets, group) # NoSet
  OBVIOUS
<1> HIDE DEF I, E
<1>6. (I # {} => Min(I) \in I) /\ (E # {} => Min(E) \in E)
  BY <1>5, LeastIs
<1> QED
  BY <1>3, <1>4, <1>5, <1>6

LEMMA IkeRekeyAgrees ==
  ASSUME settings \in Settings, Usable(IkeSets), Usable(EspSets), NEW w, OnIkeRekey(w)
  PROVE  AlgorithmsAgree'
<1>1. CASE Silent
  BY <1>1, SilentAgrees
<1>2. CASE ~Silent
  <2>1. PICK offer \in IkeOffers : \E ke \in GroupsOf(IkeSets) \cup {None, "unknown"} :
          LET i == FirstIke(offer, IkeSets, ke)
              ours == SelectIke(offer[i], IkeSets, ke)
          IN  /\ ke # None /\ i # 0
              /\ deal' = Deal(ours, Holds(offer[i], IkeProposal(ours), [ours EXCEPT !.group = ke]))
    BY <1>2 DEF OnIkeRekey, Refuse
  <2>2. PICK ke : /\ ke # None /\ FirstIke(offer, IkeSets, ke) # 0
                  /\ LET i == FirstIke(offer, IkeSets, ke)
                         ours == SelectIke(offer[i], IkeSets, ke)
                     IN  deal' = Deal(ours, Holds(offer[i], IkeProposal(ours),
                                                  [ours EXCEPT !.group = ke]))
    BY <2>1
  <2>3. PICK p : p = offer[FirstIke(offer, IkeSets, ke)]
    OBVIOUS
  <2>4. WellFormed(p, settings) /\ SelectIke(p, IkeSets, ke) # NoSet
    BY <2>2, <2>3, FirstIs
  <2>5. PICK j \in DOMAIN IkeSets :
          SelectIke(p, IkeSets, ke) = IkeSets[j] /\ IkeMatch(p, IkeSets[j], ke)
    BY <2>4, OwnSets, IkeSelected
  <2>6. PICK set : set = IkeSets[j]
    OBVIOUS
  <2>7. IsSet(set, settings)
    BY <2>6, OwnSets
  <2>8. Holds(p, IkeProposal(set), [set EXCEPT !.group = ke]) = set
    BY <2>2, <2>4, <2>5, <2>6, <2>7, OfferedIke
  <2>9. deal' = Deal(set, set)
    BY <2>2, <2>3, <2>5, <2>6, <2>8
  <2> QED
    BY <2>9 DEF Deal, AlgorithmsAgree
<1> QED
  BY <1>1, <1>2

LEMMA ChildRekeyAgrees ==
  ASSUME settings \in Settings, Usable(IkeSets), Usable(EspSets), NEW w, OnChildRekey(w)
  PROVE  AlgorithmsAgree'
<1>1. CASE Silent
  BY <1>1, SilentAgrees
<1>2. CASE ~Silent
  <2>1. PICK g \in Sas : \E offer \in EspOffers : \E ke \in GroupsOf(EspSets) \cup {None, "unknown"} :
          LET i == FirstEsp(offer, EspSets, ke)
              ours == SelectEsp(offer[i], EspSets, ke)
          IN  /\ i # 0 /\ ~(ours.group # None /\ ke = None)
              /\ deal' = Deal(ours, Holds(offer[i], EspProposal(ours, TRUE),
                                          [ours EXCEPT !.group = IF @ = None THEN @ ELSE ke]))
    BY <1>2 DEF OnChildRekey, Refuse
  <2>2. PICK offer \in EspOffers : \E ke \in GroupsOf(EspSets) \cup {None, "unknown"} :
          LET i == FirstEsp(offer, EspSets, ke)
              ours == SelectEsp(offer[i], EspSets, ke)
          IN  /\ i # 0 /\ ~(ours.group # None /\ ke = None)
              /\ deal' = Deal(ours, Holds(offer[i], EspProposal(ours, TRUE),
                                          [ours EXCEPT !.group = IF @ = None THEN @ ELSE ke]))
    BY <2>1
  <2>3. PICK ke :
          LET i == FirstEsp(offer, EspSets, ke)
              ours == SelectEsp(offer[i], EspSets, ke)
          IN  /\ i # 0 /\ ~(ours.group # None /\ ke = None)
              /\ deal' = Deal(ours, Holds(offer[i], EspProposal(ours, TRUE),
                                          [ours EXCEPT !.group = IF @ = None THEN @ ELSE ke]))
    BY <2>2
  <2>4. PICK p : p = offer[FirstEsp(offer, EspSets, ke)]
    OBVIOUS
  <2>5. WellFormed(p, settings) /\ SelectEsp(p, EspSets, ke) # NoSet
    BY <2>3, <2>4, FirstIs
  <2>6. PICK j \in DOMAIN EspSets :
          /\ SelectEsp(p, EspSets, ke) =
               [EspSets[j] EXCEPT !.group = IF HasGroup(p) THEN @ ELSE None]
          /\ EspMatch(p, EspSets[j], ke)
    BY <2>5, OwnSets, EspSelected
  <2>7. PICK set, ours : set = EspSets[j] /\ ours = SelectEsp(p, EspSets, ke)
    OBVIOUS
  <2>8. IsSet(set, settings)
    BY <2>7, OwnSets
  <2>9. /\ ~(ours.group # None /\ ke = None)
        /\ deal' = Deal(ours, Holds(p, EspProposal(ours, TRUE),
                                    [ours EXCEPT !.group = IF @ = None THEN @ ELSE ke]))
    BY <2>3, <2>4, <2>7
  <2>10. Holds(p, EspProposal(ours, TRUE), [ours EXCEPT !.group = IF @ = None THEN @ ELSE ke]) = ours
    <3>1. ours = Narrowed(set, p) /\ EspMatch(p, set, ke)
      BY <2>6, <2>7 DEF Narrowed
    <3>2. settings \in Settings /\ WellFormed(p, settings) /\ ~(ours.group # None /\ ke = None)
      BY <2>5, <2>9
    <3>3. HeldEsp(p, ours, ke) = ours
      BY <2>8, <3>1, <3>2, OfferedEsp
    <3> QED
      BY <3>3 DEF HeldEsp, Keyed
  <2>11. deal' = Deal(ours, ours)
    BY <2>9, <2>10
  <2> QED
    BY <2>11 DEF Deal, AlgorithmsAgree
<1> QED
  BY <1>1, <1>2

LEMMA ResponseAgrees ==
  ASSUME AgreedInv, NEW m, NEW w, w.order = wire.order, IsWire(w), TakeResponse(m, w),
         UNCHANGED settings
  PROVE  AgreedInv'
<1>0. Answered(w).order = wire.order /\ Asked(Answered(w)).order = wire.order
  BY DEF IsWire, Answered, Asked
<1>1. CASE Ends
  BY <1>1, StaysKeeps, SilentAgrees DEF Ends, Closes, Stays
<1>2. CASE EapRound(m, w) /\ ~Ends
  <2>1. /\ wire' = Asked(Answered(w)) /\ Silent
        /\ phase = "auth" /\ phase' \in {"auth", "final"}
    BY <1>2 DEF EapRound
  <2> QED
    BY <2>1, StaysKeeps, SilentAgrees DEF Stays
<1>3. CASE FinalAuth(m, w) /\ ~Ends
  <2>1. Usable(IkeSets) /\ Usable(EspSets) /\ settings \in Settings /\ phase = "final"
    BY <1>3 DEF FinalAuth, AgreedInv
  <2>2. phase' = "up"
    BY <1>3 DEF FinalAuth, ChildFrom
  <2>3. PICK created \in BOOLEAN :
          \/ \E i \in DOMAIN EspSets :
               ChildFrom(EspProposal(EspSets[i], FALSE), None,
                         [EspSets[i] EXCEPT !.group = None], created)
          \/ \E p \in Foreign : ChildFrom(p, None, NoSet, created)
    BY <1>3 DEF FinalAuth
  <2>4. AlgorithmsAgree'
    BY <2>1, <2>3, ChildAgrees, ChildFromAgrees
  <2> QED
    BY <2>1, <2>2, <2>4, StaysKeeps DEF Stays
<1>4. CASE Alive(w)
  <2>1. wire' = Answered(w) /\ Silent /\ phase' = phase
    BY <1>4 DEF Alive
  <2> QED
    BY <1>0, <2>1, StaysKeeps, SilentAgrees DEF Stays
<1> QED
  BY <1>1, <1>2, <1>3, <1>4 DEF TakeResponse

LEMMA RequestAgrees ==
  ASSUME AgreedInv, NEW m, NEW w, wire.order # NoMessage, w.order = NoMessage, IsWire(w),
         TakeRequest(m, w), UNCHANGED settings
  PROVE  AgreedInv'
<1>0. /\ phase \notin {"init", "down"} /\ settings \in Settings
      /\ Usable(IkeSets) /\ Usable(EspSets)
  BY DEF AgreedInv
<1>1. CASE Closes
  BY <1>1, StaysKeeps, SilentAgrees DEF Closes, Stays
<1>2. CASE phase' = phase /\ AlgorithmsAgree'
  BY <1>0, <1>2, StaysKeeps DEF Stays
<1>3. CASE phase' = phase /\ Silent
  BY <1>2, <1>3, SilentAgrees
<1>4. CASE OnInformational(m, w)
  BY <1>1, <1>3, <1>4 DEF OnInformational, Ended
<1>5. CASE OnCreateChildSa(m, w)
  <2>1. phase' = phase
    BY <1>5 DEF OnCreateChildSa, OnIkeRekey, OnChildRekey, Refuse
  <2>2. CASE Silent
    BY <1>3, <2>1, <2>2
  <2>3. CASE OnIkeRekey(w)
    BY <1>0, <1>2, <2>1, <2>3, IkeRekeyAgrees
  <2>4. CASE OnChildRekey(w)
    BY <1>0, <1>2, <2>1, <2>4, ChildRekeyAgrees
  <2> QED
    BY <1>5, <2>2, <2>3, <2>4 DEF OnCreateChildSa, Refuse
<1> QED
  BY <1>4, <1>5 DEF TakeRequest

LEMMA DatagramAgrees ==
  ASSUME AgreedInv, IsWire(wire), DatagramArrives
  PROVE  AgreedInv'
<1>1. PICK m \in {wire.answer, wire.order, wire.old} \ {NoMessage} :
        \E number \in Fragments(m) : Datagram(m, number)
  BY DEF DatagramArrives
<1>2. PICK number \in Fragments(m) : Datagram(m, number)
  BY <1>1
<1>3. PICK o : o = Opened(wire.reassembler, m, number)
  OBVIOUS
<1>4. PICK w : w = [wire EXCEPT !.reassembler = o.reassembler]
  OBVIOUS
<1>5. UNCHANGED settings
  BY DEF DatagramArrives
<1>6. IsWire(w) /\ w.order = wire.order
  BY <1>4 DEF IsWire
<1>7. IsWire(Taken(m, w)) /\ Taken(m, w).order = NoMessage
  BY <1>6 DEF IsWire, Taken
<1>8. \/ wire' = w /\ Silent /\ phase' = phase
      \/ TakeResponse(m, w)
      \/ m = wire.order /\ TakeRequest(m, Taken(m, w))
      \/ Ends
      \/ Refuse(Taken(m, w))
  BY <1>2, <1>3, <1>4 DEF Datagram, TakeResponse
<1>9. CASE wire' = w /\ Silent /\ phase' = phase
  BY <1>5, <1>6, <1>9, StaysKeeps, SilentAgrees DEF Stays
<1>10. CASE TakeResponse(m, w)
  BY <1>5, <1>6, <1>10, ResponseAgrees
<1>11. CASE m = wire.order /\ TakeRequest(m, Taken(m, w))
  <2>1. wire.order # NoMessage
    BY <1>1, <1>11
  <2> QED
    BY <1>5, <1>7, <1>11, <2>1, RequestAgrees
<1>12. CASE Ends
  BY <1>5, <1>12, StaysKeeps, SilentAgrees DEF Ends, Closes, Stays
<1>13. CASE Refuse(Taken(m, w))
  BY <1>5, <1>7, <1>13, StaysKeeps, SilentAgrees DEF Refuse, Stays
<1> QED
  BY <1>8, <1>9, <1>10, <1>11, <1>12, <1>13

LEMMA RekeyAgrees ==
  ASSUME AgreedInv, RekeyChild
  PROVE  AgreedInv'
<1>1. /\ Usable(IkeSets) /\ Usable(EspSets) /\ settings \in Settings /\ phase = "up"
      /\ UNCHANGED settings
  BY DEF RekeyChild, Idle, AgreedInv, SameRest
<1>2. PICK g \in Sas, hour \in BOOLEAN :
        LET replace == Rekey(g, hour) /\ UNCHANGED <<phase, peer, wire>>
        IN  \/ \E i \in DOMAIN EspSets :
                 ChildFrom(EspProposal(EspSets[i], TRUE), EspSets[i].group, EspSets[i], replace)
            \/ \E p \in Foreign : ChildFrom(p, None, NoSet, replace)
  BY DEF RekeyChild
<1>3. PICK replace \in BOOLEAN :
        /\ replace <=> Rekey(g, hour) /\ UNCHANGED <<phase, peer, wire>>
        /\ \/ \E i \in DOMAIN EspSets :
                ChildFrom(EspProposal(EspSets[i], TRUE), EspSets[i].group, EspSets[i], replace)
           \/ \E p \in Foreign : ChildFrom(p, None, NoSet, replace)
  BY <1>2
<1>4. AlgorithmsAgree'
  BY <1>1, <1>3, ChildAgrees, ChildFromAgrees
<1>5. Ends \/ replace
  BY <1>3 DEF ChildFrom
<1>6. Stays
  BY <1>3, <1>5 DEF Ends, Closes, Stays
<1> QED
  BY <1>1, <1>4, <1>6, StaysKeeps

LEMMA StepAgrees ==
  ASSUME AgreedInv, IsWire(wire), [Next]_vars
  PROVE  AgreedInv'
<1>1. CASE BadSettings
  BY <1>1, StaysKeeps, SilentAgrees DEF BadSettings, Ends, Closes, Stays, SameRest
<1>2. CASE InitResponse
  BY <1>2, InitAgrees
<1>3. CASE GatewayAnswers
  <2>1. /\ Silent /\ UNCHANGED <<settings, phase>>
        /\ \E a : wire' = [wire EXCEPT !.answer = a]
    BY <1>3 DEF GatewayAnswers, SameRest
  <2>2. wire'.order = wire.order
    BY <2>1 DEF IsWire
  <2> QED
    BY <2>1, <2>2, StaysKeeps, SilentAgrees DEF Stays
<1>4. CASE GatewayOrders
  <2>1. Silent /\ UNCHANGED <<settings, phase>> /\ phase \in {"up", "final"}
    BY <1>4 DEF GatewayOrders, SameRest
  <2> QED
    BY <2>1, StaysKeeps, SilentAgrees DEF Stays
<1>5. CASE DatagramArrives
  BY <1>5, DatagramAgrees
<1>6. CASE GivesUp
  BY <1>6, StaysKeeps, SilentAgrees DEF GivesUp, Ends, Closes, Stays, SameRest
<1>7. CASE Asks
  <2>1. Silent /\ UNCHANGED <<settings, phase>> /\ phase = "up"
    BY <1>7 DEF Asks, Idle, SameRest
  <2> QED
    BY <2>1, StaysKeeps, SilentAgrees DEF Stays
<1>8. CASE RekeyChild
  BY <1>8, RekeyAgrees
<1>9. CASE Traffic
  BY <1>9, StaysKeeps, SilentAgrees DEF Traffic, Stays, SameRest
<1>10. CASE UNCHANGED vars
  BY <1>10, StaysKeeps DEF vars, dataVars, Stays, AlgorithmsAgree, AgreedInv
<1> QED
  BY <1>1, <1>2, <1>3, <1>4, <1>5, <1>6, <1>7, <1>8, <1>9, <1>10 DEF Next

\* What the client takes for an SA's algorithms is what the gateway holds them
\* to be, for any settings whose ciphers are told apart by their transform ids
\* and key lengths, any proposals and any answers of a gateway (select_ike,
\* select_esp, accept_init, child_from, on_ike_rekey, on_child_rekey).
THEOREM AlgorithmsSame == Spec => []AlgorithmsAgree
<1>1. Init => AgreedInv
  BY DEF Init, AgreedInv, AlgorithmsAgree, NoDeal, Deal, NewWire
<1>2. Inv => IsWire(wire)
  BY DEF Inv, WireInv
<1>3. Inv /\ AgreedInv /\ [Next]_vars => AgreedInv'
  BY <1>2, StepAgrees
<1>4. AgreedInv => AlgorithmsAgree
  BY DEF AgreedInv
<1> QED
  BY InitInv, StepInv, <1>1, <1>3, <1>4, PTL DEF Spec

-----------------------------------------------------------------------------
(* Types.                                                                  *)

ListTypes == live \in Seq(Sas) /\ replaced \subseteq Sas /\ drawn \in 0 .. Generations

Lists(g) == (\E hour \in BOOLEAN : Rekey(g, hour)) \/ PeerRekey(g) \/ PeerDelete(g)

\* Every step installs or removes a CHILD SA, or leaves the list alone.
LEMMA StepLists ==
  ASSUME [Next]_vars
  PROVE  UNCHANGED <<live, replaced, drawn>> \/ First \/ \E g \in Sas : Lists(g)
<1> USE DEF espVars, Ends
<1>1. CASE UNCHANGED vars
  BY <1>1 DEF vars
<1>2. CASE BadSettings \/ InitResponse \/ GatewayAnswers \/ GatewayOrders \/ GivesUp \/ Asks
  BY <1>2 DEF BadSettings, InitResponse, AcceptInit, GatewayAnswers, GatewayOrders, GivesUp, Asks
<1>3. CASE DatagramArrives
  <2>1. PICK m, number : Datagram(m, number)
    BY <1>3 DEF DatagramArrives
  <2>2. PICK w : \/ UNCHANGED espVars
                 \/ TakeResponse(m, w)
                 \/ TakeRequest(m, w)
    BY <2>1 DEF Datagram, Alive, Refuse
  <2>3. CASE UNCHANGED espVars
    BY <2>3
  <2>4. CASE TakeResponse(m, w)
    BY <2>4 DEF TakeResponse, EapRound, FinalAuth, ChildFrom, Alive
  <2>5. CASE TakeRequest(m, w)
    <3>1. CASE OnInformational(m, w)
      BY <3>1 DEF OnInformational, Lists
    <3>2. CASE OnCreateChildSa(m, w)
      BY <3>2 DEF OnCreateChildSa, OnIkeRekey, OnChildRekey, Refuse, Lists
    <3> QED
      BY <2>5, <3>1, <3>2 DEF TakeRequest
  <2> QED
    BY <2>2, <2>3, <2>4, <2>5
<1>4. CASE RekeyChild
  BY <1>4 DEF RekeyChild, ChildFrom, Lists
<1>5. CASE Traffic
  BY <1>5 DEF Traffic, OnTunPacket, OnEsp
<1> QED
  BY <1>1, <1>2, <1>3, <1>4, <1>5 DEF Next

LEMMA ListsKeep ==
  ASSUME ListTypes, UNCHANGED <<live, replaced, drawn>> \/ First \/ \E g \in Sas : Lists(g)
  PROVE  ListTypes'
<1>0. Generations \in Nat
  BY EspAssumption
<1>1. \A g : Without(g) \in Seq(Sas)
  BY RetainedIs DEF ListTypes, Without
<1>2. ASSUME Install
      PROVE  /\ drawn' \in 0 .. Generations /\ <<drawn + 1>> \in Seq(Sas)
             /\ \A q \in Seq(Sas) : <<drawn + 1>> \o q \in Seq(Sas)
  <2>1. drawn' \in 0 .. Generations /\ drawn + 1 \in Sas
    BY <1>0, <1>2 DEF Install, ListTypes, Sas
  <2>2. <<drawn + 1>> \in Seq(Sas)
    BY <2>1
  <2> QED
    BY <2>1, <2>2
<1>3. CASE UNCHANGED <<live, replaced, drawn>>
  BY <1>3 DEF ListTypes
<1>4. CASE First
  BY <1>2, <1>4 DEF First, ListTypes
<1>5. ASSUME NEW g \in Sas, Lists(g) PROVE ListTypes'
  <2>1. CASE \E hour \in BOOLEAN : Rekey(g, hour)
    BY <1>1, <1>2, <2>1 DEF Rekey, ListTypes
  <2>2. CASE PeerRekey(g)
    BY <1>2, <2>2 DEF PeerRekey, ListTypes
  <2>3. CASE PeerDelete(g)
    BY <1>1, <2>3 DEF PeerDelete, ListTypes
  <2> QED
    BY <1>5, <2>1, <2>2, <2>3 DEF Lists
<1> QED
  BY <1>3, <1>4, <1>5

\* What the client and the gateway say to each other.  A request under way is
\* within the gateway's bound.
Peers ==
  [method : Methods \cup {"any"}, challenge : {0} \cup Challenges, msk : {0} \cup Challenges]

TypedWire(w, orders) ==
  /\ IsWire(w)
  /\ w.sa \in 1 .. MaxSas /\ w.peerId \in 0 .. orders
  /\ w.order # NoMessage => w.peerId < orders
  /\ {w.answer, w.order, w.old} \subseteq Messages \cup {NoMessage}

TalkTypes ==
  /\ settings \in Settings /\ load \in Loads /\ knows \in BOOLEAN /\ claimed \in BOOLEAN
  /\ phase \in {"init", "auth", "final", "up", "down"}
  /\ peer \in Peers /\ TypedWire(wire, load.orders)

LEMMA HandleTypes ==
  ASSUME NEW q \in Peers, NEW p \in Bodies
  PROVE  Handle(q, p).peer \in Peers
<1>1. [q EXCEPT !.challenge = p.challenge] \in Peers /\ [q EXCEPT !.msk = q.challenge] \in Peers
  BY DEF Peers, Bodies
<1>2. Success(q).peer = q /\ Failure(q).peer = q
  BY DEF Success, Failure
<1>3. \A r, kind : Reply(r, kind).peer = r
  BY DEF Reply
<1>4. Mschapv2(q, p).peer \in Peers
  BY <1>1, <1>2, <1>3 DEF Mschapv2
<1>5. EapRequest(q, p).peer \in Peers
  BY <1>2, <1>3, <1>4 DEF EapRequest
<1> QED
  BY <1>2, <1>5 DEF Handle

LEMMA NewPeerTypes == ASSUME NEW s \in Settings PROVE NewPeer(s.method) \in Peers
  BY SettingsAssumption DEF NewPeer, Peers

LEMMA NewWireTypes == ASSUME NEW n \in Nat PROVE TypedWire(NewWire, n)
<1>1. /\ IsWire(NewWire) /\ NewWire.sa = 1 /\ NewWire.peerId = 0
      /\ NewWire.answer = NoMessage /\ NewWire.order = NoMessage /\ NewWire.old = NoMessage
  BY DEF NewWire, IsWire
<1> QED
  BY <1>1, BoundsAssumption DEF TypedWire

LEMMA WireTypes ==
  ASSUME NEW n \in Nat, NEW w, TypedWire(w, n)
  PROVE  /\ TypedWire(Answered(w), n) /\ TypedWire(Asked(w), n)
         /\ TypedWire([w EXCEPT !.next = TRUE], n)
         /\ \A r : TypedWire([w EXCEPT !.reassembler = r], n)
         /\ \A a \in Messages : TypedWire([w EXCEPT !.answer = a], n)
         /\ \A a \in Messages : w.peerId < n => TypedWire([w EXCEPT !.order = a], n)
         /\ \A m \in Messages : w.order # NoMessage => TypedWire(Taken(m, w), n)
         /\ w.sa < MaxSas => TypedWire(SwitchIke(w), n)
<1> USE DEF TypedWire, IsWire
<1>1. TypedWire(Answered(w), n)
  BY DEF Answered
<1>2. TypedWire(Asked(w), n)
  BY DEF Asked
<1>3. TypedWire([w EXCEPT !.next = TRUE], n)
  OBVIOUS
<1>4. \A r : TypedWire([w EXCEPT !.reassembler = r], n)
  OBVIOUS
<1>5. \A a \in Messages : TypedWire([w EXCEPT !.answer = a], n)
  OBVIOUS
<1>6. \A a \in Messages : w.peerId < n => TypedWire([w EXCEPT !.order = a], n)
  OBVIOUS
<1>7. \A m \in Messages : w.order # NoMessage => TypedWire(Taken(m, w), n)
  BY DEF Taken
<1>8. w.sa < MaxSas => TypedWire(SwitchIke(w), n)
  <2>1. PICK v : v = SwitchIke(w)
    OBVIOUS
  <2>2. /\ DOMAIN v = DOMAIN w /\ v.sa = w.sa + 1 /\ v.id = 0 /\ v.peerId = 0
        /\ v.answer = NoMessage /\ v.order = NoMessage /\ v.old = NoMessage
    BY <2>1 DEF SwitchIke
  <2>3. w.sa < MaxSas => v.sa \in 1 .. MaxSas
    BY <2>2, BoundsAssumption
  <2> QED
    BY <2>1, <2>2, <2>3
<1> QED
  BY <1>1, <1>2, <1>3, <1>4, <1>5, <1>6, <1>7, <1>8

\* What a step does to the talk: nothing leaves its type.
LEMMA TalkStep ==
  ASSUME TalkTypes, UNCHANGED <<settings, load, knows>>, claimed' \in BOOLEAN,
         phase' \in {"init", "auth", "final", "up", "down"}, peer' \in Peers,
         TypedWire(wire', load.orders)
  PROVE  TalkTypes'
  BY DEF TalkTypes

LEMMA ClosesTypes ==
  ASSUME TalkTypes, UNCHANGED <<settings, load, knows, claimed>>, Closes
  PROVE  TalkTypes'
<1>1. peer' \in Peers
  BY NewPeerTypes DEF Closes, TalkTypes
<1>2. TypedWire(wire', load.orders)
  BY NewWireTypes, BoundsAssumption DEF Closes, TalkTypes
<1> QED
  BY <1>1, <1>2, TalkStep DEF Closes, TalkTypes

\* A step that changes only the wire, and perhaps brings the tunnel up.
LEMMA WireMoves ==
  ASSUME TalkTypes, UNCHANGED <<settings, load, knows, claimed>>,
         phase' \in {phase, "up"}, peer' \in {peer, NewPeer(settings.method)},
         TypedWire(wire', load.orders)
  PROVE  TalkTypes'
<1>1. peer' \in Peers
  BY NewPeerTypes DEF TalkTypes
<1> QED
  BY <1>1, TalkStep DEF TalkTypes

LEMMA ResponseTypes ==
  ASSUME TalkTypes, NEW m \in Messages, NEW w, TypedWire(w, load.orders), TakeResponse(m, w),
         UNCHANGED <<settings, load, knows>>
  PROVE  TalkTypes'
<1>0. load.orders \in Nat
  BY BoundsAssumption DEF TalkTypes
<1>1. TypedWire(Answered(w), load.orders) /\ TypedWire(Asked(Answered(w)), load.orders)
  BY <1>0, WireTypes
<1>2. CASE EapRound(m, w)
  <2>1. m.body \in Bodies
    BY DEF Messages
  <2>2. PICK r : r = Handle(peer, m.body)
    OBVIOUS
  <2>3. r.peer \in Peers
    BY <2>1, <2>2, HandleTypes DEF TalkTypes
  <2>4. CASE Ends /\ UNCHANGED claimed
    BY <2>4, ClosesTypes DEF Ends
  <2>5. CASE ~(Ends /\ UNCHANGED claimed)
    <3>1. /\ claimed' \in BOOLEAN /\ phase' \in {"auth", "final"}
          /\ peer' = r.peer /\ wire' = Asked(Answered(w))
      BY <1>2, <2>2, <2>5 DEF EapRound, TalkTypes
    <3> QED
      BY <1>1, <2>3, <3>1, TalkStep
  <2> QED
    BY <2>4, <2>5
<1>3. CASE FinalAuth(m, w)
  <2>1. CASE Ends
    BY <1>3, <2>1, ClosesTypes DEF Ends, FinalAuth
  <2>2. CASE ~Ends
    <3>1. /\ phase' = "up" /\ peer' = NewPeer(settings.method) /\ wire' = Answered(w)
          /\ UNCHANGED claimed
      BY <1>3, <2>2 DEF FinalAuth, ChildFrom
    <3> QED
      BY <1>1, <3>1, WireMoves
  <2> QED
    BY <2>1, <2>2
<1>4. CASE Alive(w)
  BY <1>1, <1>4, WireMoves DEF Alive
<1> QED
  BY <1>2, <1>3, <1>4 DEF TakeResponse

LEMMA RequestTypes ==
  ASSUME TalkTypes, NEW m, NEW w, TypedWire(w, load.orders), TakeRequest(m, w),
         UNCHANGED <<settings, load, knows>>
  PROVE  TalkTypes'
<1>0. load.orders \in Nat /\ UNCHANGED claimed
  BY BoundsAssumption DEF TalkTypes, TakeRequest
<1>1. CASE Closes
  BY <1>0, <1>1, ClosesTypes
<1>2. CASE wire' \in {w, [w EXCEPT !.next = TRUE]} /\ UNCHANGED <<phase, peer>>
  <2>1. TypedWire(wire', load.orders)
    BY <1>0, <1>2, WireTypes
  <2> QED
    BY <1>0, <1>2, <2>1, WireMoves
<1>3. CASE Ended(w)
  <2>1. CASE w.sa < MaxSas /\ wire' = SwitchIke(w) /\ UNCHANGED <<phase, peer>>
    <3>1. TypedWire(wire', load.orders)
      BY <1>0, <2>1, WireTypes
    <3> QED
      BY <1>0, <2>1, <3>1, WireMoves
  <2> QED
    BY <1>1, <1>3, <2>1 DEF Ended
<1>4. CASE OnInformational(m, w)
  BY <1>2, <1>3, <1>4 DEF OnInformational
<1>5. CASE OnCreateChildSa(m, w)
  BY <1>2, <1>5 DEF OnCreateChildSa, OnIkeRekey, OnChildRekey, Refuse
<1> QED
  BY <1>4, <1>5 DEF TakeRequest

LEMMA DatagramTypes ==
  ASSUME TalkTypes, DatagramArrives
  PROVE  TalkTypes'
<1>0. load.orders \in Nat /\ UNCHANGED <<settings, load, knows>>
  BY BoundsAssumption DEF TalkTypes, DatagramArrives
<1>1. PICK m \in {wire.answer, wire.order, wire.old} \ {NoMessage} :
        \E number \in Fragments(m) : Datagram(m, number)
  BY DEF DatagramArrives
<1>2. PICK number \in Fragments(m) : Datagram(m, number)
  BY <1>1
<1>3. PICK o : o = Opened(wire.reassembler, m, number)
  OBVIOUS
<1>4. PICK w : w = [wire EXCEPT !.reassembler = o.reassembler]
  OBVIOUS
<1>5. m \in Messages
  BY <1>1 DEF TalkTypes, TypedWire
<1>6. TypedWire(w, load.orders) /\ w.order = wire.order
  <2>1. TypedWire(wire, load.orders)
    BY DEF TalkTypes
  <2>2. TypedWire(w, load.orders)
    BY <1>0, <1>4, <2>1, WireTypes
  <2>3. w.order = wire.order
    BY <1>4, <2>1 DEF TypedWire, IsWire
  <2> QED
    BY <2>2, <2>3
<1>7. m = wire.order => TypedWire(Taken(m, w), load.orders)
  BY <1>0, <1>1, <1>5, <1>6, WireTypes
<1>8. \/ wire' = w /\ UNCHANGED <<phase, peer, claimed>>
      \/ TakeResponse(m, w)
      \/ m = wire.order /\ TakeRequest(m, Taken(m, w))
      \/ Ends /\ UNCHANGED claimed
      \/ m = wire.order /\ Refuse(Taken(m, w)) /\ UNCHANGED claimed
  BY <1>2, <1>3, <1>4 DEF Datagram, TakeResponse
<1>9. CASE wire' = w /\ UNCHANGED <<phase, peer, claimed>>
  BY <1>0, <1>6, <1>9, WireMoves
<1>10. CASE TakeResponse(m, w)
  BY <1>0, <1>5, <1>6, <1>10, ResponseTypes
<1>11. CASE m = wire.order /\ TakeRequest(m, Taken(m, w))
  BY <1>0, <1>7, <1>11, RequestTypes
<1>12. CASE Ends /\ UNCHANGED claimed
  BY <1>0, <1>12, ClosesTypes DEF Ends
<1>13. CASE m = wire.order /\ Refuse(Taken(m, w)) /\ UNCHANGED claimed
  BY <1>0, <1>7, <1>13, WireMoves DEF Refuse
<1> QED
  BY <1>8, <1>9, <1>10, <1>11, <1>12, <1>13

LEMMA MessageTypes ==
  ASSUME NEW sa \in 1 .. MaxSas, NEW id \in Nat, NEW resp \in BOOLEAN, NEW total \in Totals,
         NEW body \in Bodies
  PROVE  Message(sa, id, resp, total, body) \in Messages
  BY DEF Message, Messages

LEMMA BodyTypes ==
  ASSUME TalkTypes
  PROVE  /\ EapPackets \subseteq Bodies /\ AuthPackets \subseteq Bodies
         /\ \A code \in Codes : Plain(code) \in Bodies
<1>1. ASSUME NEW code \in Codes, NEW type \in Methods \cup {"none", "identity", "other"},
             NEW op \in {"none", "challenge", "success", "failure"},
             NEW c \in {0} \cup Challenges, NEW proof \in {0} \cup Challenges
      PROVE  Packet(code, type, op, c, proof) \in Bodies
  BY DEF Packet, Bodies
<1>2. \A code \in Codes : Plain(code) \in Bodies
  BY <1>1 DEF Plain
<1>3. \A op \in {"none", "challenge", "success", "failure"}, c, proof \in {0} \cup Challenges :
        MschapPacket(op, c, proof) \in Bodies
  BY <1>1 DEF MschapPacket, Codes, Methods
<1>4. /\ Plain("success") \in Bodies /\ Plain("failure") \in Bodies
      /\ Plain("skp") \in Bodies /\ Plain("msk") \in Bodies
  BY <1>2 DEF Codes
<1>5. AuthPackets \subseteq Bodies
  BY <1>4 DEF AuthPackets
<1>6. \A t \in {"identity", "md5", "gtc", "other"} : Packet("request", t, "none", 0, 0) \in Bodies
  BY <1>1 DEF Codes, Methods
<1>7. peer.challenge \in {0} \cup Challenges
  BY DEF TalkTypes, Peers
<1>8. EapPackets \subseteq Bodies
  BY <1>3, <1>4, <1>6, <1>7 DEF EapPackets
<1> QED
  BY <1>2, <1>5, <1>8

LEMMA StepTypes ==
  ASSUME TalkTypes, [Next]_vars
  PROVE  TalkTypes'
<1>0. load.orders \in Nat /\ TypedWire(wire, load.orders)
  BY BoundsAssumption DEF TalkTypes
<1>1. CASE BadSettings
  BY <1>1, ClosesTypes DEF BadSettings, Ends, SameRest
<1>2. CASE InitResponse
  <2>1. UNCHANGED <<settings, load, knows, claimed>>
    BY <1>2 DEF InitResponse, SameRest
  <2>2. CASE Closes
    BY <2>1, <2>2, ClosesTypes
  <2>3. CASE ~Closes
    <3>1. phase' = "auth" /\ wire' = Asked(wire) /\ UNCHANGED peer
      BY <1>2, <2>3 DEF InitResponse, AcceptInit, Ends, Asked
    <3>2. TypedWire(wire', load.orders)
      BY <1>0, <3>1, WireTypes
    <3> QED
      BY <2>1, <3>1, <3>2, TalkStep DEF TalkTypes
  <2> QED
    BY <2>2, <2>3
<1>3. CASE GatewayAnswers
  <2>1. PICK total \in Totals : \E body \in CASE phase = "auth" -> EapPackets
                                             [] phase = "final" -> AuthPackets
                                             [] OTHER -> {Plain("done")} :
          wire' = [wire EXCEPT !.answer = Message(wire.sa, wire.id, TRUE, total, body)]
    BY <1>3 DEF GatewayAnswers
  <2>2. Plain("done") \in Bodies
    BY BodyTypes DEF Codes
  <2>3. PICK body \in Bodies :
          wire' = [wire EXCEPT !.answer = Message(wire.sa, wire.id, TRUE, total, body)]
    BY <2>1, <2>2, BodyTypes
  <2>4. PICK resp \in BOOLEAN : resp = TRUE
    OBVIOUS
  <2>5. Message(wire.sa, wire.id, resp, total, body) \in Messages
    BY <1>0, MessageTypes DEF TypedWire, IsWire
  <2>6. TypedWire(wire', load.orders)
    BY <1>0, <2>3, <2>4, <2>5, WireTypes
  <2> QED
    BY <1>3, <2>6, WireMoves DEF GatewayAnswers, SameRest
<1>4. CASE GatewayOrders
  <2>1. PICK total \in Totals : \E code \in {"dpd", "ike", "child", "other", "delete", "deleteChild"} :
          wire' = [wire EXCEPT !.order = Message(wire.sa, wire.peerId, FALSE, total, Plain(code))]
    BY <1>4 DEF GatewayOrders
  <2>2. PICK body \in Bodies :
          wire' = [wire EXCEPT !.order = Message(wire.sa, wire.peerId, FALSE, total, body)]
    BY <2>1, BodyTypes DEF Codes
  <2>3. PICK resp \in BOOLEAN : resp = FALSE
    OBVIOUS
  <2>4. Message(wire.sa, wire.peerId, resp, total, body) \in Messages
    BY <1>0, MessageTypes DEF TypedWire, IsWire
  <2>5. TypedWire(wire', load.orders)
    BY <1>0, <1>4, <2>2, <2>3, <2>4, WireTypes DEF GatewayOrders
  <2> QED
    BY <1>4, <2>5, WireMoves DEF GatewayOrders, SameRest
<1>5. CASE DatagramArrives
  BY <1>5, DatagramTypes
<1>6. CASE GivesUp
  BY <1>6, ClosesTypes DEF GivesUp, Ends, SameRest
<1>7. CASE Asks
  <2>1. TypedWire(wire', load.orders)
    BY <1>0, <1>7, WireTypes DEF Asks
  <2> QED
    BY <1>7, <2>1, WireMoves DEF Asks, SameRest
<1>8. CASE RekeyChild
  <2>1. Closes \/ UNCHANGED <<phase, peer, wire>>
    BY <1>8 DEF RekeyChild, ChildFrom, Ends
  <2> QED
    BY <1>0, <1>8, <2>1, ClosesTypes, WireMoves DEF RekeyChild, SameRest
<1>9. CASE Traffic
  BY <1>0, <1>9, WireMoves DEF Traffic, SameRest
<1>10. CASE UNCHANGED vars
  BY <1>0, <1>10, WireMoves DEF vars, dataVars
<1> QED
  BY <1>1, <1>2, <1>3, <1>4, <1>5, <1>6, <1>7, <1>8, <1>9, <1>10 DEF Next

\* The state of a session has its types: what the gateway may send, the EAP
\* peer, the ids within their bounds, the list of CHILD SAs and their counters.
THEOREM DataTypes == Spec => []TypeOK
<1>1. Init => EspInv /\ ListTypes /\ TalkTypes
  <2> SUFFICES ASSUME Init PROVE EspInv /\ ListTypes /\ TalkTypes
    OBVIOUS
  <2>1. EspInv
    BY EspInitInv DEF Init
  <2>2. ListTypes
    BY EspAssumption DEF Init, EspInit, ListTypes
  <2>3. peer \in Peers /\ TypedWire(wire, load.orders)
    BY NewPeerTypes, NewWireTypes, BoundsAssumption DEF Init
  <2>4. TalkTypes
    BY <2>3 DEF Init, TalkTypes
  <2> QED
    BY <2>1, <2>2, <2>4
<1>2. EspInv /\ [Next]_vars => EspInv'
  BY StepCounts, SameCountersKeep, OnTunPacketKeeps, OnEspKeeps
<1>3. ListTypes /\ [Next]_vars => ListTypes'
  BY StepLists, ListsKeep
<1>4. TalkTypes /\ [Next]_vars => TalkTypes'
  BY StepTypes
<1>5. EspInv /\ ListTypes /\ TalkTypes => TypeOK
  BY DEF EspInv, Counters, ListTypes, TalkTypes, TypedWire, IsWire, Peers, TypeOK, EspTypeOK
<1> QED
  BY <1>1, <1>2, <1>3, <1>4, <1>5, PTL DEF Spec

=============================================================================

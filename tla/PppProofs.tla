------------------------------ MODULE PppProofs ------------------------------
(* Proofs about Ppp, for every value of its constants.                     *)
EXTENDS Ppp, SequenceTheorems, WellFoundedInduction, TLAPS

\* What the proofs need to know of a packet: Configure packets hold options.
HasOptions(p) ==
  p.code \in {"ConfReq", "ConfNak", "ConfRej"} => p.opts \in Seq(OptionRecords)
IsPacket(p) == p.proto \in Layers => HasOptions(p)

\* How a handler may move an automaton f, and what it then reports.
Moved(f, s) ==
  /\ s.outcome \in {"none", "Up", "Down"}
  /\ s.outcome = "Up" => f.state \in Negotiating /\ s.fsm.state = "Opened"
  /\ s.outcome = "Down" => s.fsm.state = "Closed" /\ ~s.fsm.timer
  /\ s.outcome = "none" /\ f.state \in Negotiating => s.fsm.state \in Negotiating
  /\ s.outcome = "none" /\ f.state \notin Negotiating => s.fsm.state = f.state

\* A finite sequence, of whatever it holds.
IsSeq(out) == out \in Seq(Elements(out))

\* Packets of layer l, none of them a Configure-Request.
Harmless(out, l) ==
  /\ IsSeq(out)
  /\ \A a \in Elements(out) : a.do = "Send" /\ a.layer = l /\ a.code # "ConfReq"

\* A handler only sends packets of its own layer, at most one of them a
\* Configure-Request; that one is paid from the budget and holds the
\* configuration the automaton now has.
Asked(f, s, l) ==
  \/ /\ Harmless(s.out, l)
     /\ Budget(s.fsm) <= Budget(f)
     /\ s.fsm.state \in Negotiating \cup {"Opened"} => Request(s.fsm) = Request(f)
  \/ /\ s.out = <<SendConfReq(s.fsm)>> /\ s.outcome = "none"
     /\ Budget(s.fsm) + 1 <= Budget(f)

-----------------------------------------------------------------------------
(* First and last elements of sets of indices.                             *)

\* A nonempty set of naturals has a smallest element.
LEMMA Smallest ==
  ASSUME NEW S \in SUBSET Nat, S # {}
  PROVE  \E x \in S : \A y \in S : x <= y
<1> DEFINE Less == {ss \in Nat \X Nat : ss[1] < ss[2]}
<1>1. IsWellFoundedOn(Less, Nat)
  BY NatLessThanWellFounded, Zenon DEF OpToRel
<1>2. PICK x \in S : \A y \in S : ~(<<y, x>> \in Less)
  <2> HIDE DEF Less
  <2> QED BY <1>1, WFMin, Zenon
<1>3. \A y \in S : ~(y < x)
  BY <1>2
<1> QED BY <1>3

\* A nonempty set of indices has a largest element.
LEMMA Largest ==
  ASSUME NEW n \in Nat, NEW S \in SUBSET (1 .. n), S # {}
  PROVE  \E x \in S : \A y \in S : y <= x
<1> DEFINE T == {n - x : x \in S}
<1>1. T \in SUBSET Nat
  OBVIOUS
<1>2. T # {}
  <2>1. PICK x \in S : TRUE
    OBVIOUS
  <2>2. n - x \in T
    OBVIOUS
  <2> HIDE DEF T
  <2> QED BY <2>2
<1>3. PICK t \in T : \A y \in T : t <= y
  <2> HIDE DEF T
  <2> QED BY <1>1, <1>2, Smallest
<1>4. PICK x \in S : t = n - x
  BY <1>3
<1>5. ASSUME NEW y \in S PROVE y <= x
  <2>1. n - y \in T
    OBVIOUS
  <2>2. t <= n - y
    BY <2>1, <1>3
  <2> QED BY <2>2, <1>4
<1> QED BY <1>5

-----------------------------------------------------------------------------
(* The automaton's handlers keep its type.                                 *)

\* peer_configured stores a number.
LEMMA PeerValueType ==
  ASSUME NEW l \in Layers, NEW opts \in Seq(OptionRecords)
  PROVE  PeerValue(l, opts) \in Int
<1> DEFINE told == {i \in DOMAIN opts : opts[i].kind = PeerKind(l)}
           first == CHOOSE i \in told : \A j \in told : i <= j
<1>1. CASE told = {}
  BY <1>1, ValueAssumption DEF PeerValue, PeerDefault, Unspecified
<1>2. CASE told # {}
  <2>1. told \in SUBSET Nat
    OBVIOUS
  <2>2. first \in told
    <3> HIDE DEF told
    <3> QED BY <1>2, <2>1, Smallest
  <2>3. opts[first] \in OptionRecords
    BY <2>2
  <2> QED BY <1>2, <2>3 DEF PeerValue, OptionRecords
<1> QED BY <1>1, <1>2

\* accept_nak keeps every wanted value a number, and LCP's MRU within the
\* default.
LEMMA AcceptNakType ==
  ASSUME NEW l \in Layers, NEW f \in Fsms(l), NEW opts \in Seq(OptionRecords)
  PROVE  /\ AcceptNak(f, opts) = [f EXCEPT !.want = AcceptNak(f, opts).want]
         /\ AcceptNak(f, opts).want \in [OurKinds(l) -> Int]
         /\ l = "lcp" /\ f.want["mru"] <= DefaultMru
              => AcceptNak(f, opts).want["mru"] <= DefaultMru
<1> DEFINE taken(k) == {i \in DOMAIN opts : /\ opts[i].kind = k
                                            /\ TakesNak(f.layer, k, opts[i].value)}
           last(S) == CHOOSE i \in S : \A j \in S : j <= i
           value(k) == IF taken(k) = {} THEN f.want[k] ELSE opts[last(taken(k))].value
<1>0. f.layer = l /\ f.want \in [OurKinds(l) -> Int]
  BY DEF Fsms
<1>1. ASSUME NEW k \in OurKinds(l), taken(k) # {}
      PROVE  last(taken(k)) \in taken(k)
  <2>1. taken(k) \in SUBSET (1 .. Len(opts)) /\ Len(opts) \in Nat
    OBVIOUS
  <2> HIDE DEF taken
  <2> QED BY <1>1, <2>1, Largest
<1>2. \A k \in OurKinds(l) : value(k) \in Int
  <2> TAKE k \in OurKinds(l)
  <2>1. CASE taken(k) = {}
    BY <2>1, <1>0
  <2>2. CASE taken(k) # {}
    <3>1. last(taken(k)) \in taken(k)
      BY <1>1, <2>2
    <3>2. opts[last(taken(k))] \in OptionRecords
      BY <3>1
    <3> QED BY <2>2, <3>2 DEF OptionRecords
  <2> QED BY <2>1, <2>2
<1>3. l = "lcp" /\ f.want["mru"] <= DefaultMru => value("mru") <= DefaultMru
  <2> SUFFICES ASSUME l = "lcp", f.want["mru"] <= DefaultMru, taken("mru") # {}
               PROVE  value("mru") <= DefaultMru
    OBVIOUS
  <2>1. last(taken("mru")) \in taken("mru")
    BY <1>1 DEF OurKinds
  <2> QED BY <2>1, <1>0 DEF TakesNak
<1>4. AcceptNak(f, opts) = [f EXCEPT !.want = [k \in OurKinds(l) |-> value(k)]]
  BY <1>0 DEF AcceptNak
<1>5. AcceptNak(f, opts).want = [k \in OurKinds(l) |-> value(k)]
  BY <1>4 DEF Fsms
<1>6. l = "lcp" => "mru" \in OurKinds(l)
  BY DEF OurKinds
<1> HIDE DEF value
<1> QED BY <1>2, <1>3, <1>4, <1>5, <1>6

-----------------------------------------------------------------------------
(* What each handler of the automaton does.                                *)

USE DEF Layers

\* Concatenation and appending join what the sequences hold.
LEMMA Joined ==
  ASSUME NEW s, NEW t, IsSeq(s), IsSeq(t)
  PROVE  IsSeq(s \o t) /\ Elements(s \o t) = Elements(s) \cup Elements(t)
<1> DEFINE S == Elements(s) \cup Elements(t)
           r == s \o t
<1>1. s \in Seq(S) /\ t \in Seq(S)
  <2>1. Elements(s) \subseteq S /\ Elements(t) \subseteq S
    OBVIOUS
  <2> HIDE DEF S
  <2> QED BY <2>1, SeqMonotonic DEF IsSeq
<1> HIDE DEF S
<1>2. /\ r \in Seq(S) /\ Len(r) = Len(s) + Len(t) /\ Len(s) \in Nat /\ Len(t) \in Nat
      /\ \A i \in 1 .. Len(s) : r[i] = s[i]
      /\ \A i \in 1 .. Len(t) : r[Len(s) + i] = t[i]
  BY <1>1
<1> HIDE DEF r
<1>3. DOMAIN s = 1 .. Len(s) /\ DOMAIN t = 1 .. Len(t) /\ DOMAIN r = 1 .. (Len(s) + Len(t))
  BY <1>1, <1>2
<1>4. Elements(s) \subseteq Elements(r)
  BY <1>2, <1>3 DEF Elements
<1>5. Elements(t) \subseteq Elements(r)
  <2> SUFFICES ASSUME NEW i \in 1 .. Len(t) PROVE t[i] \in Elements(r)
    BY <1>3 DEF Elements
  <2>1. Len(s) + i \in 1 .. (Len(s) + Len(t)) /\ r[Len(s) + i] = t[i]
    BY <1>2
  <2> QED BY <1>3, <2>1 DEF Elements
<1>6. Elements(r) \subseteq S
  BY <1>2 DEF Elements
<1>7. Elements(r) = S
  BY <1>4, <1>5, <1>6 DEF S
<1> QED BY <1>2, <1>7 DEF IsSeq, S, r

\* The elements of a sequence with one more at its end.
LEMMA Appended ==
  ASSUME NEW s, NEW x, IsSeq(s)
  PROVE  IsSeq(Append(s, x)) /\ Elements(Append(s, x)) = Elements(s) \cup {x}
<1> DEFINE S == Elements(s) \cup {x}
           r == Append(s, x)
<1>1. s \in Seq(S) /\ x \in S
  <2>1. Elements(s) \subseteq S /\ x \in S
    OBVIOUS
  <2> HIDE DEF S
  <2> QED BY <2>1, SeqMonotonic DEF IsSeq
<1> HIDE DEF S
<1>2. /\ r \in Seq(S) /\ Len(r) = Len(s) + 1 /\ Len(s) \in Nat
      /\ \A i \in 1 .. Len(s) : r[i] = s[i]
      /\ r[Len(s) + 1] = x
  BY <1>1
<1> HIDE DEF r
<1>3. DOMAIN s = 1 .. Len(s) /\ DOMAIN r = 1 .. (Len(s) + 1)
  BY <1>1, <1>2
<1>4. Elements(s) \subseteq Elements(r) /\ x \in Elements(r)
  BY <1>2, <1>3 DEF Elements
<1>5. Elements(r) \subseteq S
  BY <1>2 DEF Elements
<1>6. Elements(r) = S
  BY <1>4, <1>5 DEF S
<1> QED BY <1>2, <1>6 DEF IsSeq, S, r

\* The empty sequence and one of a single action.
LEMMA Singles ==
  /\ Elements(<<>>) = {} /\ IsSeq(<<>>)
  /\ \A x : Elements(<<x>>) = {x} /\ IsSeq(<<x>>)
  BY DEF Elements, IsSeq

\* Sending nothing, or one packet that is no Configure-Request, is harmless.
LEMMA HarmlessOut ==
  ASSUME NEW l \in Layers
  PROVE  /\ Harmless(<<>>, l)
         /\ \A f \in Fsms(l) : \A code : code # "ConfReq" => Harmless(<<Send(f, code)>>, l)
  BY Singles DEF Harmless, Send, Fsms

\* The budget of an automaton is a natural number.
LEMMA BudgetType ==
  ASSUME NEW l \in Layers, NEW f \in Fsms(l)
  PROVE  Budget(f) \in Nat
  BY CountsAssumption DEF Budget, Fsms, Smaller

\* Neither more negative answers nor fewer retransmissions raise the budget.
LEMMA BudgetFalls ==
  ASSUME NEW l \in Layers, NEW f \in Fsms(l), NEW g \in Fsms(l),
         f.nakLoops <= g.nakLoops,
         g.state \in Negotiating => f.state \in Negotiating /\ g.retransmits <= f.retransmits
  PROVE  Budget(g) <= Budget(f)
<1>1. f.nakLoops \in Nat /\ g.nakLoops \in Nat /\ f.retransmits \in Nat /\ g.retransmits \in Nat
  BY DEF Fsms
<1> QED BY <1>1, CountsAssumption DEF Budget, Smaller

\* What a handler leaves when it sends no Configure-Request and changes
\* nothing such a request holds.
PlainMove(f, g, outcome) ==
  /\ g.want = f.want /\ g.ask = f.ask
  /\ g.nakLoops = f.nakLoops /\ g.retransmits = f.retransmits
  /\ outcome \in {"none", "Up", "Down"}
  /\ outcome = "Up" => f.state \in Negotiating /\ g.state = "Opened"
  /\ outcome = "Down" => g.state = "Closed" /\ ~g.timer
  /\ outcome = "none" /\ f.state \in Negotiating => g.state \in Negotiating
  /\ outcome = "none" /\ f.state \notin Negotiating => g.state = f.state

\* All that is claimed of a handler's step s from f.
Fine(f, s, l) == Sound(s.fsm, l) /\ Moved(f, s) /\ Asked(f, s, l)

\* A step that sends no Configure-Request and makes a plain move is fine.
LEMMA PlainStep ==
  ASSUME NEW l \in Layers, NEW f \in Fsms(l), NEW g, NEW out, NEW outcome,
         Sound(g, l), Harmless(out, l), PlainMove(f, g, outcome)
  PROVE  Fine(f, Step(g, out, outcome), l)
<1>1. g \in Fsms(l)
  BY DEF Sound
<1>2. /\ f.nakLoops <= g.nakLoops
      /\ g.state \in Negotiating => f.state \in Negotiating /\ g.retransmits <= f.retransmits
  BY DEF PlainMove, Negotiating, Fsms
<1>3. Budget(g) <= Budget(f)
  BY <1>1, <1>2, BudgetFalls DEF PlainMove
<1>4. Moved(f, Step(g, out, outcome))
  BY DEF Moved, Step, PlainMove
<1>5. Request(g) = Request(f)
  BY <1>1 DEF Request, Fsms, PlainMove
<1>6. Asked(f, Step(g, out, outcome), l)
  BY <1>3, <1>5 DEF Asked, Step, Harmless
<1> QED BY <1>4, <1>6 DEF Fine, Step

\* Doing nothing is fine.
LEMMA QuietOk ==
  ASSUME NEW l \in Layers, NEW f, Sound(f, l)
  PROVE  Fine(f, Quiet(f), l)
<1>1. f \in Fsms(l) /\ PlainMove(f, f, "none")
  BY DEF Sound, PlainMove, Fsms
<1> QED BY <1>1, PlainStep, HarmlessOut DEF Quiet

\* Fsm::finish is fine.
LEMMA FinishOk ==
  ASSUME NEW l \in Layers, NEW f, Sound(f, l), NEW out, Harmless(out, l)
  PROVE  Fine(f, Finish(f, out), l)
<1> DEFINE g == [f EXCEPT !.state = "Closed", !.timer = FALSE]
<1>1. Sound(g, l) /\ PlainMove(f, g, "Down")
  BY DEF Sound, Fsms, States, Negotiating, PlainMove
<1>2. f \in Fsms(l)
  BY DEF Sound
<1> HIDE DEF g
<1>3. Fine(f, Step(g, out, "Down"), l)
  BY <1>1, <1>2, PlainStep
<1> QED BY <1>3 DEF Finish, g

\* on_ack
LEMMA OnAckOk ==
  ASSUME NEW l \in Layers, NEW f, Sound(f, l), NEW id
  PROVE  Fine(f, OnAck(f, id), l)
<1>0. f \in Fsms(l)
  BY DEF Sound
<1>1. CASE id = f.id /\ f.state = "ReqSent"
  <2> DEFINE g == [f EXCEPT !.state = "AckRcvd"]
  <2>1. Sound(g, l) /\ PlainMove(f, g, "none")
    BY <1>1 DEF Sound, Fsms, States, Negotiating, PlainMove
  <2>2. OnAck(f, id) = Step(g, <<>>, "none")
    BY <1>1 DEF OnAck, Quiet
  <2> HIDE DEF g
  <2> QED BY <1>0, <2>1, <2>2, PlainStep, HarmlessOut
<1>2. CASE id = f.id /\ f.state = "AckSent"
  <2> DEFINE g == [f EXCEPT !.state = "Opened", !.timer = FALSE]
  <2>1. Sound(g, l) /\ PlainMove(f, g, "Up")
    BY <1>2 DEF Sound, Fsms, States, Negotiating, PlainMove
  <2>2. OnAck(f, id) = Step(g, <<>>, "Up")
    BY <1>2 DEF OnAck, Quiet
  <2> HIDE DEF g
  <2> QED BY <1>0, <2>1, <2>2, PlainStep, HarmlessOut
<1>3. CASE ~(id = f.id /\ f.state = "ReqSent") /\ ~(id = f.id /\ f.state = "AckSent")
  BY <1>3, QuietOk DEF OnAck
<1> QED BY <1>1, <1>2, <1>3

\* on_code_reject
LEMMA OnCodeRejectOk ==
  ASSUME NEW l \in Layers, NEW f, Sound(f, l), NEW essential \in BOOLEAN
  PROVE  Fine(f, OnCodeReject(f, essential), l)
<1>0. f \in Fsms(l)
  BY DEF Sound
<1>1. CASE essential
  BY <1>1, FinishOk, HarmlessOut DEF OnCodeReject
<1>2. CASE ~essential
  <2> DEFINE g == [f EXCEPT !.state = IF @ = "AckRcvd" THEN "ReqSent" ELSE @]
  <2>1. Sound(g, l) /\ PlainMove(f, g, "none")
    BY DEF Sound, Fsms, States, Negotiating, PlainMove
  <2>2. OnCodeReject(f, essential) = Step(g, <<>>, "none")
    BY <1>2 DEF OnCodeReject, Quiet
  <2> HIDE DEF g
  <2> QED BY <1>0, <2>1, <2>2, PlainStep, HarmlessOut
<1> QED BY <1>1, <1>2

\* The next identifier of an automaton is its only change.
LEMMA NextIdType ==
  ASSUME NEW l \in Layers, NEW f \in Fsms(l)
  PROVE  /\ NextId(f) \in Fsms(l)
         /\ NextId(f) = [f EXCEPT !.id = NextId(f).id]
<1>1. (f.id + 1) % IdMod \in Ids
  BY IdAssumption DEF Ids, Fsms
<1> QED BY <1>1 DEF NextId, Fsms

\* on_request
LEMMA OnRequestOk ==
  ASSUME NEW l \in Layers, NEW f, Sound(f, l), f.state # "Closing",
         NEW opts \in Seq(OptionRecords)
  PROVE  Fine(f, OnRequest(f, opts), l)
<1> DEFINE verdicts == {Review(f, opts[i]) : i \in DOMAIN opts}
           answer == CASE "Rej" \in verdicts -> "ConfRej"
                       [] "Rej" \notin verdicts /\ "Nak" \in verdicts -> "ConfNak"
                       [] OTHER -> "ConfAck"
           out == <<Send(f, answer)>>
           configured == [f EXCEPT !.peer = PeerValue(f.layer, opts), !.peerOptions = opts]
<1>0. f \in Fsms(l) /\ f.layer = l
  BY DEF Sound, Fsms
<1>1. answer \in {"ConfRej", "ConfNak", "ConfAck"}
  <2> HIDE DEF verdicts
  <2> QED OBVIOUS
<1>2. Harmless(out, l)
  <2> HIDE DEF answer
  <2> QED BY <1>0, <1>1, HarmlessOut
<1>3. PeerValue(f.layer, opts) \in Int
  BY <1>0, PeerValueType
<1>4. CASE f.state = "Opened" /\ opts = f.peerOptions
  <2>1. OnRequest(f, opts) = Step(f, <<Send(f, "ConfAck")>>, "none")
    BY <1>4 DEF OnRequest
  <2>2. PlainMove(f, f, "none")
    BY <1>0 DEF PlainMove, Fsms
  <2>3. Harmless(<<Send(f, "ConfAck")>>, l)
    BY <1>0, HarmlessOut
  <2> QED BY <1>0, <2>1, <2>2, <2>3, PlainStep
<1>5. CASE f.state = "Opened" /\ opts # f.peerOptions
  <2>1. OnRequest(f, opts) = Finish(f, <<>>)
    BY <1>5 DEF OnRequest
  <2> QED BY <2>1, FinishOk, HarmlessOut
<1>6. CASE f.state \in {"Initial", "Closed"}
  <2>1. OnRequest(f, opts) = Quiet(f)
    BY <1>6 DEF OnRequest
  <2> QED BY <2>1, QuietOk
<1>7. CASE f.state \in Negotiating
  <2>0. f.state \notin {"Initial", "Closed", "Opened"}
    BY <1>7 DEF Negotiating
  <2>1. CASE answer = "ConfAck" /\ f.state = "AckRcvd"
    <3> DEFINE g == [configured EXCEPT !.state = "Opened", !.timer = FALSE]
    <3>1. Sound(g, l) /\ PlainMove(f, g, "Up")
      BY <1>0, <1>3, <1>7, <2>1 DEF Sound, Fsms, States, Negotiating, PlainMove
    <3>2. OnRequest(f, opts) = Step(g, out, "Up")
      BY <2>0, <2>1 DEF OnRequest
    <3> HIDE DEF g, out
    <3> QED BY <1>0, <1>2, <3>1, <3>2, PlainStep
  <2>2. CASE answer = "ConfAck" /\ f.state # "AckRcvd"
    <3> DEFINE g == [configured EXCEPT !.state = "AckSent"]
    <3>1. Sound(g, l) /\ PlainMove(f, g, "none")
      BY <1>0, <1>3, <1>7, <2>2 DEF Sound, Fsms, States, Negotiating, PlainMove
    <3>2. OnRequest(f, opts) = Step(g, out, "none")
      BY <2>0, <2>2 DEF OnRequest
    <3> HIDE DEF g, out
    <3> QED BY <1>0, <1>2, <3>1, <3>2, PlainStep
  <2>3. CASE answer # "ConfAck"
    <3> DEFINE g == [f EXCEPT !.state = IF @ = "AckSent" THEN "ReqSent" ELSE @]
    <3>1. Sound(g, l) /\ PlainMove(f, g, "none")
      BY <1>0, <1>7 DEF Sound, Fsms, States, Negotiating, PlainMove
    <3>2. OnRequest(f, opts) = Step(g, out, "none")
      BY <2>0, <2>3 DEF OnRequest
    <3> HIDE DEF g, out
    <3> QED BY <1>0, <1>2, <3>1, <3>2, PlainStep
  <2> QED BY <2>1, <2>2, <2>3
<1> QED BY <1>0, <1>4, <1>5, <1>6, <1>7 DEF Fsms, States, Negotiating

\* send_request from an automaton g that f has become: the request holds what
\* g wants, and its cost is on the budget.
LEMMA SendRequestOk ==
  ASSUME NEW l \in Layers, NEW f \in Fsms(l), NEW g \in Fsms(l),
         l = "lcp" => g.want["mru"] <= DefaultMru,
         g.state \notin {"Initial", "Opened"},
         f.state \in Negotiating => g.state \in Negotiating,
         f.state \notin Negotiating => g.state = f.state,
         Budget(g) + 1 <= Budget(f)
  PROVE  Fine(f, SendRequest(g), l)
<1> DEFINE h == [g EXCEPT !.timer = TRUE]
<1>1. /\ Sound(h, l)
      /\ h.state = g.state /\ h.id = g.id /\ h.layer = l /\ g.layer = l
      /\ h.want = g.want /\ h.ask = g.ask
      /\ h.nakLoops = g.nakLoops /\ h.retransmits = g.retransmits
  BY DEF Sound, Fsms
<1>2. SendRequest(g) = Step(h, <<SendConfReq(g)>>, "none")
  BY DEF SendRequest
<1> HIDE DEF h
<1>3. Request(h) = Request(g)
  BY <1>1 DEF Request
<1>4. SendConfReq(h) = SendConfReq(g) /\ SendConfReq(h).do = "Send" /\ SendConfReq(h).layer = l
  BY <1>1, <1>3 DEF SendConfReq
<1>5. Budget(h) = Budget(g)
  BY <1>1 DEF Budget
<1>6. Moved(f, Step(h, <<SendConfReq(g)>>, "none"))
  BY <1>1 DEF Moved, Step
<1>7. Asked(f, Step(h, <<SendConfReq(g)>>, "none"), l)
  BY <1>4, <1>5 DEF Asked, Step
<1> QED BY <1>1, <1>2, <1>6, <1>7 DEF Fine, Step

\* send_terminate
LEMMA SendTerminateOk ==
  ASSUME NEW l \in Layers, NEW f \in Fsms(l), f.state = "Closing",
         l = "lcp" => f.want["mru"] <= DefaultMru
  PROVE  /\ Sound(SendTerminate(f).fsm, l)
         /\ SendTerminate(f).fsm.state = "Closing"
         /\ SendTerminate(f).fsm.nakLoops = f.nakLoops
         /\ SendTerminate(f).outcome = "none"
         /\ Harmless(SendTerminate(f).out, l)
<1> DEFINE g == NextId(f)
           h == [g EXCEPT !.timer = TRUE]
<1>1. g \in Fsms(l) /\ g.state = "Closing" /\ g.want = f.want /\ g.nakLoops = f.nakLoops
  <2>1. g \in Fsms(l) /\ g = [f EXCEPT !.id = g.id]
    BY NextIdType
  <2> HIDE DEF g
  <2>2. g.state = f.state /\ g.want = f.want /\ g.nakLoops = f.nakLoops
    BY <2>1 DEF Fsms
  <2> QED BY <2>1, <2>2
<1>2. SendTerminate(f) = Step(h, <<Send(g, "TermReq")>>, "none")
  BY DEF SendTerminate
<1> HIDE DEF g
<1>3. Sound(h, l) /\ h.state = "Closing" /\ h.nakLoops = f.nakLoops
  BY <1>1 DEF Sound, Fsms, Negotiating
<1>4. Harmless(<<Send(g, "TermReq")>>, l)
  BY <1>1, HarmlessOut
<1> HIDE DEF h
<1> QED BY <1>2, <1>3, <1>4 DEF Step

\* on_nak_or_rej
LEMMA OnNakOrRejOk ==
  ASSUME NEW l \in Layers, NEW f, Sound(f, l), f.state \notin {"Initial", "Closing"},
         NEW code, NEW id, NEW opts \in Seq(OptionRecords)
  PROVE  Fine(f, OnNakOrRej(f, code, id, opts), l)
<1> DEFINE g == [f EXCEPT !.nakLoops = Smaller(@ + 1, NakLoopsCap)]
           asReject == code = "ConfRej" \/ g.nakLoops > MaxNakLoops
           told == IF asReject THEN AcceptRej(g, opts) ELSE AcceptNak(g, opts)
           moved == [told EXCEPT !.state = IF @ = "AckRcvd" THEN "ReqSent" ELSE @]
<1>0. f \in Fsms(l)
  BY DEF Sound
<1>1. /\ Sound(g, l) /\ g.nakLoops = Smaller(f.nakLoops + 1, NakLoopsCap)
      /\ g.state = f.state /\ g.retransmits = f.retransmits /\ g.want = f.want
  <2>1. Smaller(f.nakLoops + 1, NakLoopsCap) \in Nat
    BY <1>0, CountsAssumption DEF Smaller, NakLoopsCap, Fsms
  <2> QED BY <2>1 DEF Sound, Fsms
<1>2. f.nakLoops \in Nat /\ g.nakLoops \in Nat /\ f.retransmits \in Nat
  BY <1>0, <1>1 DEF Sound, Fsms
<1>3. CASE id # f.id \/ f.state = "Opened"
  BY <1>3, QuietOk DEF OnNakOrRej
<1>4. CASE ~(id # f.id \/ f.state = "Opened") /\ g.nakLoops > 2 * MaxNakLoops
  <2> DEFINE h == [g EXCEPT !.state = "Closed", !.timer = FALSE]
  <2>1. OnNakOrRej(f, code, id, opts) = Step(h, <<>>, "Down")
    BY <1>4 DEF OnNakOrRej, Finish
  <2>2. /\ Sound(h, l) /\ h.state = "Closed" /\ ~h.timer /\ h.nakLoops = g.nakLoops
    BY <1>1 DEF Sound, Fsms, States, Negotiating
  <2> HIDE DEF h
  <2>3. Budget(h) <= Budget(f)
    <3> HIDE DEF g
    <3> QED BY <1>1, <1>2, <2>2, CountsAssumption DEF Budget, Smaller, NakLoopsCap, Negotiating
  <2>4. Asked(f, Step(h, <<>>, "Down"), l)
    BY <2>2, <2>3, HarmlessOut DEF Asked, Step, Harmless, Negotiating
  <2>5. Moved(f, Step(h, <<>>, "Down"))
    BY <2>2 DEF Moved, Step
  <2> QED BY <2>1, <2>2, <2>4, <2>5 DEF Fine, Step
<1>5. CASE id = f.id /\ f.state # "Opened" /\ ~(g.nakLoops > 2 * MaxNakLoops)
  <2>1. OnNakOrRej(f, code, id, opts) = SendRequest(NextId(moved))
    BY <1>5 DEF OnNakOrRej
  <2>2. /\ told \in Fsms(l) /\ (l = "lcp" => told.want["mru"] <= DefaultMru)
        /\ told.state = f.state /\ told.nakLoops = g.nakLoops
        /\ told.retransmits = f.retransmits
    <3>1. g \in Fsms(l) /\ (l = "lcp" => g.want["mru"] <= DefaultMru)
      BY <1>1 DEF Sound
    <3> HIDE DEF g
    <3>2. /\ AcceptRej(g, opts) \in Fsms(l)
          /\ AcceptRej(g, opts).want = g.want
          /\ AcceptRej(g, opts).state = g.state
          /\ AcceptRej(g, opts).nakLoops = g.nakLoops
          /\ AcceptRej(g, opts).retransmits = g.retransmits
      BY <3>1 DEF AcceptRej, Fsms
    <3>3. /\ AcceptNak(g, opts) \in Fsms(l)
          /\ l = "lcp" => AcceptNak(g, opts).want["mru"] <= DefaultMru
          /\ AcceptNak(g, opts).state = g.state
          /\ AcceptNak(g, opts).nakLoops = g.nakLoops
          /\ AcceptNak(g, opts).retransmits = g.retransmits
      <4> DEFINE a == AcceptNak(g, opts)
      <4>1. /\ a = [g EXCEPT !.want = a.want]
            /\ a.want \in [OurKinds(l) -> Int]
            /\ l = "lcp" => a.want["mru"] <= DefaultMru
        BY <3>1, AcceptNakType
      <4> HIDE DEF a
      <4>2. a \in Fsms(l) /\ a.state = g.state /\ a.nakLoops = g.nakLoops
            /\ a.retransmits = g.retransmits
        BY <3>1, <4>1 DEF Fsms
      <4> QED BY <4>1, <4>2 DEF a
    <3> HIDE DEF asReject
    <3> QED BY <3>1, <3>2, <3>3, <1>1
  <2> HIDE DEF told, g
  <2>3. /\ moved \in Fsms(l) /\ (l = "lcp" => moved.want["mru"] <= DefaultMru)
        /\ moved.nakLoops = g.nakLoops /\ moved.retransmits = f.retransmits
        /\ f.state \in Negotiating => moved.state \in Negotiating
        /\ f.state \notin Negotiating => moved.state = f.state
    BY <2>2 DEF Fsms, States, Negotiating
  <2> HIDE DEF moved
  <2> DEFINE n == NextId(moved)
  <2>4. /\ n \in Fsms(l) /\ (l = "lcp" => n.want["mru"] <= DefaultMru)
        /\ n.nakLoops = g.nakLoops /\ n.retransmits = f.retransmits
        /\ f.state \in Negotiating => n.state \in Negotiating
        /\ f.state \notin Negotiating => n.state = f.state
    <3>1. n \in Fsms(l) /\ n = [moved EXCEPT !.id = n.id]
      BY <2>3, NextIdType
    <3> HIDE DEF n
    <3>2. n.want = moved.want /\ n.nakLoops = moved.nakLoops
          /\ n.retransmits = moved.retransmits /\ n.state = moved.state
      BY <2>3, <3>1 DEF Fsms
    <3> QED BY <2>3, <3>1, <3>2
  <2> HIDE DEF n
  <2>5. Budget(n) + 1 <= Budget(f)
    <3>1. n.nakLoops = f.nakLoops + 1 /\ f.nakLoops + 1 <= 2 * MaxNakLoops
      BY <1>1, <1>2, <1>5, <2>4, CountsAssumption DEF Smaller, NakLoopsCap
    <3>2. n.state \in Negotiating <=> f.state \in Negotiating
      BY <2>4
    <3> QED BY <1>2, <2>4, <3>1, <3>2, CountsAssumption DEF Budget, Smaller
  <2>6. n.state \notin {"Initial", "Opened"}
    BY <2>4, <1>5 DEF Negotiating
  <2>7. Fine(f, SendRequest(n), l)
    BY <1>0, <2>4, <2>5, <2>6, SendRequestOk
  <2> QED BY <2>1, <2>7 DEF n, moved
<1> QED BY <1>3, <1>4, <1>5

\* timeout, of a layer that negotiates or closes
LEMMA TimeoutFsmOk ==
  ASSUME NEW l \in Layers, NEW f, Sound(f, l), f.state \in Negotiating \cup {"Closing"}
  PROVE  Fine(f, TimeoutFsm(f), l)
<1> DEFINE fewer == f.retransmits - 1
           g == [f EXCEPT !.retransmits = fewer]
<1>0. f \in Fsms(l) /\ f.retransmits \in Nat /\ (l = "lcp" => f.want["mru"] <= DefaultMru)
  BY DEF Sound, Fsms
<1>1. CASE f.retransmits = 0
  BY <1>1, FinishOk, HarmlessOut DEF TimeoutFsm
<1>g. ASSUME f.retransmits # 0
      PROVE  /\ g \in Fsms(l) /\ g.retransmits = fewer /\ g.nakLoops = f.nakLoops
             /\ g.state = f.state /\ g.want = f.want
  <2>1. fewer \in Nat
    BY <1>g, <1>0
  <2> HIDE DEF fewer
  <2> QED BY <1>0, <2>1 DEF Fsms
<1>2. CASE f.retransmits # 0 /\ f.state = "Closing"
  <2>1. TimeoutFsm(f) = SendTerminate(g)
    BY <1>2 DEF TimeoutFsm, Negotiating
  <2>2. /\ g \in Fsms(l) /\ g.state = "Closing" /\ g.want = f.want
        /\ g.nakLoops = f.nakLoops
    BY <1>g, <1>2
  <2> HIDE DEF g
  <2> DEFINE s == SendTerminate(g)
  <2>3. /\ Sound(s.fsm, l) /\ s.fsm.state = "Closing" /\ s.fsm.nakLoops = f.nakLoops
        /\ s.outcome = "none" /\ Harmless(s.out, l)
    BY <1>0, <2>2, SendTerminateOk
  <2> HIDE DEF s
  <2>4. s.fsm \in Fsms(l)
    BY <2>3 DEF Sound
  <2>5. f.nakLoops <= s.fsm.nakLoops /\ s.fsm.state \notin Negotiating
    BY <1>0, <2>3 DEF Negotiating, Fsms
  <2>6. Budget(s.fsm) <= Budget(f)
    BY <1>0, <2>4, <2>5, BudgetFalls
  <2>7. Moved(f, s) /\ Asked(f, s, l)
    BY <1>2, <2>3, <2>6 DEF Moved, Asked, Harmless, Negotiating
  <2> QED BY <2>1, <2>3, <2>7 DEF Fine, s
<1>3. CASE f.retransmits # 0 /\ f.state \in Negotiating
  <2> DEFINE h == [g EXCEPT !.state = IF @ = "AckRcvd" THEN "ReqSent" ELSE @]
  <2>1. TimeoutFsm(f) = SendRequest(h)
    BY <1>3 DEF TimeoutFsm, Negotiating
  <2>2. /\ h \in Fsms(l) /\ h.state \in Negotiating /\ h.want = f.want
        /\ h.nakLoops = f.nakLoops /\ h.retransmits = f.retransmits - 1
    <3> HIDE DEF g
    <3> QED BY <1>g, <1>3 DEF Fsms, States, Negotiating
  <2> HIDE DEF h
  <2>3. f.nakLoops \in Nat
    BY <1>0 DEF Fsms
  <2>4. Budget(h) + 1 <= Budget(f)
    BY <1>0, <1>3, <2>2, <2>3, CountsAssumption DEF Budget, Smaller
  <2>5. h.state \notin {"Initial", "Opened"}
    BY <2>2 DEF Negotiating
  <2> QED BY <1>0, <1>3, <2>1, <2>2, <2>4, <2>5, SendRequestOk
<1> QED BY <1>1, <1>2, <1>3 DEF Negotiating

\* input, of a layer that has been opened
LEMMA InputFsmOk ==
  ASSUME NEW l \in Layers, NEW f, Sound(f, l), f.state # "Initial", NEW p, HasOptions(p)
  PROVE  Fine(f, InputFsm(f, p), l)
<1>0. f \in Fsms(l)
  BY DEF Sound
<1>1. CASE f.state = "Closing" /\ p.code \notin {"TermReq", "TermAck"}
  <2>1. InputFsm(f, p) = Quiet(f)
    BY <1>1 DEF InputFsm
  <2> QED BY <2>1, QuietOk
<1>2. CASE p.code = "TermReq"
  <2>1. InputFsm(f, p) = Finish(f, <<Send(f, "TermAck")>>)
    BY <1>2 DEF InputFsm
  <2>2. Harmless(<<Send(f, "TermAck")>>, l)
    BY <1>0, HarmlessOut
  <2> QED BY <2>1, <2>2, FinishOk
<1>3. CASE p.code = "TermAck"
  <2>1. InputFsm(f, p) \in {Finish(f, <<>>), Quiet(f)}
    BY <1>3 DEF InputFsm
  <2> QED BY <2>1, FinishOk, QuietOk, HarmlessOut
<1>4. CASE f.state # "Closing" /\ p.code = "ConfReq"
  <2>1. InputFsm(f, p) = OnRequest(f, p.opts)
    BY <1>4 DEF InputFsm
  <2> QED BY <1>4, <2>1, OnRequestOk DEF HasOptions
<1>5. CASE f.state # "Closing" /\ p.code = "ConfAck"
  <2>1. InputFsm(f, p) = OnAck(f, p.id)
    BY <1>5 DEF InputFsm
  <2> QED BY <2>1, OnAckOk
<1>6. CASE f.state # "Closing" /\ p.code \in {"ConfNak", "ConfRej"}
  <2>1. InputFsm(f, p) = OnNakOrRej(f, p.code, p.id, p.opts)
    BY <1>6 DEF InputFsm
  <2> QED BY <1>6, <2>1, OnNakOrRejOk DEF HasOptions
<1>7. CASE f.state # "Closing" /\ p.code \in {"CodeRejEssential", "CodeRejOther"}
  <2>1. InputFsm(f, p) \in {OnCodeReject(f, TRUE), OnCodeReject(f, FALSE)}
    BY <1>7 DEF InputFsm
  <2> QED BY <2>1, OnCodeRejectOk
<1>8. CASE /\ f.state # "Closing"
           /\ p.code \notin {"TermReq", "TermAck", "ConfReq", "ConfAck", "ConfNak", "ConfRej",
                             "CodeRejEssential", "CodeRejOther"}
  <2> DEFINE g == NextId(f)
  <2>1. InputFsm(f, p) = Step(g, <<Send(g, "CodeRej")>>, "none")
    BY <1>8 DEF InputFsm
  <2>2. g \in Fsms(l) /\ g = [f EXCEPT !.id = g.id]
    BY <1>0, NextIdType
  <2> HIDE DEF g
  <2>3. /\ g.want = f.want /\ g.ask = f.ask /\ g.nakLoops = f.nakLoops
        /\ g.retransmits = f.retransmits /\ g.state = f.state /\ g.timer = f.timer
    BY <1>0, <2>2 DEF Fsms
  <2>4. Sound(g, l) /\ PlainMove(f, g, "none")
    BY <2>2, <2>3 DEF Sound, PlainMove
  <2>5. Harmless(<<Send(g, "CodeRej")>>, l)
    BY <2>2, HarmlessOut
  <2> QED BY <1>0, <2>1, <2>4, <2>5, PlainStep
<1> QED BY <1>1, <1>2, <1>3, <1>4, <1>5, <1>6, <1>7, <1>8

\* open
LEMMA OpenFsmOk ==
  ASSUME NEW l \in Layers, NEW f, Sound(f, l)
  PROVE  /\ Sound(OpenFsm(f).fsm, l)
         /\ OpenFsm(f).fsm.state = "ReqSent"
         /\ OpenFsm(f).out = <<SendConfReq(OpenFsm(f).fsm)>>
         /\ Budget(OpenFsm(f).fsm) = MaxConfigure(l) + 2 * MaxNakLoops
<1> DEFINE g == NextId(f)
           h == [g EXCEPT !.state = "ReqSent", !.retransmits = MaxConfigure(f.layer),
                          !.nakLoops = 0]
           k == [h EXCEPT !.timer = TRUE]
<1>0. f \in Fsms(l) /\ f.layer = l /\ MaxConfigure(l) \in Nat
  BY CountsAssumption DEF Sound, Fsms, MaxConfigure
<1>1. g \in Fsms(l) /\ g.want = f.want
  <2>1. g \in Fsms(l) /\ g = [f EXCEPT !.id = g.id]
    BY <1>0, NextIdType
  <2> HIDE DEF g
  <2> QED BY <1>0, <2>1 DEF Fsms
<1>2. OpenFsm(f) = Step(k, <<SendConfReq(h)>>, "none")
  BY DEF OpenFsm, SendRequest
<1> HIDE DEF g
<1>3. /\ h \in Fsms(l) /\ h.want = f.want /\ h.state = "ReqSent"
      /\ h.nakLoops = 0 /\ h.retransmits = MaxConfigure(l)
  BY <1>0, <1>1 DEF Fsms, States
<1> HIDE DEF h
<1>4. /\ Sound(k, l) /\ k.state = "ReqSent" /\ k.nakLoops = 0
      /\ k.retransmits = MaxConfigure(l) /\ k.ask = h.ask /\ k.id = h.id
      /\ k.layer = h.layer /\ k.want = h.want
  BY <1>3 DEF Sound, Fsms, Negotiating
<1> HIDE DEF k
<1>5. SendConfReq(k) = SendConfReq(h)
  BY <1>4 DEF SendConfReq, Request
<1>6. Budget(k) = MaxConfigure(l) + 2 * MaxNakLoops
  BY <1>0, <1>4, CountsAssumption DEF Budget, Smaller, Negotiating
<1> QED BY <1>2, <1>4, <1>5, <1>6 DEF Step

\* close
LEMMA CloseFsmOk ==
  ASSUME NEW l \in Layers, NEW f, Sound(f, l)
  PROVE  /\ Sound(CloseFsm(f).fsm, l)
         /\ Harmless(CloseFsm(f).out, l)
         /\ Budget(CloseFsm(f).fsm) <= Budget(f)
         /\ CloseFsm(f).fsm.state =
              IF f.state \in {"Initial", "Closing", "Closed"} THEN f.state ELSE "Closing"
<1>0. f \in Fsms(l) /\ f.nakLoops \in Nat /\ (l = "lcp" => f.want["mru"] <= DefaultMru)
  BY DEF Sound, Fsms
<1>1. CASE f.state \in {"Initial", "Closing", "Closed"}
  <2>1. CloseFsm(f) = Step(f, <<>>, "none")
    BY <1>1 DEF CloseFsm, Quiet
  <2>2. Budget(f) \in Nat
    BY <1>0, BudgetType
  <2> QED BY <1>1, <2>1, <2>2, HarmlessOut DEF Step
<1>2. CASE f.state \notin {"Initial", "Closing", "Closed"}
  <2> DEFINE g == [f EXCEPT !.state = "Closing", !.retransmits = MaxTerminate]
             s == SendTerminate(g)
  <2>1. CloseFsm(f) = s
    BY <1>2 DEF CloseFsm
  <2>2. g \in Fsms(l) /\ g.state = "Closing" /\ g.want = f.want /\ g.nakLoops = f.nakLoops
    BY <1>0, CountsAssumption DEF Fsms, States
  <2> HIDE DEF g
  <2>3. /\ Sound(s.fsm, l) /\ s.fsm.state = "Closing" /\ s.fsm.nakLoops = f.nakLoops
        /\ Harmless(s.out, l)
    BY <1>0, <2>2, SendTerminateOk
  <2> HIDE DEF s
  <2>4. s.fsm \in Fsms(l) /\ s.fsm.state \notin Negotiating
    BY <2>3 DEF Sound, Negotiating
  <2>5. Budget(s.fsm) <= Budget(f)
    BY <1>0, <2>3, <2>4, BudgetFalls
  <2> QED BY <1>2, <2>1, <2>3, <2>5
<1> QED BY <1>1, <1>2

-----------------------------------------------------------------------------
(* What each call on the link does.                                        *)

\* A link both of whose automatons are sound.
Good(L) == L \in Links /\ Sound(L.lcp, "lcp") /\ Sound(L.ipcp, "ipcp")

\* What a call does for one layer's requests: none, and the automaton can
\* send no more than before, or one, paid for or the first.
Paid(f, g, out, l) ==
  \/ /\ RequestsIn(out, l) = {}
     /\ Budget(g) <= Budget(f)
     /\ g.state \in Negotiating \cup {"Opened"} =>
          f.state \in Negotiating \cup {"Opened"} /\ Request(g) = Request(f)
  \/ /\ RequestsIn(out, l) = {SendConfReq(g)}
     /\ g.state # "Initial"
     /\ \/ Budget(g) + 1 <= Budget(f)
        \/ f.state = "Initial" /\ Budget(g) = MaxConfigure(l) + 2 * MaxNakLoops

Forward(f, g) ==
  /\ f.state = "Closed" => g.state = "Closed"
  /\ f.state = "Closing" => g.state \in {"Closing", "Closed"}
  /\ f.state = "Opened" => g.state \in {"Opened", "Closing", "Closed"}
  /\ f.state # "Initial" => g.state # "Initial"

\* All that is claimed of a call that turns link L into r.link; c tells
\* whether the link has been closed when it returns.
CallOk(L, r, c) ==
  /\ Good(r.link)
  /\ Coherent(r.link, c)
  /\ Paid(L.lcp, r.link.lcp, r.out, "lcp")
  /\ Paid(L.ipcp, r.link.ipcp, r.out, "ipcp")
  /\ Forward(L.lcp, r.link.lcp)
  /\ Forward(L.ipcp, r.link.ipcp)
  /\ \A a \in Elements(r.out) : a.do = "Up" =>
       /\ L.ipcp.state \in Negotiating
       /\ r.link.ipcp.state = "Opened" /\ r.link.lcp.state = "Opened"
       /\ a.local # Unspecified /\ a.mtu <= DefaultMru
  /\ Reports(r.out, "Deliver") => r.link.ipcp.state = "Opened"
  /\ r.link.ipcp.state \in {"Initial"} \cup Negotiating =>
       L.ipcp.state \in {"Initial"} \cup Negotiating

\* Only packets, and none of them a Configure-Request of another layer than l.
OnlyLayer(out, l) ==
  /\ IsSeq(out)
  /\ \A a \in Elements(out) : a.do = "Send" /\ a.layer = l

\* What the handlers' outputs mean for the calls.
LEMMA HarmlessRequests ==
  ASSUME NEW l \in Layers, NEW out, Harmless(out, l)
  PROVE  OnlyLayer(out, l) /\ \A k \in Layers : RequestsIn(out, k) = {}
  BY DEF Harmless, RequestsIn, OnlyLayer

\* What one layer sends holds no Configure-Request of the other.
LEMMA OtherLayer ==
  ASSUME NEW l \in Layers, NEW k \in Layers, k # l, NEW out, OnlyLayer(out, l)
  PROVE  RequestsIn(out, k) = {}
  BY DEF OnlyLayer, RequestsIn

\* Fsm::send_request sends one Configure-Request, of its own layer.
LEMMA RequestOut ==
  ASSUME NEW l \in Layers, NEW f \in Fsms(l)
  PROVE  /\ OnlyLayer(<<SendConfReq(f)>>, l)
         /\ RequestsIn(<<SendConfReq(f)>>, l) = {SendConfReq(f)}
<1>1. SendConfReq(f).do = "Send" /\ SendConfReq(f).layer = l /\ SendConfReq(f).code = "ConfReq"
  BY DEF SendConfReq, Fsms
<1> QED BY <1>1, Singles DEF OnlyLayer, RequestsIn

\* What a fine step of a layer means for the history and for going forward.
LEMMA FineOut ==
  ASSUME NEW l \in Layers, NEW f \in Fsms(l), f.state # "Initial", NEW s, Fine(f, s, l)
  PROVE  /\ OnlyLayer(s.out, l)
         /\ Paid(f, s.fsm, s.out, l)
         /\ Forward(f, s.fsm)
<1>1. s.fsm \in Fsms(l)
  BY DEF Fine, Sound
<1>2. Forward(f, s.fsm) /\ s.fsm.state # "Initial"
  BY <1>1 DEF Fine, Moved, Forward, Negotiating
<1>3. s.fsm.state \in Negotiating \cup {"Opened"} => f.state \in Negotiating \cup {"Opened"}
  BY DEF Fine, Moved, Negotiating
<1>4. CASE Harmless(s.out, l) /\ Budget(s.fsm) <= Budget(f)
           /\ (s.fsm.state \in Negotiating \cup {"Opened"} => Request(s.fsm) = Request(f))
  BY <1>2, <1>3, <1>4, HarmlessRequests DEF Paid
<1>5. CASE s.out = <<SendConfReq(s.fsm)>> /\ Budget(s.fsm) + 1 <= Budget(f)
  BY <1>1, <1>2, <1>5, RequestOut DEF Paid
<1> QED BY <1>4, <1>5 DEF Fine, Asked

\* report_down adds at most the Down action.
LEMMA ReportDownOk ==
  ASSUME NEW L \in Links, NEW out, IsSeq(out)
  PROVE  /\ ReportDown(L, out).link = [L EXCEPT !.down = TRUE]
         /\ \A l \in Layers : RequestsIn(ReportDown(L, out).out, l) = RequestsIn(out, l)
         /\ \A a \in Elements(ReportDown(L, out).out) : a \in Elements(out) \/ a = Down
<1>1. CASE L.down
  BY <1>1 DEF ReportDown, Result, Links
<1>2. CASE ~L.down
  <2>1. Elements(Append(out, Down)) = Elements(out) \cup {Down}
    BY Appended
  <2>2. Down.do = "Down"
    BY DEF Down
  <2>3. ReportDown(L, out).link = [L EXCEPT !.down = TRUE]
        /\ ReportDown(L, out).out = Append(out, Down)
    BY <1>2 DEF ReportDown, Result
  <2>4. \A l \in Layers : RequestsIn(Append(out, Down), l) = RequestsIn(out, l)
    BY <2>1, <2>2 DEF RequestsIn
  <2> QED BY <2>1, <2>3, <2>4
<1> QED BY <1>1, <1>2

\* A layer a call leaves alone.
LEMMA Untouched ==
  ASSUME NEW l \in Layers, NEW f \in Fsms(l), NEW out, RequestsIn(out, l) = {}
  PROVE  Paid(f, f, out, l) /\ Forward(f, f)
<1>1. Budget(f) \in Nat
  BY BudgetType
<1> QED BY <1>1 DEF Paid, Forward

\* A call that only sends packets while it turns L into M.
Quietly(L, M, out) ==
  /\ Good(M)
  /\ IsSeq(out) /\ \A a \in Elements(out) : a.do = "Send"
  /\ Paid(L.lcp, M.lcp, out, "lcp") /\ Paid(L.ipcp, M.ipcp, out, "ipcp")
  /\ Forward(L.lcp, M.lcp) /\ Forward(L.ipcp, M.ipcp)
  /\ M.ipcp.state \in {"Initial"} \cup Negotiating =>
       L.ipcp.state \in {"Initial"} \cup Negotiating

\* A call that reports nothing is in order.
LEMMA PlainCall ==
  ASSUME NEW L, NEW M, NEW out, NEW c, Quietly(L, M, out), Coherent(M, c)
  PROVE  CallOk(L, Result(M, out), c)
  BY DEF Quietly, CallOk, Result, Reports

\* A call that ends with report_down is in order.
LEMMA DownCall ==
  ASSUME NEW L, NEW M, NEW out, NEW c, Quietly(L, M, out), Coherent([M EXCEPT !.down = TRUE], c)
  PROVE  CallOk(L, ReportDown(M, out), c)
<1> DEFINE r == ReportDown(M, out)
           N == [M EXCEPT !.down = TRUE]
<1>1. M \in Links
  BY DEF Quietly, Good
<1>2. /\ r.link = N
      /\ \A l \in Layers : RequestsIn(r.out, l) = RequestsIn(out, l)
      /\ \A a \in Elements(r.out) : a \in Elements(out) \/ a = Down
  BY <1>1, ReportDownOk DEF Quietly
<1>3. \A a \in Elements(r.out) : a.do \in {"Send", "Down"}
  BY <1>2 DEF Quietly, Down
<1>4. Good(N) /\ N.lcp = M.lcp /\ N.ipcp = M.ipcp
  BY <1>1 DEF Quietly, Good, Links
<1> HIDE DEF r, N
<1>5. Paid(L.lcp, N.lcp, r.out, "lcp") /\ Paid(L.ipcp, N.ipcp, r.out, "ipcp")
  BY <1>2, <1>4 DEF Quietly, Paid
<1>6. CallOk(L, r, c)
  BY <1>2, <1>3, <1>4, <1>5 DEF CallOk, Quietly, Reports, N
<1> QED BY <1>6 DEF r

\* A step of LCP alone.
LEMMA LcpAlone ==
  ASSUME NEW L, Good(L), NEW f, Sound(f, "lcp"), NEW out, OnlyLayer(out, "lcp"),
         Paid(L.lcp, f, out, "lcp"), Forward(L.lcp, f)
  PROVE  /\ Quietly(L, [L EXCEPT !.lcp = f], out)
         /\ [L EXCEPT !.lcp = f].lcp = f
         /\ [L EXCEPT !.lcp = f].ipcp = L.ipcp
         /\ [L EXCEPT !.lcp = f].down = L.down
<1> DEFINE M == [L EXCEPT !.lcp = f]
<1>1. Good(M) /\ M.lcp = f /\ M.ipcp = L.ipcp /\ M.down = L.down
  BY DEF Good, Links, Sound
<1>2. L.ipcp \in Fsms("ipcp")
  BY DEF Good, Links
<1>3. RequestsIn(out, "ipcp") = {}
  BY OtherLayer
<1>4. Paid(L.ipcp, L.ipcp, out, "ipcp") /\ Forward(L.ipcp, L.ipcp)
  BY <1>2, <1>3, Untouched
<1> HIDE DEF M
<1>5. Quietly(L, M, out)
  BY <1>1, <1>4 DEF Quietly, OnlyLayer
<1> QED BY <1>1, <1>5 DEF M

\* A step of IPCP alone.
LEMMA IpcpAlone ==
  ASSUME NEW L, Good(L), NEW f, Sound(f, "ipcp"), NEW out, OnlyLayer(out, "ipcp"),
         Paid(L.ipcp, f, out, "ipcp"), Forward(L.ipcp, f),
         f.state \in {"Initial"} \cup Negotiating => L.ipcp.state \in {"Initial"} \cup Negotiating
  PROVE  /\ Quietly(L, [L EXCEPT !.ipcp = f], out)
         /\ [L EXCEPT !.ipcp = f].ipcp = f
         /\ [L EXCEPT !.ipcp = f].lcp = L.lcp
         /\ [L EXCEPT !.ipcp = f].down = L.down
<1> DEFINE M == [L EXCEPT !.ipcp = f]
<1>1. Good(M) /\ M.ipcp = f /\ M.lcp = L.lcp /\ M.down = L.down
  BY DEF Good, Links, Sound
<1>2. L.lcp \in Fsms("lcp")
  BY DEF Good, Links
<1>3. RequestsIn(out, "lcp") = {}
  BY OtherLayer
<1>4. Paid(L.lcp, L.lcp, out, "lcp") /\ Forward(L.lcp, L.lcp)
  BY <1>2, <1>3, Untouched
<1> HIDE DEF M
<1>5. Quietly(L, M, out)
  BY <1>1, <1>4 DEF Quietly, OnlyLayer
<1> QED BY <1>1, <1>5 DEF M

\* Nothing happens, but a packet may be sent.
LEMMA NothingDone ==
  ASSUME NEW L, Good(L), NEW out, NEW l \in Layers, Harmless(out, l)
  PROVE  Quietly(L, L, out)
<1>1. L.lcp \in Fsms("lcp") /\ L.ipcp \in Fsms("ipcp")
  BY DEF Good, Links
<1>2. OnlyLayer(out, l) /\ \A k \in Layers : RequestsIn(out, k) = {}
  BY HarmlessRequests
<1>3. /\ Paid(L.ipcp, L.ipcp, out, "ipcp") /\ Forward(L.ipcp, L.ipcp)
      /\ Paid(L.lcp, L.lcp, out, "lcp") /\ Forward(L.lcp, L.lcp)
  BY <1>1, <1>2, Untouched
<1> QED BY <1>2, <1>3 DEF Quietly, OnlyLayer

\* LCP's handler has returned s: on_lcp.
LEMMA OnLcpOk ==
  ASSUME NEW L, NEW c \in BOOLEAN, Good(L), Coherent(L, c), L.lcp.state # "Initial",
         NEW s, Fine(L.lcp, s, "lcp")
  PROVE  CallOk(L, OnLcp([L EXCEPT !.lcp = s.fsm], s.out, s.outcome), c)
<1> DEFINE M == [L EXCEPT !.lcp = s.fsm]
<1>0. L.lcp \in Fsms("lcp") /\ L.ipcp \in Fsms("ipcp") /\ Sound(s.fsm, "lcp")
  BY DEF Good, Links, Fine
<1>1. OnlyLayer(s.out, "lcp") /\ Paid(L.lcp, s.fsm, s.out, "lcp") /\ Forward(L.lcp, s.fsm)
  BY <1>0, FineOut
<1>2. /\ Quietly(L, M, s.out)
      /\ M.lcp = s.fsm /\ M.ipcp = L.ipcp /\ M.down = L.down
  BY <1>0, <1>1, LcpAlone
<1>3. M \in Links
  BY <1>2 DEF Quietly, Good
<1> HIDE DEF M
<1>4. CASE s.outcome = "none"
  <2>1. OnLcp(M, s.out, s.outcome) = Result(M, s.out)
    BY <1>4 DEF OnLcp
  <2>2. Coherent(M, c)
    BY <1>2, <1>4 DEF Coherent, Fine, Moved, Negotiating
  <2> QED BY <1>2, <2>1, <2>2, PlainCall DEF M
<1>5. CASE s.outcome = "Down"
  <2>1. OnLcp(M, s.out, s.outcome) = ReportDown(M, s.out)
    BY <1>5 DEF OnLcp
  <2> DEFINE N == [M EXCEPT !.down = TRUE]
  <2>2. N.lcp = s.fsm /\ N.ipcp = L.ipcp /\ N.down = TRUE
    BY <1>2, <1>3 DEF Links
  <2> HIDE DEF N
  <2>3. Coherent(N, c)
    BY <2>2, <1>5 DEF Coherent, Fine, Moved, Negotiating
  <2> QED BY <1>2, <2>1, <2>3, DownCall DEF M, N
<1>6. CASE s.outcome = "Up"
  <2> DEFINE o == OpenFsm(L.ipcp)
             N == [M EXCEPT !.ipcp = o.fsm]
             out == s.out \o o.out
  <2>1. OnLcp(M, s.out, s.outcome) = Result(N, out)
    BY <1>2, <1>6 DEF OnLcp
  <2>2. L.lcp.state \in Negotiating /\ s.fsm.state = "Opened"
    BY <1>6 DEF Fine, Moved
  <2>3. L.ipcp.state = "Initial" /\ ~c
    BY <2>2 DEF Coherent
  <2>4. /\ Sound(o.fsm, "ipcp") /\ o.fsm.state = "ReqSent"
        /\ o.out = <<SendConfReq(o.fsm)>>
        /\ Budget(o.fsm) = MaxConfigure("ipcp") + 2 * MaxNakLoops
    BY OpenFsmOk DEF Good
  <2> HIDE DEF o
  <2>5. OnlyLayer(o.out, "ipcp") /\ RequestsIn(o.out, "ipcp") = {SendConfReq(o.fsm)}
    BY <2>4, RequestOut DEF Sound
  <2>6. IsSeq(out) /\ Elements(out) = Elements(s.out) \cup Elements(o.out)
    BY <1>1, <2>5, Joined DEF OnlyLayer
  <2> HIDE DEF out
  <2>7. RequestsIn(s.out, "ipcp") = {} /\ RequestsIn(o.out, "lcp") = {}
    BY <1>1, <2>5, OtherLayer
  <2>8. /\ RequestsIn(out, "lcp") = RequestsIn(s.out, "lcp")
        /\ RequestsIn(out, "ipcp") = {SendConfReq(o.fsm)}
        /\ \A a \in Elements(out) : a.do = "Send"
    BY <1>1, <2>5, <2>6, <2>7 DEF RequestsIn, OnlyLayer
  <2>9. Good(N) /\ N.lcp = s.fsm /\ N.ipcp = o.fsm /\ N.down = L.down
    BY <1>2, <1>3, <2>4 DEF Links, Quietly, Good, Sound
  <2> HIDE DEF N
  <2>10. Paid(L.lcp, s.fsm, out, "lcp")
    BY <1>1, <2>8 DEF Paid
  <2>11. Paid(L.ipcp, o.fsm, out, "ipcp") /\ Forward(L.ipcp, o.fsm)
    BY <2>3, <2>4, <2>8 DEF Paid, Forward
  <2>12. Quietly(L, N, out)
    BY <1>1, <2>3, <2>6, <2>8, <2>9, <2>10, <2>11 DEF Quietly
  <2>13. Coherent(N, c)
    BY <2>2, <2>3, <2>4, <2>9 DEF Coherent, Negotiating
  <2> QED BY <2>1, <2>12, <2>13, PlainCall DEF M
<1> QED BY <1>4, <1>5, <1>6 DEF Fine, Moved, M

\* LCP is closed because IPCP, now f, is: the packets sent are s.out and LCP's
\* Terminate-Request.
LEMMA CloseLcp ==
  ASSUME NEW L, Good(L), L.lcp.state = "Opened", NEW f, Sound(f, "ipcp"), f.state = "Closed",
         NEW out, OnlyLayer(out, "ipcp"), Paid(L.ipcp, f, out, "ipcp"), Forward(L.ipcp, f),
         NEW M \in Links, M.ipcp = f, M.lcp = CloseFsm(L.lcp).fsm
  PROVE  /\ Quietly(L, M, out \o CloseFsm(L.lcp).out)
         /\ M.lcp.state = "Closing"
<1> DEFINE k == CloseFsm(L.lcp)
           all == out \o k.out
<1>1. /\ Sound(k.fsm, "lcp") /\ Harmless(k.out, "lcp") /\ Budget(k.fsm) <= Budget(L.lcp)
      /\ k.fsm.state = "Closing"
  BY CloseFsmOk DEF Good
<1> HIDE DEF k
<1>2. OnlyLayer(k.out, "lcp") /\ \A j \in Layers : RequestsIn(k.out, j) = {}
  BY <1>1, HarmlessRequests
<1>3. RequestsIn(out, "lcp") = {}
  BY OtherLayer
<1>4. IsSeq(all) /\ Elements(all) = Elements(out) \cup Elements(k.out)
  BY <1>2, Joined DEF OnlyLayer
<1> HIDE DEF all
<1>5. /\ RequestsIn(all, "lcp") = {} /\ RequestsIn(all, "ipcp") = RequestsIn(out, "ipcp")
      /\ \A a \in Elements(all) : a.do = "Send"
  BY <1>2, <1>3, <1>4 DEF RequestsIn, OnlyLayer
<1>6. Paid(L.ipcp, f, all, "ipcp") /\ Paid(L.lcp, k.fsm, all, "lcp") /\ Forward(L.lcp, k.fsm)
  BY <1>1, <1>5 DEF Paid, Forward, Negotiating
<1>7. Good(M) /\ M.lcp = k.fsm
  BY <1>1 DEF Good, k
<1>8. f.state \notin {"Initial"} \cup Negotiating
  BY DEF Negotiating
<1>9. Quietly(L, M, all)
  BY <1>4, <1>5, <1>6, <1>7, <1>8 DEF Quietly
<1> QED BY <1>1, <1>7, <1>9 DEF all, k

\* IPCP's handler has returned s: on_ipcp.
LEMMA OnIpcpOk ==
  ASSUME NEW L, NEW c \in BOOLEAN, Good(L), Coherent(L, c), L.lcp.state = "Opened",
         NEW s, Fine(L.ipcp, s, "ipcp")
  PROVE  CallOk(L, OnIpcp([L EXCEPT !.ipcp = s.fsm], s.out, s.outcome), c)
<1> DEFINE M == [L EXCEPT !.ipcp = s.fsm]
           k == CloseFsm(L.lcp)
<1>0. /\ L.lcp \in Fsms("lcp") /\ L.ipcp \in Fsms("ipcp") /\ Sound(s.fsm, "ipcp")
      /\ L.ipcp.state \in Negotiating \cup {"Opened"} /\ ~c
  BY DEF Good, Links, Fine, Coherent
<1>1. OnlyLayer(s.out, "ipcp") /\ Paid(L.ipcp, s.fsm, s.out, "ipcp") /\ Forward(L.ipcp, s.fsm)
  BY <1>0, FineOut DEF Negotiating
<1>2. s.fsm.state \in {"Initial"} \cup Negotiating => L.ipcp.state \in {"Initial"} \cup Negotiating
  BY <1>0, <1>1 DEF Forward, Negotiating
<1>3. /\ Quietly(L, M, s.out)
      /\ M.ipcp = s.fsm /\ M.lcp = L.lcp /\ M.down = L.down
  BY <1>0, <1>1, <1>2, IpcpAlone
<1>4. M \in Links
  BY <1>3 DEF Quietly, Good
<1> HIDE DEF M
<1>5. CASE s.outcome = "none"
  <2>1. OnIpcp(M, s.out, s.outcome) = Result(M, s.out)
    BY <1>5 DEF OnIpcp
  <2>2. Coherent(M, c)
    BY <1>0, <1>3, <1>5 DEF Coherent, Fine, Moved, Negotiating, Sound
  <2> QED BY <1>3, <2>1, <2>2, PlainCall DEF M
<1>6. CASE s.outcome = "Up" /\ s.fsm.want["address"] = Unspecified
  <2> DEFINE f == [s.fsm EXCEPT !.state = "Closed"]
             N == [M EXCEPT !.ipcp.state = "Closed", !.lcp = k.fsm]
             out == s.out \o k.out
  <2>1. OnIpcp(M, s.out, s.outcome) = ReportDown(N, out)
    BY <1>3, <1>6 DEF OnIpcp
  <2>2. s.fsm.state = "Opened" /\ L.ipcp.state \in Negotiating
    BY <1>6 DEF Fine, Moved
  <2>3. /\ Sound(f, "ipcp") /\ f.state = "Closed" /\ f.nakLoops = s.fsm.nakLoops
        /\ f.timer = s.fsm.timer
    BY <1>0, <2>2 DEF Sound, Fsms, States, Negotiating
  <2>4. Sound(k.fsm, "lcp")
    BY CloseFsmOk DEF Good
  <2> HIDE DEF k
  <2>5. N \in Links /\ N.ipcp = f /\ N.lcp = k.fsm
    BY <1>3, <1>4, <2>3, <2>4 DEF Links, Sound
  <2> HIDE DEF f
  <2>6. Paid(L.ipcp, f, s.out, "ipcp")
    <3>1. Budget(f) = Budget(s.fsm)
      BY <2>2, <2>3 DEF Budget, Negotiating
    <3>2. RequestsIn(s.out, "ipcp") = {}
      BY <1>6, HarmlessRequests DEF Fine, Asked
    <3>3. Budget(s.fsm) <= Budget(L.ipcp)
      BY <1>6 DEF Fine, Asked
    <3> QED BY <2>3, <3>1, <3>2, <3>3 DEF Paid, Negotiating
  <2>7. Forward(L.ipcp, f)
    BY <2>2, <2>3 DEF Forward, Negotiating
  <2>8. Quietly(L, N, out) /\ N.lcp.state = "Closing"
    BY <1>1, <2>3, <2>5, <2>6, <2>7, CloseLcp DEF k
  <2>9. [N EXCEPT !.down = TRUE].lcp = N.lcp /\ [N EXCEPT !.down = TRUE].ipcp = N.ipcp
        /\ [N EXCEPT !.down = TRUE].down = TRUE
    <3> HIDE DEF N
    <3> QED BY <2>5 DEF Links
  <2>10. ~f.timer
    BY <1>0, <2>2, <2>3 DEF Sound
  <2> HIDE DEF N, out
  <2>11. Coherent([N EXCEPT !.down = TRUE], c)
    BY <1>0, <2>3, <2>5, <2>8, <2>9, <2>10 DEF Coherent, Negotiating
  <2> QED BY <2>1, <2>8, <2>11, DownCall DEF M
<1>7. CASE s.outcome = "Up" /\ s.fsm.want["address"] # Unspecified
  <2> DEFINE out == Append(s.out, Up(M))
  <2>1. OnIpcp(M, s.out, s.outcome) = Result(M, out)
    BY <1>3, <1>7 DEF OnIpcp
  <2>2. s.fsm.state = "Opened" /\ L.ipcp.state \in Negotiating
    BY <1>7 DEF Fine, Moved
  <2>3. IsSeq(out) /\ Elements(out) = Elements(s.out) \cup {Up(M)}
    BY <1>1, Appended DEF OnlyLayer
  <2> HIDE DEF out
  <2>4. Up(M).do = "Up" /\ Up(M).local # Unspecified /\ Up(M).mtu <= DefaultMru
    <3>1. M.lcp.peer \in Int /\ M.lcp.want["mru"] \in Int /\ M.lcp.want["mru"] <= DefaultMru
      BY <1>0, <1>3 DEF Fsms, OurKinds, Good, Sound
    <3>2. Smaller(M.lcp.peer, M.lcp.want["mru"]) <= DefaultMru
      BY <3>1, ValueAssumption DEF Smaller
    <3> QED BY <1>3, <1>7, <3>2 DEF Up
  <2>5. \A l \in Layers : RequestsIn(out, l) = RequestsIn(s.out, l)
    BY <2>3, <2>4 DEF RequestsIn
  <2>6. Paid(L.lcp, M.lcp, out, "lcp") /\ Paid(L.ipcp, M.ipcp, out, "ipcp")
    BY <1>3, <2>5 DEF Quietly, Paid
  <2>7. Coherent(M, c)
    BY <1>0, <1>3, <2>2 DEF Coherent, Sound, Negotiating
  <2>8. ~Reports(out, "Deliver")
    BY <1>1, <2>3, <2>4 DEF Reports, OnlyLayer
  <2>9. \A a \in Elements(out) : a.do = "Up" => a = Up(M)
    BY <1>1, <2>3 DEF OnlyLayer
  <2>10. CallOk(L, Result(M, out), c)
    BY <1>3, <2>2, <2>4, <2>6, <2>7, <2>8, <2>9 DEF CallOk, Quietly, Result
  <2> QED BY <2>1, <2>10 DEF M
<1>8. CASE s.outcome = "Down"
  <2> DEFINE N == [M EXCEPT !.lcp = k.fsm]
             out == s.out \o k.out
  <2>1. OnIpcp(M, s.out, s.outcome) = ReportDown(N, out)
    BY <1>3, <1>8 DEF OnIpcp
  <2>2. s.fsm.state = "Closed" /\ ~s.fsm.timer
    BY <1>8 DEF Fine, Moved
  <2>4. Sound(k.fsm, "lcp")
    BY CloseFsmOk DEF Good
  <2> HIDE DEF k
  <2>5. N \in Links /\ N.ipcp = s.fsm /\ N.lcp = k.fsm
    BY <1>3, <1>4, <2>4 DEF Links, Sound
  <2>8. Quietly(L, N, out) /\ N.lcp.state = "Closing"
    BY <1>0, <1>1, <2>2, <2>5, CloseLcp DEF k
  <2>9. [N EXCEPT !.down = TRUE].lcp = N.lcp /\ [N EXCEPT !.down = TRUE].ipcp = N.ipcp
        /\ [N EXCEPT !.down = TRUE].down = TRUE
    <3> HIDE DEF N
    <3> QED BY <2>5 DEF Links
  <2> HIDE DEF N, out
  <2>11. Coherent([N EXCEPT !.down = TRUE], c)
    BY <1>0, <2>2, <2>5, <2>8, <2>9 DEF Coherent, Negotiating
  <2> QED BY <2>1, <2>8, <2>11, DownCall DEF M
<1> QED BY <1>5, <1>6, <1>7, <1>8 DEF Fine, Moved, M

-----------------------------------------------------------------------------
(* The four calls.                                                         *)

\* Ppp::control and Ppp::lcp_input are in order for LCP packets.
LEMMA InputLcpOk ==
  ASSUME NEW L, NEW c \in BOOLEAN, Good(L), Coherent(L, c), L.lcp.state # "Initial",
         NEW p, HasOptions(p)
  PROVE  CallOk(L, InputLcp(L, p), c)
<1>0. L.lcp \in Fsms("lcp") /\ L \in Links
  BY DEF Good, Links
<1>1. CASE p.code = "EchoReq"
  <2> DEFINE out == IF L.lcp.state = "Opened" THEN <<Send(L.lcp, "EchoReply")>> ELSE <<>>
  <2>1. InputLcp(L, p) = Result(L, out)
    BY <1>1 DEF InputLcp
  <2>2. Harmless(out, "lcp")
    BY <1>0, HarmlessOut
  <2> HIDE DEF out
  <2> QED BY <2>1, <2>2, NothingDone, PlainCall
<1>2. CASE p.code = "ProtoRejIpcp"
  <2>1. InputLcp(L, p) = ReportDown(L, <<>>)
    BY <1>2 DEF InputLcp, OnLcp
  <2>2. Coherent([L EXCEPT !.down = TRUE], c)
    BY <1>0 DEF Coherent, Links
  <2>3. Quietly(L, L, <<>>)
    BY NothingDone, HarmlessOut
  <2> QED BY <2>1, <2>2, <2>3, DownCall
<1>3. CASE p.code \in {"Ignored", "ProtoRejOther"}
  <2>1. InputLcp(L, p) = Result(L, <<>>)
    BY <1>3 DEF InputLcp
  <2>2. Quietly(L, L, <<>>)
    BY NothingDone, HarmlessOut
  <2> QED BY <2>1, <2>2, PlainCall
<1>4. CASE p.code \notin {"EchoReq", "ProtoRejIpcp", "Ignored", "ProtoRejOther"}
  <2> DEFINE s == InputFsm(L.lcp, p)
  <2>1. InputLcp(L, p) = OnLcp([L EXCEPT !.lcp = s.fsm], s.out, s.outcome)
    BY <1>4 DEF InputLcp
  <2>2. Fine(L.lcp, s, "lcp")
    BY InputFsmOk DEF Good
  <2> HIDE DEF s
  <2> QED BY <2>1, <2>2, OnLcpOk
<1> QED BY <1>1, <1>2, <1>3, <1>4

\* Ppp::input is in order for every packet of the gateway.
LEMMA InputLinkOk ==
  ASSUME NEW L, NEW c \in BOOLEAN, Good(L), Coherent(L, c), L.lcp.state # "Initial",
         NEW p, IsPacket(p)
  PROVE  CallOk(L, InputLink(L, p), c)
<1>0. L.lcp \in Fsms("lcp") /\ L.ipcp \in Fsms("ipcp") /\ L \in Links
  BY DEF Good, Links
<1>1. CASE p.proto = "ip" /\ IsUp(L)
  <2>1. InputLink(L, p) = Result(L, <<Deliver>>)
    BY <1>1 DEF InputLink
  <2>2. Elements(<<Deliver>>) = {Deliver} /\ Deliver.do = "Deliver"
    BY Singles DEF Deliver
  <2>3. \A l \in Layers : RequestsIn(<<Deliver>>, l) = {}
    BY <2>2 DEF RequestsIn
  <2>4. /\ Paid(L.ipcp, L.ipcp, <<Deliver>>, "ipcp") /\ Forward(L.ipcp, L.ipcp)
        /\ Paid(L.lcp, L.lcp, <<Deliver>>, "lcp") /\ Forward(L.lcp, L.lcp)
    BY <1>0, <2>3, Untouched
  <2>5. CallOk(L, Result(L, <<Deliver>>), c)
    BY <1>1, <2>2, <2>4 DEF CallOk, Result, IsUp
  <2> QED BY <2>1, <2>5
<1>2. CASE p.proto = "lcp"
  <2>1. InputLink(L, p) = InputLcp(L, p)
    BY <1>2 DEF InputLink
  <2> QED BY <1>2, <2>1, InputLcpOk DEF IsPacket
<1>3. CASE p.proto = "ipcp" /\ L.lcp.state = "Opened"
  <2> DEFINE s == InputFsm(L.ipcp, p)
  <2>1. InputLink(L, p) = OnIpcp([L EXCEPT !.ipcp = s.fsm], s.out, s.outcome)
    BY <1>3 DEF InputLink, InputIpcp
  <2>2. L.ipcp.state # "Initial"
    BY <1>3 DEF Coherent, Negotiating
  <2>3. Fine(L.ipcp, s, "ipcp")
    BY <1>3, <2>2, InputFsmOk DEF Good, IsPacket
  <2> HIDE DEF s
  <2> QED BY <1>3, <2>1, <2>3, OnIpcpOk
<1>4. CASE p.proto = "unknown" /\ L.lcp.state = "Opened"
  <2> DEFINE g == NextId(L.lcp)
             out == <<Send(g, "ProtoRej")>>
             M == [L EXCEPT !.lcp = g]
  <2>1. InputLink(L, p) = Result(M, out)
    BY <1>4 DEF InputLink
  <2>2. g \in Fsms("lcp") /\ g = [L.lcp EXCEPT !.id = g.id]
    BY <1>0, NextIdType
  <2> HIDE DEF g
  <2>3. /\ g.state = L.lcp.state /\ g.timer = L.lcp.timer /\ g.want = L.lcp.want
        /\ g.nakLoops = L.lcp.nakLoops /\ g.retransmits = L.lcp.retransmits
        /\ g.ask = L.lcp.ask
    BY <1>0, <2>2 DEF Fsms
  <2>4. Sound(g, "lcp") /\ PlainMove(L.lcp, g, "none")
    BY <2>2, <2>3 DEF Sound, Good, PlainMove
  <2>5. Harmless(out, "lcp")
    BY <2>2, HarmlessOut
  <2>6. Fine(L.lcp, Step(g, out, "none"), "lcp")
    BY <1>0, <2>4, <2>5, PlainStep
  <2> HIDE DEF out
  <2>7. OnlyLayer(out, "lcp") /\ Paid(L.lcp, g, out, "lcp") /\ Forward(L.lcp, g)
    <3> DEFINE s == Step(g, out, "none")
    <3>1. s.fsm = g /\ s.out = out
      BY DEF Step
    <3>2. Fine(L.lcp, s, "lcp")
      BY <2>6
    <3> HIDE DEF s
    <3> QED BY <1>0, <3>1, <3>2, FineOut
  <2>8. /\ Quietly(L, M, out)
        /\ M.lcp = g /\ M.ipcp = L.ipcp /\ M.down = L.down
    BY <2>4, <2>7, LcpAlone
  <2> HIDE DEF M
  <2>9. Coherent(M, c)
    BY <2>3, <2>8 DEF Coherent
  <2> QED BY <2>1, <2>8, <2>9, PlainCall
<1>5. CASE ~(\/ p.proto = "ip" /\ IsUp(L)
             \/ p.proto = "lcp"
             \/ p.proto \in {"ipcp", "unknown"} /\ L.lcp.state = "Opened")
  <2>1. InputLink(L, p) = Result(L, <<>>)
    BY <1>5 DEF InputLink
  <2>2. Quietly(L, L, <<>>)
    BY NothingDone, HarmlessOut
  <2> QED BY <2>1, <2>2, PlainCall
<1> QED BY <1>1, <1>2, <1>3, <1>4, <1>5

\* Ppp::open is in order on a fresh link.
LEMMA OpenLinkOk ==
  ASSUME NEW L, Good(L), Coherent(L, FALSE), L.lcp.state = "Initial"
  PROVE  CallOk(L, OpenLink(L), FALSE)
<1> DEFINE o == OpenFsm(L.lcp)
           M == [L EXCEPT !.lcp = o.fsm]
<1>1. OpenLink(L) = Result(M, o.out)
  BY DEF OpenLink
<1>2. /\ Sound(o.fsm, "lcp") /\ o.fsm.state = "ReqSent"
      /\ o.out = <<SendConfReq(o.fsm)>>
      /\ Budget(o.fsm) = MaxConfigure("lcp") + 2 * MaxNakLoops
  BY OpenFsmOk DEF Good
<1> HIDE DEF o
<1>3. OnlyLayer(o.out, "lcp") /\ RequestsIn(o.out, "lcp") = {SendConfReq(o.fsm)}
  BY <1>2, RequestOut DEF Sound
<1>4. Paid(L.lcp, o.fsm, o.out, "lcp") /\ Forward(L.lcp, o.fsm)
  BY <1>2, <1>3 DEF Paid, Forward
<1>5. /\ Quietly(L, M, o.out)
      /\ M.lcp = o.fsm /\ M.ipcp = L.ipcp /\ M.down = L.down
  BY <1>2, <1>3, <1>4, LcpAlone
<1> HIDE DEF M
<1>6. Coherent(M, FALSE)
  BY <1>2, <1>5 DEF Coherent, Negotiating
<1> QED BY <1>1, <1>5, <1>6, PlainCall

\* Ppp::close is in order once the link was opened.
LEMMA CloseLinkOk ==
  ASSUME NEW L, Good(L), Coherent(L, FALSE), L.lcp.state # "Initial"
  PROVE  CallOk(L, CloseLink(L), TRUE)
<1> DEFINE k == CloseFsm(L.lcp)
           f == [L.ipcp EXCEPT !.state = "Closed", !.timer = FALSE]
           M == [L EXCEPT !.ipcp.state = "Closed", !.ipcp.timer = FALSE, !.lcp = k.fsm]
<1>0. L.lcp \in Fsms("lcp") /\ L.ipcp \in Fsms("ipcp") /\ L \in Links
  BY DEF Good, Links
<1>1. /\ Sound(k.fsm, "lcp") /\ Harmless(k.out, "lcp") /\ Budget(k.fsm) <= Budget(L.lcp)
      /\ k.fsm.state = IF L.lcp.state \in {"Closing", "Closed"} THEN L.lcp.state ELSE "Closing"
  BY CloseFsmOk DEF Good
<1>2. CloseLink(L) = IF k.fsm.state = "Closing" THEN Result(M, k.out) ELSE ReportDown(M, k.out)
  BY DEF CloseLink
<1> HIDE DEF k
<1>3. /\ Sound(f, "ipcp") /\ f.state = "Closed" /\ ~f.timer /\ f.nakLoops = L.ipcp.nakLoops
  BY <1>0 DEF Good, Sound, Fsms, States, Negotiating
<1>4. M \in Links /\ M.ipcp = f /\ M.lcp = k.fsm /\ M.down = L.down
  BY <1>0, <1>1, <1>3 DEF Links, Sound
<1> HIDE DEF f, M
<1>5. Budget(f) <= Budget(L.ipcp)
  <2>1. /\ f \in Fsms("ipcp") /\ f.state \notin Negotiating
        /\ L.ipcp.nakLoops <= f.nakLoops
    BY <1>0, <1>3 DEF Sound, Fsms, Negotiating
  <2> QED BY <1>0, <2>1, BudgetFalls
<1>6. OnlyLayer(k.out, "lcp") /\ \A l \in Layers : RequestsIn(k.out, l) = {}
  BY <1>1, HarmlessRequests
<1>7. /\ Paid(L.ipcp, f, k.out, "ipcp") /\ Forward(L.ipcp, f)
      /\ Forward(L.lcp, k.fsm)
  BY <1>1, <1>3, <1>5, <1>6 DEF Paid, Forward, Negotiating
<1>8. Paid(L.lcp, k.fsm, k.out, "lcp")
  BY <1>0, <1>1, <1>6 DEF Paid, Negotiating
<1>9. f.state \notin {"Initial"} \cup Negotiating
  BY <1>3 DEF Negotiating
<1>10. Quietly(L, M, k.out)
  BY <1>1, <1>3, <1>4, <1>6, <1>7, <1>8, <1>9 DEF Quietly, Good, OnlyLayer
<1>11. CASE k.fsm.state = "Closing"
  <2>1. Coherent(M, TRUE)
    BY <1>3, <1>4, <1>11 DEF Coherent, Negotiating
  <2> QED BY <1>2, <1>10, <1>11, <2>1, PlainCall
<1>12. CASE k.fsm.state # "Closing"
  <2>1. k.fsm.state = "Closed"
    BY <1>1, <1>12
  <2>2. [M EXCEPT !.down = TRUE].lcp = M.lcp /\ [M EXCEPT !.down = TRUE].ipcp = M.ipcp
        /\ [M EXCEPT !.down = TRUE].down = TRUE
    BY <1>4 DEF Links
  <2>3. Coherent([M EXCEPT !.down = TRUE], TRUE)
    BY <1>3, <1>4, <2>1, <2>2 DEF Coherent, Negotiating
  <2> QED BY <1>2, <1>10, <1>12, <2>3, DownCall
<1> QED BY <1>11, <1>12

\* Only one restart timer can be due while the loop waits for them.
LEMMA TimeoutLinkOk ==
  ASSUME NEW L, NEW c \in BOOLEAN, Good(L), Coherent(L, c), L.lcp.state # "Initial",
         IF c THEN IsClosing(L) ELSE ~L.down,
         NEW due \in SUBSET Layers, due # {}, \A l \in due : L[l].timer
  PROVE  CallOk(L, TimeoutLink(L, due), c)
<1>0. L.lcp \in Fsms("lcp") /\ L.ipcp \in Fsms("ipcp") /\ L \in Links
      /\ Sound(L.lcp, "lcp") /\ Sound(L.ipcp, "ipcp")
  BY DEF Good, Links
<1>1. CASE "ipcp" \in due
  <2>1. L.ipcp.state \in Negotiating
    BY <1>1 DEF Coherent
  <2>2. L.lcp.state = "Opened"
    BY <1>0, <2>1 DEF Coherent, IsClosing, Negotiating, Fsms, States
  <2>3. ~L.lcp.timer
    BY <1>0, <2>2 DEF Sound
  <2>4. "lcp" \notin due
    BY <2>3
  <2> DEFINE s == TimeoutFsm(L.ipcp)
  <2>5. TimeoutLink(L, due) = OnIpcp([L EXCEPT !.ipcp = s.fsm], <<>> \o s.out, s.outcome)
    BY <1>1, <2>4 DEF TimeoutLink, TimeoutIpcp, Result
  <2>6. Fine(L.ipcp, s, "ipcp")
    BY <1>0, <2>1, TimeoutFsmOk
  <2> HIDE DEF s
  <2>7. <<>> \o s.out = s.out
    <3>1. L.ipcp.state # "Initial"
      BY <2>1 DEF Negotiating
    <3>2. IsSeq(s.out)
      BY <1>0, <2>6, <3>1, FineOut DEF OnlyLayer
    <3> QED BY <3>2, ConcatEmptySeq DEF IsSeq
  <2>8. CallOk(L, OnIpcp([L EXCEPT !.ipcp = s.fsm], s.out, s.outcome), c)
    BY <2>2, <2>6, OnIpcpOk
  <2> QED BY <2>5, <2>7, <2>8
<1>2. CASE "ipcp" \notin due
  <2>1. "lcp" \in due
    BY <1>2
  <2>2. L.lcp.timer
    BY <2>1
  <2>3. L.lcp.state \in Negotiating \cup {"Closing"}
    BY <1>0, <2>2 DEF Coherent, IsClosing, Negotiating, Fsms, States, Sound
  <2> DEFINE s == TimeoutFsm(L.lcp)
  <2>4. TimeoutLink(L, due) = OnLcp([L EXCEPT !.lcp = s.fsm], s.out, s.outcome)
    BY <1>2, <2>1 DEF TimeoutLink, TimeoutLcp
  <2>5. Fine(L.lcp, s, "lcp")
    BY <1>0, <2>3, TimeoutFsmOk
  <2> HIDE DEF s
  <2> QED BY <2>4, <2>5, OnLcpOk
<1> QED BY <1>1, <1>2

-----------------------------------------------------------------------------
(* The invariant.                                                          *)

\* One layer's history after a call.
LEMMA AccountedAfter ==
  ASSUME NEW l \in Layers, NEW f \in Fsms(l), NEW g \in Fsms(l), NEW h, NEW out,
         Accounted(f, h, l), h.id \in Ids, Paid(f, g, out, l), Forward(f, g)
  PROVE  /\ Accounted(g, SentAfter(h, l, out), l)
         /\ SentAfter(h, l, out).n \in Nat
         /\ SentAfter(h, l, out).id \in Ids
<1>0. Budget(f) \in Nat /\ Budget(g) \in Nat /\ MaxConfigure(l) \in Nat /\ MaxNakLoops \in Nat
  BY BudgetType, CountsAssumption DEF MaxConfigure
<1>1. CASE RequestsIn(out, l) = {}
  <2>1. SentAfter(h, l, out) = h
    BY <1>1 DEF SentAfter
  <2>2. /\ Budget(g) <= Budget(f)
        /\ g.state \in Negotiating \cup {"Opened"} =>
             f.state \in Negotiating \cup {"Opened"} /\ Request(g) = Request(f)
    BY <1>1 DEF Paid
  <2> QED BY <1>0, <2>1, <2>2 DEF Accounted, Forward
<1>2. CASE RequestsIn(out, l) # {}
  <2>1. /\ RequestsIn(out, l) = {SendConfReq(g)} /\ g.state # "Initial"
        /\ \/ Budget(g) + 1 <= Budget(f)
           \/ f.state = "Initial" /\ Budget(g) = MaxConfigure(l) + 2 * MaxNakLoops
    BY <1>2 DEF Paid
  <2>2. (CHOOSE a \in RequestsIn(out, l) : TRUE) = SendConfReq(g)
    BY <2>1
  <2>3. SentAfter(h, l, out) = [n |-> h.n + 1, id |-> g.id, opts |-> Request(g)]
    <3>1. SendConfReq(g).id = g.id /\ SendConfReq(g).opts = Request(g)
      BY DEF SendConfReq
    <3> QED BY <1>2, <2>2, <3>1 DEF SentAfter
  <2>4. h.n \in Nat /\ g.id \in Ids
    BY DEF Accounted, Fsms
  <2>5. h.n + 1 + Budget(g) <= 1 + MaxConfigure(l) + 2 * MaxNakLoops
    BY <1>0, <2>1, <2>4 DEF Accounted
  <2> QED BY <2>1, <2>3, <2>4, <2>5 DEF Accounted
<1> QED BY <1>1, <1>2

\* Every call that behaves keeps the invariant.
LEMMA CallKeepsInv ==
  ASSUME LinkInv, NEW r, Call(r), closed' \in BOOLEAN, closed => closed',
         CallOk(link, r, closed')
  PROVE  LinkInv'
<1> USE DEF LinkInv
<1>0. /\ Good(link) /\ link.lcp \in Fsms("lcp") /\ link.ipcp \in Fsms("ipcp")
      /\ sent["lcp"].id \in Ids /\ sent["ipcp"].id \in Ids /\ ups \in Nat
  BY DEF Good, TypeOK, Links
<1>1. link' = r.link /\ acts' = r.out /\ Good(r.link)
      /\ r.link.lcp \in Fsms("lcp") /\ r.link.ipcp \in Fsms("ipcp")
  BY DEF Call, CallOk, Good, Links
<1>2. /\ sent'["lcp"] = SentAfter(sent["lcp"], "lcp", r.out)
      /\ sent'["ipcp"] = SentAfter(sent["ipcp"], "ipcp", r.out)
  BY DEF Call
<1>3. /\ Accounted(r.link.lcp, sent'["lcp"], "lcp")
      /\ sent'["lcp"].n \in Nat /\ sent'["lcp"].id \in Ids
  BY <1>0, <1>1, <1>2, AccountedAfter DEF CallOk
<1>4. /\ Accounted(r.link.ipcp, sent'["ipcp"], "ipcp")
      /\ sent'["ipcp"].n \in Nat /\ sent'["ipcp"].id \in Ids
  BY <1>0, <1>1, <1>2, AccountedAfter DEF CallOk
<1>5. /\ ups' \in Nat /\ ups' <= 1
      /\ r.link.ipcp.state \in {"Initial"} \cup Negotiating => ups' = 0
  <2>1. CASE Reports(r.out, "Up")
    <3>1. link.ipcp.state \in Negotiating /\ r.link.ipcp.state = "Opened"
      BY <2>1 DEF Reports, CallOk
    <3>2. ups' = 1
      BY <1>0, <2>1, <3>1 DEF Call
    <3> QED BY <3>1, <3>2 DEF Negotiating
  <2>2. CASE ~Reports(r.out, "Up")
    BY <1>0, <2>2 DEF Call, CallOk
  <2> QED BY <2>1, <2>2
<1>6. UpIsSound'
  BY <1>1 DEF UpIsSound, CallOk
<1>7. QuietAfterClose'
  <2> SUFFICES ASSUME closed' PROVE ~Reports(r.out, "Up") /\ ~Reports(r.out, "Deliver")
    BY <1>1 DEF QuietAfterClose
  <2>1. r.link.ipcp.state = "Closed"
    BY DEF CallOk, Coherent
  <2>2. ~Reports(r.out, "Up")
    BY <2>1 DEF CallOk, Reports
  <2> QED BY <2>1, <2>2 DEF CallOk
<1>8. TypeOK'
  BY <1>1, <1>3, <1>4, <1>5 DEF TypeOK, Good
<1>9. Coherent(link', closed') /\ Sound(link'.lcp, "lcp") /\ Sound(link'.ipcp, "ipcp")
  BY <1>1 DEF CallOk, Good
<1> QED BY <1>1, <1>3, <1>4, <1>5, <1>6, <1>7, <1>8, <1>9

\* The initial state satisfies the invariant.
LEMMA InitInv == Init => LinkInv
<1> SUFFICES ASSUME Init PROVE LinkInv
  OBVIOUS
<1>1. /\ link = NewLink /\ closed = FALSE /\ ups = 0 /\ acts = <<>>
      /\ sent["lcp"] = NothingSent /\ sent["ipcp"] = NothingSent
  BY DEF Init
<1>2. NewLink.lcp \in Fsms("lcp") /\ NewLink.ipcp \in Fsms("ipcp") /\ NewLink \in Links
  <2>1. 0 \in Ids /\ DefaultMru \in Int /\ LinkMru \in Int /\ OurMagic \in Int /\ AskDns \in BOOLEAN
    BY IdAssumption, ValueAssumption DEF Ids
  <2>2. <<>> \in Seq(OptionRecords)
    OBVIOUS
  <2>3. NewLink.lcp \in Fsms("lcp")
    <3> DEFINE w == [k \in OurKinds("lcp") |-> IF k = "mru" THEN LinkMru ELSE OurMagic]
               a == [k \in OurKinds("lcp") |-> TRUE]
    <3>1. w \in [OurKinds("lcp") -> Int] /\ a \in [OurKinds("lcp") -> BOOLEAN]
      BY <2>1
    <3>2. NewLink.lcp = NewFsm("lcp", w, a)
      BY DEF NewLink
    <3> HIDE DEF w, a
    <3> QED BY <2>1, <2>2, <3>1, <3>2 DEF NewFsm, Fsms, States, PeerDefault
  <2>4. NewLink.ipcp \in Fsms("ipcp")
    <3> DEFINE w == [k \in OurKinds("ipcp") |-> Unspecified]
               a == [k \in OurKinds("ipcp") |-> k = "address" \/ AskDns]
    <3>1. w \in [OurKinds("ipcp") -> Int] /\ a \in [OurKinds("ipcp") -> BOOLEAN]
      BY <2>1 DEF Unspecified
    <3>2. NewLink.ipcp = NewFsm("ipcp", w, a)
      BY DEF NewLink
    <3> HIDE DEF w, a
    <3> QED BY <2>1, <2>2, <3>1, <3>2 DEF NewFsm, Fsms, States, PeerDefault, Unspecified
  <2> QED BY <2>3, <2>4 DEF NewLink, Links
<1>3. /\ NewLink.lcp.state = "Initial" /\ NewLink.ipcp.state = "Initial"
      /\ ~NewLink.lcp.timer /\ ~NewLink.ipcp.timer
      /\ NewLink.lcp.nakLoops = 0 /\ NewLink.ipcp.nakLoops = 0
      /\ NewLink.lcp.want["mru"] = LinkMru
  BY DEF NewLink, NewFsm, OurKinds
<1>4. NothingSent.n = 0 /\ NothingSent.id \in Ids
  BY IdAssumption DEF NothingSent, Ids
<1>5. TypeOK
  <2>1. \A l \in Layers : sent[l].n \in Nat /\ sent[l].id \in Ids
    BY <1>1, <1>4
  <2> QED BY <1>1, <1>2, <2>1 DEF TypeOK
<1>6. Sound(link.lcp, "lcp") /\ Sound(link.ipcp, "ipcp")
  BY <1>1, <1>2, <1>3, ValueAssumption DEF Sound, Negotiating
<1>7. Coherent(link, closed)
  BY <1>1, <1>3 DEF Coherent, Negotiating
<1>8. Accounted(link.lcp, sent["lcp"], "lcp") /\ Accounted(link.ipcp, sent["ipcp"], "ipcp")
  BY <1>1, <1>3, <1>4, CountsAssumption
     DEF Accounted, Budget, Smaller, MaxConfigure, Negotiating
<1>9. UpIsSound /\ QuietAfterClose
  BY <1>1, Singles DEF UpIsSound, QuietAfterClose
<1> QED BY <1>1, <1>5, <1>6, <1>7, <1>8, <1>9 DEF LinkInv

\* Every packet the gateway may send is one the handlers take.
LEMMA PacketsOk ==
  /\ \A l \in Layers : \A p \in Requests(l) \cup Acks(l) \cup Refusals(l) : IsPacket(p)
  /\ \A l \in Layers : \A p \in PlainPackets(l) : IsPacket(p)
  /\ \A p \in LcpOnlyPackets \cup OtherPackets : IsPacket(p)
<1>1. \A l \in Layers : \A p \in Requests(l) \cup Acks(l) \cup Refusals(l) : IsPacket(p)
  <2> TAKE l \in Layers
  <2>1. Options(l) \subseteq Seq(OptionRecords)
    BY OptionsAssumption
  <2> QED BY <2>1 DEF IsPacket, HasOptions, Requests, Acks, Refusals
<1>2. \A l \in Layers : \A p \in PlainPackets(l) : IsPacket(p)
  BY DEF IsPacket, HasOptions, PlainPackets
<1>3. \A p \in LcpOnlyPackets : IsPacket(p)
  BY DEF IsPacket, HasOptions, LcpOnlyPackets
<1>4. \A p \in OtherPackets : IsPacket(p)
  BY DEF IsPacket, OtherPackets
<1> QED BY <1>1, <1>2, <1>3, <1>4

\* What a step of Next does: a call that behaves, or nothing.
LEMMA NextIsCall ==
  ASSUME LinkInv, Next
  PROVE  \E r : /\ Call(r) /\ closed' \in BOOLEAN /\ (closed => closed')
                /\ CallOk(link, r, closed')
<1>0. Good(link) /\ Coherent(link, closed) /\ closed \in BOOLEAN /\ link \in Links
  BY DEF LinkInv, TypeOK, Good
<1>1. CASE Open
  <2>1. link.lcp.state = "Initial" /\ Call(OpenLink(link)) /\ closed' = closed
    BY <1>1 DEF Open, Opened
  <2>2. closed = FALSE
    BY <1>0, <2>1 DEF Coherent
  <2>3. CallOk(link, OpenLink(link), closed')
    BY <1>0, <2>1, <2>2, OpenLinkOk
  <2> QED BY <2>1, <2>2, <2>3
<1>2. ASSUME NEW p, IsPacket(p), Input(p)
      PROVE  CallOk(link, InputLink(link, p), closed')
             /\ Call(InputLink(link, p)) /\ closed' = closed
  <2>1. link.lcp.state # "Initial" /\ Call(InputLink(link, p)) /\ closed' = closed
    BY <1>2 DEF Input, Opened
  <2>2. CallOk(link, InputLink(link, p), closed)
    BY <1>0, <1>2, <2>1, InputLinkOk
  <2> QED BY <2>1, <2>2
<1>3. CASE ReceiveConf \/ ReceivePlain \/ ReceiveLcpOnly \/ ReceiveOther
  <2>1. PICK p : IsPacket(p) /\ Input(p)
    BY <1>3, PacketsOk DEF ReceiveConf, ReceivePlain, ReceiveLcpOnly, ReceiveOther
  <2>2. CallOk(link, InputLink(link, p), closed') /\ Call(InputLink(link, p)) /\ closed' = closed
    BY <1>2, <2>1
  <2> QED BY <1>0, <2>2
<1>4. ASSUME NEW due \in SUBSET Layers, Timeout(due)
      PROVE  CallOk(link, TimeoutLink(link, due), closed')
             /\ Call(TimeoutLink(link, due)) /\ closed' = closed
  <2>1. /\ link.lcp.state # "Initial" /\ (IF closed THEN IsClosing(link) ELSE ~link.down)
        /\ due # {} /\ (\A l \in due : link[l].timer)
        /\ Call(TimeoutLink(link, due)) /\ closed' = closed
    BY <1>4 DEF Timeout, Driven, Opened, Armed
  <2>2. CallOk(link, TimeoutLink(link, due), closed)
    BY <1>0, <2>1, TimeoutLinkOk
  <2> QED BY <2>1, <2>2
<1>5. CASE Close
  <2>1. link.lcp.state # "Initial" /\ Call(CloseLink(link)) /\ closed = FALSE /\ closed' = TRUE
    BY <1>0, <1>5 DEF Close, Opened
  <2>2. CallOk(link, CloseLink(link), TRUE)
    BY <1>0, <2>1, CloseLinkOk
  <2> QED BY <2>1, <2>2
<1>6. CASE \E due \in SUBSET Layers : Timeout(due)
  <2>1. PICK due \in SUBSET Layers : Timeout(due)
    BY <1>6
  <2>2. CallOk(link, TimeoutLink(link, due), closed')
        /\ Call(TimeoutLink(link, due)) /\ closed' = closed
    BY <1>4, <2>1
  <2> QED BY <1>0, <2>2
<1> QED BY <1>1, <1>3, <1>5, <1>6 DEF Next, SomeTimeout

\* Stuttering keeps the inductive invariant.
LEMMA StutterInv == LinkInv /\ UNCHANGED vars => LinkInv'
  BY DEF LinkInv, vars, TypeOK, UpIsSound, QuietAfterClose

\* The inductive invariant: the states of LCP and IPCP, the restart timers,
\* the reported end and the requests sent stay coherent, whatever packets
\* the gateway sends and whenever timers fire or the tunnel closes.
THEOREM LinkInvariant == Spec => []LinkInv
<1>1. Init => LinkInv
  BY InitInv
<1>2. LinkInv /\ [Next]_vars => LinkInv'
  <2>1. ASSUME LinkInv, Next PROVE LinkInv'
    <3>1. PICK r : /\ Call(r) /\ closed' \in BOOLEAN /\ (closed => closed')
                   /\ CallOk(link, r, closed')
      BY <2>1, NextIsCall
    <3> QED BY <2>1, <3>1, CallKeepsInv
  <2> QED BY <2>1, StutterInv
<1> QED BY <1>1, <1>2, PTL DEF Spec

-----------------------------------------------------------------------------
(* The properties.                                                         *)

\* Type correctness of the link, the driver and the history.
THEOREM TypeCorrect == Spec => []TypeOK
<1>1. LinkInv => TypeOK
  BY DEF LinkInv
<1> QED BY <1>1, LinkInvariant, PTL

\* A negotiating or closing layer has its restart timer armed, an open or
\* fresh one has not (Fsm::timer).
THEOREM TimersArmed == Spec => []TimerArmed
<1>1. LinkInv => TimerArmed
  BY DEF LinkInv, TimerArmed, Sound
<1> QED BY <1>1, LinkInvariant, PTL

\* Until the end is reported, IP flows or a restart timer is armed: the loop
\* of Link::run always has something to wake it.
THEOREM NeverStuckHolds == Spec => []NeverStuck
<1>1. ASSUME LinkInv PROVE NeverStuck
  <2> SUFFICES ASSUME Opened, ~link.down, ~IsUp(link) PROVE Armed(link) # {}
    BY DEF NeverStuck
  <2>1. link.lcp.timer \/ link.ipcp.timer
    BY <1>1 DEF LinkInv, TypeOK, Links, Fsms, States, Sound, Coherent, Opened, IsUp, Negotiating
  <2> QED BY <2>1 DEF Armed
<1> QED BY <1>1, LinkInvariant, PTL

\* Until the end is reported, IPCP runs on top of an open LCP only.
THEOREM IpOverOpenLcpHolds == Spec => []IpOverOpenLcp
<1>1. LinkInv => IpOverOpenLcp
  BY DEF LinkInv, TypeOK, Links, Fsms, States, Coherent, IpOverOpenLcp, Negotiating
<1> QED BY <1>1, LinkInvariant, PTL

\* on_ipcp reports Up at most once in a link: the interface is created once.
THEOREM UpsOnce == Spec => []UpOnce
<1>1. LinkInv => UpOnce
  BY DEF LinkInv, UpOnce
<1> QED BY <1>1, LinkInvariant, PTL

\* When on_ipcp reports Up, both layers are open, the address is a real one
\* and the MTU at most the default, whatever was negotiated before.
THEOREM UpsAreSound == Spec => []UpIsSound
<1>1. LinkInv => UpIsSound
  BY DEF LinkInv
<1> QED BY <1>1, LinkInvariant, PTL

\* Nothing follows close: no frame that comes late configures the interface
\* again or is delivered to it.
THEOREM QuietOnceClosed == Spec => []QuietAfterClose
<1>1. LinkInv => QuietAfterClose
  BY DEF LinkInv
<1> QED BY <1>1, LinkInvariant, PTL

\* Neither a silent gateway nor one that refuses everything gets more than a
\* bounded number of Configure-Requests from a layer.
THEOREM RequestsBounded == Spec => []RequestBound
<1>1. ASSUME LinkInv PROVE RequestBound
  <2> SUFFICES ASSUME NEW l \in Layers
               PROVE  sent[l].n <= 1 + MaxConfigure(l) + 2 * MaxNakLoops
    BY DEF RequestBound
  <2>1. Accounted(link[l], sent[l], l) /\ link[l] \in Fsms(l)
    BY <1>1 DEF LinkInv, TypeOK, Links
  <2>2. Budget(link[l]) \in Nat /\ MaxConfigure(l) \in Nat /\ MaxNakLoops \in Nat
    BY <2>1, BudgetType, CountsAssumption DEF MaxConfigure
  <2> QED BY <2>1, <2>2 DEF Accounted
<1> QED BY <1>1, LinkInvariant, PTL

\* The configuration a layer works with is the one of its last request.
THEOREM RequestsInUse == Spec => []RequestInUse
<1>1. LinkInv => RequestInUse
  BY DEF LinkInv, RequestInUse, Accounted
<1> QED BY <1>1, LinkInvariant, PTL

\* A closed layer stays closed, a closing one never reopens and an open one
\* never negotiates again.
THEOREM OnlyForwardHolds == Spec => OnlyForward
<1> DEFINE Keeps == \A l \in Layers :
             /\ link[l].state = "Closed" => link'[l].state = "Closed"
             /\ link[l].state = "Closing" => link'[l].state \in {"Closing", "Closed"}
             /\ link[l].state = "Opened" => link'[l].state \in {"Opened", "Closing", "Closed"}
<1>1. ASSUME LinkInv, Next PROVE Keeps
  <2>1. PICK r : Call(r) /\ CallOk(link, r, closed')
    BY <1>1, NextIsCall
  <2>2. Forward(link.lcp, link'.lcp) /\ Forward(link.ipcp, link'.ipcp)
    BY <2>1 DEF Call, CallOk
  <2> QED BY <2>2 DEF Forward
<1>2. LinkInv /\ [Next]_vars => [Keeps]_vars
  BY <1>1
<1> QED BY <1>2, LinkInvariant, PTL DEF Spec, OnlyForward

=============================================================================

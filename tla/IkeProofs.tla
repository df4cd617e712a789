------------------------------ MODULE IkeProofs ------------------------------
(***************************************************************************)
(* Proofs about the IKEv2 session of module IkeClient, for every value of  *)
(* the constants and every gateway: no nonce is used for two messages, the *)
(* interface is up only in an established session, and it comes up only    *)
(* with a CHILD SA.                                                        *)
(***************************************************************************)
EXTENDS IkeClient, LeastNumber, TLAPS

-----------------------------------------------------------------------------
(* The inductive invariant.                                                *)

Numeric ==
  /\ sa \in Nat /\ next \in Nat /\ sas \in Nat
  /\ messageId \in Nat /\ peerMessageId \in Nat

\* A rekeyed IKE SA is newer than the current one.
SaOrder == sa <= sas /\ next <= sas /\ (next # NoSa => sa < next)

\* Every message sent so far is on this or an earlier IKE SA, and on this one
\* its identifier is one the counters have passed.
SentBefore ==
  \A m \in sent :
    /\ m.sa \in Nat /\ m.id \in Nat /\ m.resp \in BOOLEAN
    /\ m.sa <= sa
    /\ m.sa = sa /\ sa # NoSa /\ m.resp => m.id < peerMessageId
    /\ m.sa = sa /\ sa # NoSa /\ ~m.resp => m.id < messageId

\* A response that may be repeated has been sent.
LastSent == lastResponse # NoMessage => lastResponse \in sent

KeyInv == Numeric /\ SaOrder /\ SentBefore /\ LastSent /\ NonceUnique

\* What the task waits for tells how far the session got.
SetUp == task \in {"start", "init"} => sa = NoSa /\ next = NoSa /\ stage = "Init"
Committed == task \in {"watch", "child", "delete", "dpd", "close"} => stage = "Established"

ControlInv == SetUp /\ Committed /\ HostOnlyEstablished

IInv == KeyInv /\ ControlInv

-----------------------------------------------------------------------------
(* What a step does to the keys, the counters and the messages sent.       *)

Same == UNCHANGED <<saVars, messageId, sent>>

\* A request of our own on the current IKE SA.
Asked ==
  /\ UNCHANGED saVars
  /\ messageId' = messageId + 1
  /\ sent' = sent \cup {Message(sa, messageId, FALSE, wait'.body)}

\* Another attempt at IKE_SA_INIT, and the first request with keys.
Attempted ==
  /\ UNCHANGED saVars /\ sa = NoSa
  /\ messageId' = 1
  /\ sent' = sent \cup {Message(NoSa, 0, FALSE, wait'.body)}
FirstSa ==
  /\ sa = NoSa /\ next = NoSa
  /\ sa' = 1 /\ sas' = 1 /\ UNCHANGED <<next, peerMessageId, lastResponse>>
  /\ messageId' = messageId + 1
  /\ sent' = sent \cup {Message(1, messageId, FALSE, wait'.body)}

\* A response, perhaps with a new IKE SA kept aside.
RespondedWith(b) ==
  /\ sa # NoSa
  /\ UNCHANGED <<sa, messageId>>
  /\ peerMessageId' = peerMessageId + 1
  /\ lastResponse' = Message(sa, peerMessageId, TRUE, b)
  /\ sent' = sent \cup {lastResponse'}
  /\ \/ UNCHANGED <<next, sas>>
     \/ sas' = sas + 1 /\ next' = sas + 1

\* A response again, and a response after which another IKE SA takes over.
Repeated == lastResponse # NoMessage /\ sent' = sent \cup {lastResponse} /\ UNCHANGED <<saVars, messageId>>
SwitchedWith(b) ==
  /\ sa # NoSa /\ next # NoSa
  /\ sent' = sent \cup {Message(sa, peerMessageId, TRUE, b)}
  /\ SwitchIke /\ UNCHANGED sas

\* Adding a message with a nonce no message before it had.
LEMMA FreshNonce ==
  ASSUME NEW n, NonceUnique, sent' = sent \cup {n},
         \A m \in sent : m.sa # NoSa => Nonce(m) # Nonce(n)
  PROVE  NonceUnique'
BY DEF NonceUnique, Encrypted, Nonce

\* Our own requests keep the key invariant: the identifier was not used.
LEMMA AskedKeeps == KeyInv /\ Asked => KeyInv'
<1> SUFFICES ASSUME KeyInv, Asked PROVE KeyInv'
  OBVIOUS
<1> USE DEF KeyInv, Asked, saVars
<1>1. Numeric' /\ SaOrder'
  BY DEF Numeric, SaOrder
<1> DEFINE n == Message(sa, messageId, FALSE, wait'.body)
<1>n. n.sa = sa /\ n.id = messageId /\ ~n.resp /\ n.resp \in BOOLEAN
  BY DEF Message
<1>s. sent' = sent \cup {n}
  OBVIOUS
<1> HIDE DEF n
<1>2. SentBefore'
  <2> SUFFICES ASSUME NEW m \in sent'
               PROVE /\ m.sa \in Nat /\ m.id \in Nat /\ m.resp \in BOOLEAN
                     /\ m.sa <= sa
                     /\ m.sa = sa /\ sa # NoSa /\ m.resp => m.id < peerMessageId
                     /\ m.sa = sa /\ sa # NoSa /\ ~m.resp => m.id < messageId + 1
    BY DEF SentBefore
  <2>1. CASE m \in sent
    BY <2>1 DEF SentBefore, Numeric
  <2>2. CASE m = n
    BY <2>2, <1>n DEF Numeric
  <2> QED BY <1>s, <2>1, <2>2
<1>3. LastSent'
  BY DEF LastSent
<1>4. NonceUnique'
  <2>1. ASSUME NEW m \in sent, m.sa # NoSa PROVE Nonce(m) # Nonce(n)
    BY <2>1, <1>n DEF SentBefore, Numeric, Nonce
  <2> QED
    BY <2>1, <1>s, FreshNonce
<1> QED
  BY <1>1, <1>2, <1>3, <1>4

\* Attempts at IKE_SA_INIT are not encrypted.
LEMMA AttemptedKeeps == KeyInv /\ Attempted => KeyInv'
<1> SUFFICES ASSUME KeyInv, Attempted PROVE KeyInv'
  OBVIOUS
<1> USE DEF KeyInv, Attempted, saVars
<1>1. Numeric' /\ SaOrder'
  BY DEF Numeric, SaOrder
<1> DEFINE n == Message(NoSa, 0, FALSE, wait'.body)
<1>n. n.sa = NoSa /\ n.id = 0 /\ n.resp \in BOOLEAN
  BY DEF Message
<1>s. sent' = sent \cup {n}
  OBVIOUS
<1> HIDE DEF n
<1>2. SentBefore'
  <2> SUFFICES ASSUME NEW m \in sent'
               PROVE m.sa \in Nat /\ m.id \in Nat /\ m.resp \in BOOLEAN /\ m.sa <= NoSa
    BY DEF SentBefore, NoSa
  <2>1. CASE m \in sent
    BY <2>1 DEF SentBefore
  <2>2. CASE m = n
    BY <2>2, <1>n DEF NoSa
  <2> QED BY <1>s, <2>1, <2>2
<1>3. LastSent'
  BY DEF LastSent
<1>4. NonceUnique'
  BY <1>n, <1>s DEF NonceUnique, Encrypted
<1> QED
  BY <1>1, <1>2, <1>3, <1>4

\* The first IKE SA has no messages yet.
LEMMA FirstSaKeeps == KeyInv /\ FirstSa => KeyInv'
<1> SUFFICES ASSUME KeyInv, FirstSa PROVE KeyInv'
  OBVIOUS
<1> USE DEF KeyInv, FirstSa, NoSa
<1>1. Numeric' /\ SaOrder'
  BY DEF Numeric, SaOrder
<1> DEFINE n == Message(1, messageId, FALSE, wait'.body)
<1>n. n.sa = 1 /\ n.id = messageId /\ ~n.resp /\ n.resp \in BOOLEAN
  BY DEF Message
<1>s. sent' = sent \cup {n}
  OBVIOUS
<1> HIDE DEF n
<1>2. \A m \in sent : m.sa = 0
  BY DEF SentBefore
<1>3. SentBefore'
  <2> SUFFICES ASSUME NEW m \in sent'
               PROVE /\ m.sa \in Nat /\ m.id \in Nat /\ m.resp \in BOOLEAN
                     /\ m.sa <= 1
                     /\ m.sa = 1 /\ m.resp => m.id < peerMessageId
                     /\ m.sa = 1 /\ ~m.resp => m.id < messageId + 1
    BY DEF SentBefore
  <2>1. CASE m \in sent
    BY <2>1, <1>2 DEF SentBefore
  <2>2. CASE m = n
    BY <2>2, <1>n DEF Numeric
  <2> QED BY <1>s, <2>1, <2>2
<1>4. LastSent'
  BY DEF LastSent
<1>5. NonceUnique'
  BY <1>2, <1>s, FreshNonce
<1> QED
  BY <1>1, <1>3, <1>4, <1>5

\* A response keeps the key invariant: no earlier one had its identifier.
LEMMA RespondedKeeps ==
  ASSUME KeyInv, NEW b, RespondedWith(b)
  PROVE  KeyInv'
<1> USE DEF KeyInv, RespondedWith
<1>1. Numeric' /\ SaOrder'
  BY DEF Numeric, SaOrder
<1> DEFINE n == lastResponse'
<1>n. n.sa = sa /\ n.id = peerMessageId /\ n.resp /\ n.resp \in BOOLEAN
  BY DEF Message
<1>s. sent' = sent \cup {n}
  OBVIOUS
<1> HIDE DEF n
<1>2. SentBefore'
  <2> SUFFICES ASSUME NEW m \in sent'
               PROVE /\ m.sa \in Nat /\ m.id \in Nat /\ m.resp \in BOOLEAN
                     /\ m.sa <= sa
                     /\ m.sa = sa /\ sa # NoSa /\ m.resp => m.id < peerMessageId + 1
                     /\ m.sa = sa /\ sa # NoSa /\ ~m.resp => m.id < messageId
    BY DEF SentBefore
  <2>1. CASE m \in sent
    BY <2>1 DEF SentBefore, Numeric
  <2>2. CASE m = n
    BY <2>2, <1>n DEF Numeric
  <2> QED BY <1>s, <2>1, <2>2
<1>3. LastSent'
  BY <1>s DEF LastSent, n
<1>4. NonceUnique'
  <2>1. ASSUME NEW m \in sent, m.sa # NoSa PROVE Nonce(m) # Nonce(n)
    <3> SUFFICES ASSUME m.sa = n.sa, m.id = n.id, m.resp = n.resp PROVE FALSE
      BY DEF Nonce
    <3>1. m.resp
      BY <1>n
    <3> QED
      BY <2>1, <3>1, <1>n DEF SentBefore, Numeric
  <2> QED
    BY <2>1, <1>s, FreshNonce
<1> QED
  BY <1>1, <1>2, <1>3, <1>4

\* A retransmitted response is one that was sent.
LEMMA RepeatedKeeps == KeyInv /\ Repeated => KeyInv'
<1> SUFFICES ASSUME KeyInv, Repeated PROVE KeyInv'
  OBVIOUS
<1>1. sent' = sent
  BY DEF KeyInv, Repeated, LastSent
<1> QED
  BY <1>1 DEF KeyInv, Repeated, saVars, Numeric, SaOrder, SentBefore, LastSent, NonceUnique,
              Encrypted

\* The rekeyed IKE SA is a fresh one, so its counters may start again.
LEMMA SwitchedKeeps ==
  ASSUME KeyInv, NEW b, SwitchedWith(b)
  PROVE  KeyInv'
<1> USE DEF KeyInv, SwitchedWith, SwitchIke
<1>1. Numeric' /\ SaOrder'
  BY DEF Numeric, SaOrder, NoSa
<1> DEFINE n == Message(sa, peerMessageId, TRUE, b)
<1>n. n.sa = sa /\ n.id = peerMessageId /\ n.resp /\ n.resp \in BOOLEAN
  BY DEF Message
<1>s. sent' = sent \cup {n}
  OBVIOUS
<1> HIDE DEF n
<1>2. SentBefore'
  <2> SUFFICES ASSUME NEW m \in sent'
               PROVE m.sa \in Nat /\ m.id \in Nat /\ m.resp \in BOOLEAN /\ m.sa < next
    <3>1. \A m \in sent' : m.sa \in Nat /\ m.sa < next => m.sa <= next /\ m.sa # next
      BY DEF Numeric
    <3> QED
      BY <3>1 DEF SentBefore
  <2>1. CASE m \in sent
    BY <2>1 DEF SentBefore, Numeric, SaOrder
  <2>2. CASE m = n
    BY <2>2, <1>n DEF Numeric, SaOrder
  <2> QED BY <1>s, <2>1, <2>2
<1>3. LastSent'
  BY DEF LastSent
<1>4. NonceUnique'
  <2>1. ASSUME NEW m \in sent, m.sa # NoSa PROVE Nonce(m) # Nonce(n)
    <3> SUFFICES ASSUME m.sa = n.sa, m.id = n.id, m.resp = n.resp PROVE FALSE
      BY DEF Nonce
    <3>1. m.resp
      BY <1>n
    <3> QED
      BY <2>1, <3>1, <1>n DEF SentBefore, Numeric
  <2> QED
    BY <2>1, <1>s, FreshNonce
<1> QED
  BY <1>1, <1>2, <1>3, <1>4

\* Nothing sent.
LEMMA SameKeeps == KeyInv /\ Same => KeyInv'
BY DEF KeyInv, Same, saVars, Numeric, SaOrder, SentBefore, LastSent, NonceUnique, Encrypted

-----------------------------------------------------------------------------
(* The actions.                                                            *)

\* A request on the current IKE SA is what Asked says.
LEMMA RequestAsks ==
  ASSUME KeyInv, NEW t, NEW b, Request(sa, messageId, t, b), UNCHANGED saVars
  PROVE  KeyInv' /\ task' = t
<1>1. Asked
  BY DEF Request, Asked
<1> QED
  BY <1>1, AskedKeeps DEF Request

\* However the session ends, the invariant holds when it has.
LEMMA TeardownKeeps ==
  ASSUME KeyInv, UNCHANGED saVars, NEW o, NEW st, NEW d, NEW kids,
         Teardown(o, st, d, kids), stage' = st
  PROVE  IInv'
<1>1. CASE st = "Established" /\ d = "none"
  <2>1. Request(sa, messageId, "close", Body("deleteIke")) /\ host' = FALSE
    BY <1>1 DEF Teardown
  <2>2. KeyInv' /\ task' = "close"
    BY <2>1, RequestAsks
  <2> QED
    BY <1>1, <2>1, <2>2 DEF IInv, ControlInv, SetUp, Committed, HostOnlyEstablished
<1>2. CASE ~(st = "Established" /\ d = "none")
  <2>1. task' = "done" /\ host' = FALSE /\ Same
    BY <1>2 DEF Teardown, Done, Same
  <2> QED
    BY <2>1, SameKeeps DEF IInv, ControlInv, SetUp, Committed, HostOnlyEstablished
<1> QED
  BY <1>1, <1>2

\* A request of our own in the same stage, with the host as it is.
LEMMA RequestKeeps ==
  ASSUME IInv, UNCHANGED <<saVars, stage, host>>, NEW t \in Asking \ {"init"}, NEW b,
         Request(sa, messageId, t, b),
         t \in {"child", "delete", "dpd"} => stage = "Established"
  PROVE  IInv'
<1>1. KeyInv' /\ task' = t
  BY RequestAsks DEF IInv
<1> QED
  BY <1>1 DEF IInv, ControlInv, SetUp, Committed, HostOnlyEstablished, Asking

\* Back to watch: nothing is sent.
LEMMA WatchKeeps ==
  ASSUME IInv, Same, stage' = "Established", task' = "watch"
  PROVE  IInv'
<1>1. KeyInv'
  BY SameKeeps DEF IInv
<1> QED
  BY <1>1 DEF IInv, ControlInv, SetUp, Committed, HostOnlyEstablished, Asking

\* establish, once children is known.
LEMMA NextChildKeeps ==
  ASSUME IInv, UNCHANGED saVars, NEW kids, NextChild(kids), stage' = "Established",
         task \in {"auth", "final", "child"}
  PROVE  IInv'
<1> DEFINE q == Uncovered(todo, kids)
<1>1. CASE q # <<>>
  <2>1. CreateChild(NoSpi, {Head(q)}) /\ UNCHANGED host
    BY <1>1 DEF NextChild
  <2>2. KeyInv' /\ task' = "child"
    BY <2>1, RequestAsks DEF CreateChild, IInv
  <2> QED
    BY <2>1, <2>2 DEF IInv, ControlInv, SetUp, Committed, HostOnlyEstablished, Asking
<1>2. CASE q = <<>>
  <2>1. \/ Watch /\ UNCHANGED <<messageId, sent>>
        \/ Fail("Established", kids)
    BY <1>2 DEF NextChild, BringUp
  <2>2. CASE Watch /\ UNCHANGED <<messageId, sent>>
    BY <2>2, WatchKeeps DEF Watch, Same
  <2>3. CASE Fail("Established", kids)
    BY <2>3, TeardownKeeps DEF Fail, IInv
  <2> QED
    BY <2>1, <2>2, <2>3
<1> QED
  BY <1>1, <1>2

\* The start of establish.
LEMMA EstablishKeeps == IInv /\ Establish => IInv'
<1> SUFFICES ASSUME IInv, Establish PROVE IInv'
  OBVIOUS
<1>1. sa = NoSa /\ next = NoSa /\ stage = "Init" /\ ~host
  BY DEF IInv, ControlInv, SetUp, HostOnlyEstablished, Establish
<1>2. CASE InitRequest(InitRetries) /\ UNCHANGED <<children, host, down, outcome>>
  <2>1. Attempted /\ task' = "init"
    BY <1>1, <1>2 DEF Establish, InitRequest, Request, Attempted
  <2>2. KeyInv'
    BY <2>1, AttemptedKeeps DEF IInv
  <2> QED
    BY <1>1, <1>2, <2>1, <2>2
    DEF Establish, IInv, ControlInv, SetUp, Committed, HostOnlyEstablished, saVars
<1>3. CASE Fail(stage, children)
  BY <1>3, TeardownKeeps DEF Establish, Fail, IInv
<1> QED
  BY <1>2, <1>3 DEF Establish

\* The IKE_SA_INIT response: another attempt, the end, or the first IKE SA.
LEMMA InitReplyKeeps ==
  ASSUME IInv, NEW m, OnInitReply(m)
  PROVE  IInv'
<1>1. task = "init" /\ sa = NoSa /\ next = NoSa /\ stage = "Init" /\ ~host
  BY DEF IInv, ControlInv, SetUp, HostOnlyEstablished, OnInitReply
<1>2. CASE InitRequest(left - 1) /\ UNCHANGED <<stage, sa, sas, host>>
  <2>1. Attempted /\ task' = "init"
    BY <1>1, <1>2 DEF OnInitReply, InitRequest, Request, Attempted, saVars
  <2>2. KeyInv'
    BY <2>1, AttemptedKeeps DEF IInv
  <2> QED
    BY <1>1, <1>2, <2>1, <2>2
    DEF OnInitReply, IInv, ControlInv, SetUp, Committed, HostOnlyEstablished
<1>3. CASE Fail(stage, children) /\ UNCHANGED <<stage, sa, sas>>
  <2>1. UNCHANGED saVars
    BY <1>3 DEF OnInitReply, saVars
  <2> QED
    BY <1>3, <2>1, TeardownKeeps DEF Fail, IInv
<1>4. CASE /\ sa' = 1 /\ sas' = 1 /\ stage' = "Auth"
           /\ Request(1, messageId, "auth", AuthRequest)
           /\ UNCHANGED host
  <2>1. FirstSa /\ task' = "auth"
    BY <1>1, <1>4 DEF OnInitReply, Request, FirstSa
  <2>2. KeyInv'
    BY <2>1, FirstSaKeeps DEF IInv
  <2> QED
    BY <1>1, <1>4, <2>1, <2>2 DEF IInv, ControlInv, SetUp, Committed, HostOnlyEstablished
<1> QED
  BY <1>2, <1>3, <1>4 DEF OnInitReply

\* The last IKE_AUTH response.
LEMMA FinalReplyKeeps ==
  ASSUME IInv, NEW m, OnFinalReply(m)
  PROVE  IInv'
<1>1. task \in {"auth", "final"} /\ UNCHANGED saVars
  BY DEF OnFinalReply
<1>2. CASE stage' = "Established" /\ NextChild(Append(children, NewChild(spi, m.body)))
  BY <1>1, <1>2, NextChildKeeps
<1>3. CASE stage' = "Established" /\ Fail("Established", children)
  BY <1>1, <1>3, TeardownKeeps DEF Fail, IInv
<1>4. CASE Fail(stage, children) /\ UNCHANGED stage
  BY <1>1, <1>4, TeardownKeeps DEF Fail, IInv
<1> QED
  BY <1>2, <1>3, <1>4 DEF OnFinalReply

\* The responses of the EAP conversation.
LEMMA EapReplyKeeps ==
  ASSUME IInv, NEW m, OnEapReply(m)
  PROVE  IInv'
<1>1. UNCHANGED <<saVars, stage>>
  BY DEF OnEapReply
<1>2. CASE Request(sa, messageId, "eap", Body("eap")) /\ UNCHANGED host
  BY <1>1, <1>2, RequestKeeps DEF Asking
<1>3. CASE Request(sa, messageId, "final", Body("final")) /\ UNCHANGED host
  BY <1>1, <1>3, RequestKeeps DEF Asking
<1>4. CASE Fail(stage, children)
  BY <1>1, <1>4, TeardownKeeps DEF Fail, IInv
<1> QED
  BY <1>2, <1>3, <1>4 DEF OnEapReply

\* The CREATE_CHILD_SA response.
LEMMA ChildReplyKeeps ==
  ASSUME IInv, NEW m, OnChildReply(m)
  PROVE  IInv'
<1>1. task = "child" /\ UNCHANGED <<saVars, stage>>
  BY DEF OnChildReply
<1>2. stage = "Established" /\ stage' = "Established"
  BY <1>1 DEF IInv, ControlInv, Committed
<1>3. ASSUME NEW b, Request(sa, messageId, "child", b), UNCHANGED host PROVE IInv'
  BY <1>1, <1>2, <1>3, RequestKeeps DEF Asking
<1>4. CASE Watch /\ UNCHANGED <<messageId, sent>>
  BY <1>1, <1>2, <1>4, WatchKeeps DEF Watch, Same
<1>5. CASE Fail(stage, children)
  BY <1>1, <1>5, TeardownKeeps DEF Fail, IInv
<1>6. CASE NextChild(<<NewChild(kid.in, m.body)>> \o children)
  BY <1>1, <1>2, <1>6, NextChildKeeps
<1>7. ASSUME NEW b, Request(sa, messageId, "delete", b), UNCHANGED host PROVE IInv'
  BY <1>1, <1>2, <1>7, RequestKeeps DEF Asking
<1> QED
  BY <1>3, <1>4, <1>5, <1>6, <1>7 DEF OnChildReply

\* The response to a DELETE or to dead peer detection: back to watch.
LEMMA PlainReplyKeeps ==
  ASSUME IInv, NEW m, OnPlainReply(m)
  PROVE  IInv'
<1>1. stage = "Established"
  BY DEF IInv, ControlInv, Committed, OnPlainReply
<1> QED
  BY <1>1, WatchKeeps DEF OnPlainReply, Watch, Same

\* The end of teardown.
LEMMA CloseKeeps ==
  ASSUME IInv, task = "close", Done, Same, UNCHANGED <<stage, host>>
  PROVE  IInv'
<1>1. ~host
  BY DEF IInv, ControlInv, HostOnlyEstablished, Asking
<1>2. KeyInv'
  BY SameKeeps DEF IInv
<1> QED
  BY <1>1, <1>2 DEF Done, IInv, ControlInv, SetUp, Committed, HostOnlyEstablished

\* A response to the gateway leaves the control of the task alone.
LEMMA OrderKeeps ==
  ASSUME IInv, UNCHANGED <<stage, host, task>>, task # "start",
         NEW b, RespondedWith(b)
  PROVE  IInv'
<1>1. KeyInv'
  BY RespondedKeeps DEF IInv
<1>2. task # "init"
  BY DEF RespondedWith, IInv, ControlInv, SetUp
<1> QED
  BY <1>1, <1>2 DEF IInv, ControlInv, SetUp, Committed, HostOnlyEstablished

\* A retransmission of the gateway.
LEMMA RetransmissionKeeps ==
  ASSUME IInv, NEW m, OnRetransmission(m)
  PROVE  IInv'
<1>1. Repeated
  BY DEF OnRetransmission, Repeated
<1>2. KeyInv'
  BY <1>1, RepeatedKeeps DEF IInv
<1> QED
  BY <1>2 DEF OnRetransmission, saVars, IInv, ControlInv, SetUp, Committed, HostOnlyEstablished

\* A request that is refused.
LEMMA RefusedKeeps ==
  ASSUME IInv, NEW m, OnRefused(m)
  PROVE  IInv'
<1>1. sa # NoSa /\ task # "start" /\ m.id = peerMessageId
  BY DEF OnRefused, IsNew, Heard, Asking
<1>2. RespondedWith(Body("refused"))
  BY <1>1 DEF OnRefused, Respond, RespondedWith
<1> QED
  BY <1>1, <1>2, OrderKeeps DEF OnRefused

\* A rekey of the IKE SA.
LEMMA IkeRekeyKeeps ==
  ASSUME IInv, NEW m, OnIkeRekey(m)
  PROVE  IInv'
<1>1. sa # NoSa /\ task # "start" /\ m.id = peerMessageId
  BY DEF OnIkeRekey, IsNew, Heard, Asking
<1>2. RespondedWith([what |-> "ikeCreated", sa |-> sas + 1])
  BY <1>1 DEF OnIkeRekey, Respond, RespondedWith
<1> QED
  BY <1>1, <1>2, OrderKeeps DEF OnIkeRekey

\* A rekey of a CHILD SA.
LEMMA ChildRekeyKeeps ==
  ASSUME IInv, NEW m, OnChildRekey(m)
  PROVE  IInv'
<1>1. sa # NoSa /\ task # "start" /\ m.id = peerMessageId /\ UNCHANGED <<stage, host, task>>
  BY DEF OnChildRekey, IsNew, Heard, Asking
<1>2. ASSUME NEW b, Respond(m, b), UNCHANGED <<sa, next, sas, messageId>> PROVE IInv'
  <2>1. RespondedWith(b)
    BY <1>1, <1>2 DEF Respond, RespondedWith
  <2> QED
    BY <1>1, <2>1, OrderKeeps
<1>3. CASE Respond(m, Body("notFound"))
  BY <1>2, <1>3 DEF OnChildRekey
<1>4. CASE Respond(m, [what |-> "childCreated", in |-> spi + 1])
  BY <1>2, <1>4 DEF OnChildRekey
<1> QED
  BY <1>3, <1>4 DEF OnChildRekey

\* An INFORMATIONAL request: the session goes on, on this IKE SA or on the
\* rekeyed one, or it is over.
LEMMA InformationalKeeps ==
  ASSUME IInv, NEW m, OnInformational(m)
  PROVE  IInv'
<1> DEFINE kids == Kept(children, m.body.outs)
           b == [what |-> "deleted",
                 ins |-> {children[k].in : k \in Dropped(children, m.body.outs)}]
           ends == EndsIke(m, kids)
<1>1. /\ sa # NoSa /\ task # "start" /\ m.id = peerMessageId
      /\ sent' = sent \cup {Message(sa, peerMessageId, TRUE, b)}
      /\ UNCHANGED <<stage, sas>>
  BY DEF OnInformational, IsNew, Heard, Asking
<1>2. task # "init"
  BY <1>1 DEF IInv, ControlInv, SetUp
<1>3. CASE ends /\ next # NoSa
  <2>1. SwitchIke /\ UNCHANGED <<host, task>>
    BY <1>3 DEF OnInformational
  <2>2. SwitchedWith(b)
    BY <1>1, <1>3, <2>1 DEF SwitchedWith
  <2>3. KeyInv'
    BY <2>2, SwitchedKeeps DEF IInv
  <2> QED
    BY <1>1, <1>2, <2>1, <2>3 DEF IInv, ControlInv, SetUp, Committed, HostOnlyEstablished
<1>4. CASE ~(ends /\ next # NoSa)
  <2>1. /\ peerMessageId' = peerMessageId + 1
        /\ lastResponse' = Message(sa, peerMessageId, TRUE, b)
        /\ UNCHANGED <<sa, next, messageId>>
    BY <1>1, <1>4 DEF OnInformational
  <2>2. RespondedWith(b)
    BY <1>1, <2>1 DEF RespondedWith
  <2>3. \/ UNCHANGED <<host, task>>
        \/ host' = FALSE /\ task' = "done"
    BY <1>4 DEF OnInformational, Done
  <2>4. KeyInv'
    BY <2>2, RespondedKeeps DEF IInv
  <2> QED
    BY <1>1, <1>2, <2>3, <2>4 DEF IInv, ControlInv, SetUp, Committed, HostOnlyEstablished
<1> QED
  BY <1>3, <1>4

\* What the client does by itself: establish, timers, the user.
LEMMA LocalKeeps == IInv /\ Local => IInv'
<1> SUFFICES ASSUME IInv, Local PROVE IInv'
  OBVIOUS
<1>1. CASE Establish
  BY <1>1, EstablishKeeps
<1>2. CASE Retransmit
  <2>1. KeyInv'
    BY <1>2, SameKeeps DEF Retransmit, Same, IInv
  <2> QED
    BY <1>2, <2>1
    DEF Retransmit, saVars, IInv, ControlInv, SetUp, Committed, HostOnlyEstablished
<1>3. CASE GiveUp
  <2>1. UNCHANGED <<stage, saVars>>
    BY <1>3 DEF GiveUp
  <2>2. CASE task = "close"
    BY <1>3, <2>1, <2>2, CloseKeeps DEF GiveUp, Same
  <2>3. CASE task # "close" /\ (~host \/ task = "dpd")
    <3>1. Teardown(IF host THEN "Down" ELSE "Error", stage, "silent", children)
      BY <1>3, <2>3 DEF GiveUp
    <3> QED
      BY <2>1, <3>1, TeardownKeeps DEF IInv
  <2>4. CASE task # "close" /\ ~(~host \/ task = "dpd")
    <3>1. Fail(stage, children)
      BY <1>3, <2>4 DEF GiveUp
    <3> QED
      BY <2>1, <3>1, TeardownKeeps DEF Fail, IInv
  <2> QED
    BY <2>2, <2>3, <2>4
<1>4. CASE IoError
  <2>1. CASE task = "close"
    BY <1>4, <2>1, CloseKeeps DEF IoError, Same
  <2>2. CASE task # "close"
    BY <1>4, <2>2, TeardownKeeps DEF IoError, Fail, IInv
  <2> QED
    BY <2>1, <2>2
<1>5. CASE Cancel
  BY <1>5, TeardownKeeps DEF Cancel, IInv
<1>6. CASE StartDpd
  <2>1. stage = "Established"
    BY <1>6 DEF StartDpd, IInv, ControlInv, Committed
  <2> QED
    BY <1>6, <2>1, RequestKeeps DEF StartDpd, Asking
<1>7. ASSUME NEW k \in DOMAIN children, StartRekey(k) PROVE IInv'
  <2>1. stage = "Established"
    BY <1>7 DEF StartRekey, IInv, ControlInv, Committed
  <2> QED
    BY <1>7, <2>1, RequestKeeps DEF StartRekey, CreateChild, Asking
<1> QED
  BY <1>1, <1>2, <1>3, <1>4, <1>5, <1>6, <1>7 DEF Local

-----------------------------------------------------------------------------
(* The theorems.                                                           *)

\* The invariant holds initially.
LEMMA InitEstablishes == Init => IInv
BY DEF Init, IInv, KeyInv, Numeric, SaOrder, SentBefore, LastSent, NonceUnique, Encrypted,
       ControlInv, SetUp, Committed, HostOnlyEstablished, NoSa

\* Every step keeps it, whatever the gateway sends.
LEMMA StepKeeps == IInv /\ [Next]_vars => IInv'
<1> SUFFICES ASSUME IInv, [Next]_vars PROVE IInv'
  OBVIOUS
<1>1. ASSUME NEW m, OnReply(m) PROVE IInv'
  <2>1. CASE OnCloseReply(m)
    BY <2>1, CloseKeeps DEF OnCloseReply, Same
  <2> QED
    BY <1>1, <2>1, InitReplyKeeps, FinalReplyKeeps, EapReplyKeeps, ChildReplyKeeps,
       PlainReplyKeeps DEF OnReply
<1>2. ASSUME NEW m, OnOrder(m) PROVE IInv'
  BY <1>2, RetransmissionKeeps, RefusedKeeps, IkeRekeyKeeps, ChildRekeyKeeps,
     InformationalKeeps DEF OnOrder
<1>3. CASE Next
  BY <1>1, <1>2, <1>3, LocalKeeps DEF Next
<1>4. CASE UNCHANGED vars
  <2>1. KeyInv'
    BY <1>4, SameKeeps DEF vars, Same, IInv
  <2> QED
    BY <1>4, <2>1
    DEF vars, saVars, IInv, ControlInv, SetUp, Committed, HostOnlyEstablished
<1> QED
  BY <1>3, <1>4

\* The inductive invariant holds throughout a session with any gateway.
THEOREM SessionInvariant == Spec => []IInv
<1>1. Init => IInv
  BY InitEstablishes
<1>2. IInv /\ [Next]_vars => IInv'
  BY StepKeeps
<1> QED
  BY <1>1, <1>2, PTL DEF Spec

\* No AEAD nonce is used for two messages of an IKE SA (Message::seal).
THEOREM NoncesUnique == Spec => []NonceUnique
<1>1. IInv => NonceUnique
  BY DEF IInv, KeyInv
<1> QED
  BY <1>1, SessionInvariant, PTL

\* The interface is up only in an established session that is not over.
THEOREM HostIsEstablished == Spec => []HostOnlyEstablished
<1>1. IInv => HostOnlyEstablished
  BY DEF IInv, ControlInv
<1> QED
  BY <1>1, SessionInvariant, PTL

-----------------------------------------------------------------------------
(* The types.                                                              *)

Kid == [in : Nat, out : Nat, nets : SUBSET Networks, replaced : BOOLEAN]
Outcomes == {"none", "Stopped", "Down", "Error"}
Downs == {"none", "closed", "silent"}

KidsType == children \in Seq(Kid)
WaitType == wait \in [sa : Nat, id : Nat, body : {wait.body}, sends : 0 .. Retransmits]
AskType ==
  /\ spi \in Nat /\ left \in Nat /\ todo \in Seq(Networks)
  /\ kid \in [in : Nat, old : Nat, nets : SUBSET Networks]
TaskType ==
  /\ stage \in Stages /\ task \in Tasks /\ host \in BOOLEAN
  /\ down \in Downs /\ outcome \in Outcomes

TypeInv == KidsType /\ WaitType /\ AskType /\ TaskType

\* What a CHILD SA takes from a message of the gateway.
Offers(m) == m.body.out \in Nat /\ m.body.nets \in SUBSET Networks

\* A request under way.
LEMMA RequestTypes ==
  ASSUME NEW s \in Nat, NEW i \in Nat, NEW t \in Tasks, NEW b, Request(s, i, t, b)
  PROVE  WaitType' /\ task' = t /\ task' \in Tasks
<1>1. 1 \in 0 .. Retransmits
  BY IkeCounts
<1> DEFINE w == [sa |-> s, id |-> i, body |-> b, sends |-> 1]
<1>2. wait' = w /\ task' = t
  BY DEF Request
<1>3. w.body = b /\ w \in [sa : Nat, id : Nat, body : {b}, sends : 0 .. Retransmits]
  BY <1>1
<1> HIDE DEF w
<1> QED
  BY <1>2, <1>3 DEF WaitType

\* No request under way.
LEMMA IdleTypes == wait' = NoRequest => WaitType'
<1> DEFINE b == [what |-> "none"]
<1>1. 0 \in 0 .. Retransmits
  BY IkeCounts
<1>2. NoRequest.body = b /\ NoRequest \in [sa : Nat, id : Nat, body : {b}, sends : 0 .. Retransmits]
  BY <1>1 DEF NoRequest, NoSa
<1> HIDE DEF b
<1> QED
  BY <1>2 DEF WaitType

\* The end of the session.
LEMMA TeardownTypes ==
  ASSUME Numeric, TaskType, NEW kids \in Seq(Kid), NEW o \in Outcomes, NEW st, NEW d \in Downs,
         Teardown(o, st, d, kids), stage' \in Stages
  PROVE  KidsType' /\ WaitType' /\ TaskType'
<1>1. host' = FALSE /\ down' = d /\ outcome' = o
  BY DEF Teardown
<1>2. CASE st = "Established" /\ d = "none"
  <2>1. Request(sa, messageId, "close", Body("deleteIke")) /\ children' = kids
    BY <1>2 DEF Teardown
  <2>2. WaitType' /\ task' \in Tasks
    BY <2>1, RequestTypes DEF Numeric, Tasks
  <2> QED
    BY <1>1, <2>1, <2>2 DEF KidsType, TaskType
<1>3. CASE ~(st = "Established" /\ d = "none")
  <2>1. task' = "done" /\ wait' = NoRequest /\ children' = <<>>
    BY <1>3 DEF Teardown, Done
  <2>2. <<>> \in Seq(Kid)
    OBVIOUS
  <2> QED
    BY <1>1, <2>1, <2>2, IdleTypes DEF KidsType, TaskType, Tasks
<1> QED
  BY <1>2, <1>3

\* What Uncovered returns is the rest of the list from one of its members on.
LEMMA UncoveredTypes ==
  ASSUME NEW S, NEW q \in Seq(S), NEW kids
  PROVE  Uncovered(q, kids) \in Seq(S)
<1> DEFINE open == {i \in DOMAIN q : \A k \in DOMAIN kids : q[i] \notin kids[k].nets}
<1>1. CASE open = {}
  <2>1. <<>> \in Seq(S)
    OBVIOUS
  <2> QED
    BY <1>1, <2>1 DEF Uncovered
<1>2. CASE open # {}
  <2> DEFINE first == CHOOSE i \in open : \A j \in open : i <= j
  <2>1. open \in SUBSET Nat /\ open \subseteq DOMAIN q
    OBVIOUS
  <2>2. \E i \in open : \A j \in open : i <= j
    <3> HIDE DEF open
    <3> QED
      BY <1>2, <2>1, LeastNatural
  <2>3. first \in open
    <3> HIDE DEF open
    <3> QED
      BY <2>2
  <2>4. first \in 1 .. Len(q)
    <3> HIDE DEF first
    <3> QED
      BY <2>1, <2>3
  <2>5. Uncovered(q, kids) = SubSeq(q, first, Len(q))
    BY <1>2 DEF Uncovered
  <2> HIDE DEF first, open
  <2> QED
    BY <2>4, <2>5
<1> QED
  BY <1>1, <1>2

\* create_child: the parameters, and the request.
LEMMA CreateChildTypes ==
  ASSUME Numeric, AskType, NEW old \in Nat, NEW nets \in SUBSET Networks, CreateChild(old, nets),
         todo' \in Seq(Networks)
  PROVE  AskType' /\ WaitType' /\ task' \in Tasks
<1> DEFINE k == [in |-> spi + 1, old |-> old, nets |-> nets]
<1>1. Request(sa, messageId, "child", ChildRequest(spi + 1, old, nets, GroupRetries))
  BY DEF CreateChild
<1>2. WaitType' /\ task' \in Tasks
  BY <1>1, RequestTypes DEF Numeric, Tasks, Asking
<1>3. k \in [in : Nat, old : Nat, nets : SUBSET Networks]
  BY DEF AskType
<1>4. kid' = k /\ spi' = spi + 1 /\ left' = GroupRetries
  BY DEF CreateChild
<1> HIDE DEF k
<1> QED
  BY <1>2, <1>3, <1>4, IkeCounts DEF AskType

\* establish, once children is known.
LEMMA NextChildTypes ==
  ASSUME Numeric, TypeInv, NEW kids \in Seq(Kid), NextChild(kids), stage' \in Stages
  PROVE  TypeInv'
<1> DEFINE q == Uncovered(todo, kids)
<1>1. q \in Seq(Networks)
  BY UncoveredTypes DEF TypeInv, AskType
<1>2. CASE q # <<>>
  <2>1. /\ CreateChild(NoSpi, {Head(q)}) /\ todo' = Tail(q) /\ children' = kids
        /\ UNCHANGED <<host, outcome, down>>
    BY <1>2 DEF NextChild
  <2> HIDE DEF q
  <2>2. {Head(q)} \in SUBSET Networks /\ Tail(q) \in Seq(Networks)
    BY <1>1, <1>2
  <2>3. AskType' /\ WaitType' /\ task' \in Tasks
    BY <2>1, <2>2, CreateChildTypes DEF TypeInv, NoSpi
  <2> QED
    BY <2>1, <2>3 DEF TypeInv, KidsType, TaskType
<1>3. CASE q = <<>>
  <2>1. todo' = <<>> /\ UNCHANGED <<spi, left, kid>> /\ BringUp(kids)
    BY <1>3 DEF NextChild
  <2>2. <<>> \in Seq(Networks)
    OBVIOUS
  <2>3. AskType'
    BY <2>1, <2>2 DEF TypeInv, AskType
  <2>4. CASE /\ host' = TRUE /\ Watch /\ children' = kids
             /\ UNCHANGED <<messageId, sent, outcome, down>>
    BY <2>3, <2>4, IdleTypes DEF Watch, TypeInv, KidsType, TaskType, Tasks
  <2>5. CASE Fail("Established", kids)
    BY <2>3, <2>5, TeardownTypes DEF Fail, TypeInv, TaskType, Outcomes
  <2> QED
    BY <2>1, <2>4, <2>5 DEF BringUp
<1> QED
  BY <1>2, <1>3

\* What is retained, and a CHILD SA that joins the others, have their types.
LEMMA RetainedTypes ==
  ASSUME NEW kids \in Seq(Kid), NEW K
  PROVE  Retained(kids, K) \in Seq(Kid)
BY RetainedIs

\* A new CHILD SA has the type of one.
LEMMA NewChildTypes ==
  ASSUME NEW in \in Nat, NEW m, Offers(m)
  PROVE  NewChild(in, m.body) \in Kid
BY DEF NewChild, Offers, Kid

\* The responses of IKE_SA_INIT and IKE_AUTH.
LEMMA SetupReplyTypes ==
  ASSUME Numeric, TypeInv, NEW m, m.body.what = "created" => Offers(m),
         OnInitReply(m) \/ OnFinalReply(m) \/ OnEapReply(m)
  PROVE  TypeInv'
<1> USE DEF TypeInv
<1>1. /\ sa \in Nat /\ messageId \in Nat /\ spi \in Nat /\ left \in Nat
      /\ children \in Seq(Kid) /\ stage \in Stages
  BY DEF Numeric, AskType, KidsType, TaskType
<1>f. ASSUME NEW st, Fail(st, children), UNCHANGED <<spi, left, kid, todo>>, stage' \in Stages
      PROVE  TypeInv'
  <2>1. KidsType' /\ WaitType' /\ TaskType'
    BY <1>1, <1>f, TeardownTypes DEF Fail, TaskType, Outcomes
  <2> QED
    BY <1>f, <2>1 DEF AskType
<1>r. ASSUME NEW s \in Nat, NEW i \in Nat, NEW t \in Tasks, NEW b, Request(s, i, t, b),
             UNCHANGED <<children, host, down, outcome, kid, todo>>,
             stage' \in Stages, spi' \in Nat, left' \in Nat
      PROVE  TypeInv'
  <2>1. WaitType' /\ task' \in Tasks
    BY <1>r, RequestTypes
  <2> QED
    BY <1>r, <2>1 DEF KidsType, AskType, TaskType
<1>2. CASE OnInitReply(m)
  <2>1. CASE left > 1 /\ InitRequest(left - 1) /\ UNCHANGED <<stage, sa, sas, spi, children, host, down, outcome>>
    <3>1. left - 1 \in Nat /\ left' = left - 1 /\ NoSa \in Nat /\ "init" \in Tasks
      BY <1>1, <2>1 DEF InitRequest, NoSa, Tasks, Asking
    <3>2. Request(NoSa, 0, "init", [what |-> "init", left |-> left - 1])
      BY <2>1 DEF InitRequest
    <3> QED
      BY <1>1, <1>2, <2>1, <3>1, <3>2, <1>r DEF OnInitReply
  <2>2. CASE Fail(stage, children) /\ UNCHANGED <<stage, spi, left>>
    BY <1>1, <1>2, <2>2, <1>f DEF OnInitReply
  <2>3. CASE /\ sa' = 1 /\ sas' = 1 /\ stage' = "Auth" /\ spi' = spi + 1
             /\ Request(1, messageId, "auth", AuthRequest)
             /\ UNCHANGED <<left, children, host, down, outcome>>
    <3>1. "auth" \in Tasks /\ stage' \in Stages /\ spi' \in Nat
      BY <1>1, <2>3 DEF Tasks, Asking, Stages
    <3> QED
      BY <1>1, <1>2, <2>3, <3>1, <1>r DEF OnInitReply
  <2> QED
    BY <1>2, <2>1, <2>2, <2>3 DEF OnInitReply
<1>3. CASE OnFinalReply(m)
  <2>1. CASE /\ m.body.what = "created" /\ stage' = "Established"
             /\ NextChild(Append(children, NewChild(spi, m.body)))
    <3>1. Append(children, NewChild(spi, m.body)) \in Seq(Kid)
      <4>1. NewChild(spi, m.body) \in Kid
        BY <1>1, <2>1, NewChildTypes
      <4> QED
        BY <1>1, <4>1
    <3> QED
      BY <2>1, <3>1, NextChildTypes DEF Stages
  <2>2. CASE stage' = "Established" /\ Fail("Established", children) /\ UNCHANGED kidVars
    BY <2>2, <1>f DEF kidVars, Stages
  <2>3. CASE Fail(stage, children) /\ UNCHANGED <<stage, kidVars>>
    BY <2>3, <1>f, <1>1 DEF kidVars
  <2> QED
    BY <1>3, <2>1, <2>2, <2>3 DEF OnFinalReply
<1>4. CASE OnEapReply(m)
  <2>0. UNCHANGED <<stage, spi, left, kid, todo>>
    BY <1>4 DEF OnEapReply, kidVars
  <2>1. ASSUME NEW t \in {"eap", "final"}, NEW b, Request(sa, messageId, t, b),
               UNCHANGED <<children, host, down, outcome>>
        PROVE  TypeInv'
    <3>1. t \in Tasks
      BY DEF Tasks, Asking
    <3> QED
      BY <1>1, <2>0, <2>1, <3>1, <1>r
  <2>2. CASE Fail(stage, children)
    BY <1>1, <2>0, <2>2, <1>f
  <2> QED
    BY <1>4, <2>1, <2>2 DEF OnEapReply
<1> QED
  BY <1>2, <1>3, <1>4

\* A task that only asks, watches or is done.
LEMMA PlainTypes ==
  ASSUME TypeInv, task' \in Tasks, WaitType', KidsType',
         UNCHANGED <<stage, host, down, outcome, spi, left, kid, todo>>
  PROVE  TypeInv'
BY DEF TypeInv, AskType, TaskType

\* The CREATE_CHILD_SA response.
LEMMA ChildReplyTypes ==
  ASSUME Numeric, TypeInv, NEW m, m.body.what = "created" => Offers(m), OnChildReply(m)
  PROVE  TypeInv'
<1> USE DEF TypeInv
<1>1. /\ sa \in Nat /\ messageId \in Nat /\ spi \in Nat /\ left \in Nat
      /\ children \in Seq(Kid) /\ stage \in Stages /\ stage' = stage
      /\ kid.in \in Nat /\ kid.old \in Nat
  BY DEF OnChildReply, Numeric, AskType, KidsType, TaskType
<1>2. CASE /\ left > 1 /\ left' = left - 1
           /\ Request(sa, messageId, "child", ChildRequest(kid.in, kid.old, kid.nets, left - 1))
           /\ UNCHANGED <<children, host, down, outcome, spi, kid, todo>>
  <2>1. WaitType' /\ task' \in Tasks
    BY <1>1, <1>2, RequestTypes DEF Tasks, Asking
  <2>2. left' \in Nat
    BY <1>1, <1>2
  <2> QED
    BY <1>1, <1>2, <2>1, <2>2 DEF KidsType, AskType, TaskType
<1>3. CASE /\ children' = Without(children, kid.old) /\ Watch
           /\ UNCHANGED <<messageId, sent, host, down, outcome, kidVars>>
  <2>1. children' \in Seq(Kid)
    BY <1>1, <1>3, RetainedTypes DEF Without
  <2> QED
    BY <1>1, <1>3, <2>1, IdleTypes, PlainTypes DEF Watch, Tasks, kidVars, KidsType
<1>4. CASE Fail(stage, children) /\ UNCHANGED kidVars
  <2>1. KidsType' /\ WaitType' /\ TaskType'
    BY <1>1, <1>4, TeardownTypes DEF Fail, TaskType, Outcomes
  <2> QED
    BY <1>4, <2>1 DEF AskType, kidVars
<1>5. ASSUME m.body.what = "created" PROVE NewChild(kid.in, m.body) \in Kid
  BY <1>1, <1>5, NewChildTypes
<1>6. CASE m.body.what = "created" /\ NextChild(<<NewChild(kid.in, m.body)>> \o children)
  <2>1. <<NewChild(kid.in, m.body)>> \o children \in Seq(Kid)
    BY <1>1, <1>5, <1>6
  <2> QED
    BY <1>1, <1>6, <2>1, NextChildTypes
<1>7. CASE /\ m.body.what = "created"
           /\ children' = <<NewChild(kid.in, m.body)>> \o Without(children, kid.old)
           /\ IF Has(children, kid.old)
              THEN Request(sa, messageId, "delete", [what |-> "deleteChild", in |-> kid.old])
              ELSE Watch /\ UNCHANGED <<messageId, sent>>
           /\ UNCHANGED <<host, down, outcome, kidVars>>
  <2>1. Without(children, kid.old) \in Seq(Kid)
    BY <1>1, RetainedTypes DEF Without
  <2>2. children' \in Seq(Kid)
    BY <1>5, <1>7, <2>1
  <2>3. WaitType' /\ task' \in Tasks
    <3>1. CASE Request(sa, messageId, "delete", [what |-> "deleteChild", in |-> kid.old])
      BY <1>1, <3>1, RequestTypes DEF Tasks, Asking
    <3>2. CASE Watch
      BY <3>2, IdleTypes DEF Watch, Tasks
    <3> QED
      BY <1>7, <3>1, <3>2
  <2> QED
    BY <1>1, <1>7, <2>2, <2>3, PlainTypes DEF kidVars, KidsType
<1> QED
  BY <1>2, <1>3, <1>4, <1>6, <1>7 DEF OnChildReply

\* The responses after which nothing remains to be done.
LEMMA DoneTypes ==
  ASSUME TypeInv, NEW m, OnPlainReply(m) \/ OnCloseReply(m)
  PROVE  TypeInv'
<1>1. wait' = NoRequest /\ task' \in {"watch", "done"} /\ (children' = children \/ children' = <<>>)
  BY DEF OnPlainReply, OnCloseReply, Watch, Done
<1>2. KidsType'
  <2>1. <<>> \in Seq(Kid)
    OBVIOUS
  <2> QED
    BY <1>1, <2>1 DEF TypeInv, KidsType
<1> QED
  BY <1>1, <1>2, IdleTypes, PlainTypes DEF OnPlainReply, OnCloseReply, kidVars, Tasks

\* The position of a CHILD SA is none, or one of the list.
LEMMA ByOutIs ==
  ASSUME NEW kids \in Seq(Kid), NEW out
  PROVE  \/ ByOut(kids, out) = 0 /\ \A k \in DOMAIN kids : kids[k].out # out
         \/ /\ ByOut(kids, out) \in DOMAIN kids /\ kids[ByOut(kids, out)].out = out
            /\ \A k \in DOMAIN kids : kids[k].out = out => ByOut(kids, out) <= k
<1> DEFINE found == {k \in DOMAIN kids : kids[k].out = out}
<1>1. CASE found = {}
  BY <1>1 DEF ByOut
<1>2. CASE found # {}
  <2>1. found \in SUBSET Nat
    OBVIOUS
  <2>2. \E k \in found : \A j \in found : k <= j
    <3> HIDE DEF found
    <3> QED
      BY <1>2, <2>1, LeastNatural
  <2>3. ByOut(kids, out) = CHOOSE k \in found : \A j \in found : k <= j
    BY <1>2 DEF ByOut
  <2>4. ByOut(kids, out) \in found /\ \A j \in found : ByOut(kids, out) <= j
    <3> HIDE DEF found
    <3> QED
      BY <2>2, <2>3
  <2> QED
    BY <2>4
<1> QED
  BY <1>1, <1>2

\* A list with one CHILD SA marked as replaced.
LEMMA ReplacedTypes ==
  ASSUME NEW kids \in Seq(Kid), NEW k \in DOMAIN kids
  PROVE  /\ [kids EXCEPT ![k].replaced = TRUE] \in Seq(Kid)
         /\ Len([kids EXCEPT ![k].replaced = TRUE]) = Len(kids)
         /\ \A j \in DOMAIN kids :
              LET c == [kids EXCEPT ![k].replaced = TRUE][j]
              IN  c.in = kids[j].in /\ c.out = kids[j].out /\ c.nets = kids[j].nets
<1> DEFINE yes == TRUE
<1>0. yes \in BOOLEAN
  OBVIOUS
<1> HIDE DEF yes
<1> DEFINE c == [kids[k] EXCEPT !.replaced = yes]
           r == [kids EXCEPT ![k] = c]
<1>1. kids[k] \in Kid
  OBVIOUS
<1>2. c \in Kid /\ c.in = kids[k].in /\ c.out = kids[k].out /\ c.nets = kids[k].nets
  BY <1>0, <1>1 DEF Kid
<1> HIDE DEF c
<1>3. r \in Seq(Kid) /\ Len(r) = Len(kids)
  BY <1>2
<1>4. \A j \in DOMAIN kids : r[j] = IF j = k THEN c ELSE kids[j]
  OBVIOUS
<1>5. [kids EXCEPT ![k].replaced = yes] = r
  BY DEF c
<1> HIDE DEF r
<1>6. \A j \in DOMAIN kids : r[j].in = kids[j].in /\ r[j].out = kids[j].out /\ r[j].nets = kids[j].nets
  BY <1>2, <1>4
<1> QED
  BY <1>3, <1>5, <1>6 DEF yes

\* The requests of the gateway.
LEMMA OrderTypes ==
  ASSUME Numeric, TypeInv, NEW m, m.body.what = "rekeyChild" => Offers(m), OnOrder(m)
  PROVE  TypeInv'
<1> USE DEF TypeInv
<1>1. children \in Seq(Kid) /\ spi \in Nat /\ spi + 1 \in Nat
  BY DEF KidsType, AskType
<1>2. CASE OnRetransmission(m) \/ OnRefused(m) \/ OnIkeRekey(m)
  <2>1. UNCHANGED <<stage, children, host, down, spi, left, kid, todo, task, wait, outcome>>
    BY <1>2 DEF OnRetransmission, OnRefused, OnIkeRekey, kidVars
  <2> QED
    BY <2>1 DEF KidsType, WaitType, AskType, TaskType
<1>3. CASE OnChildRekey(m)
  <2> DEFINE old == ByOut(children, m.body.old)
  <2>0. /\ UNCHANGED <<stage, host, down, left, kid, todo, task, wait, outcome>>
        /\ m.body.what = "rekeyChild"
    BY <1>3 DEF OnChildRekey
  <2>1. children' \in Seq(Kid) /\ spi' \in Nat
    <3>1. CASE old = 0
      BY <1>1, <1>3, <3>1 DEF OnChildRekey
    <3>2. CASE old # 0
      <4>1. /\ spi' = spi + 1
            /\ children' = <<NewChild(spi + 1, m.body)>> \o [children EXCEPT ![old].replaced = TRUE]
        BY <1>3, <3>2 DEF OnChildRekey
      <4>2. [children EXCEPT ![old].replaced = TRUE] \in Seq(Kid)
        BY <1>1, <3>2, ByOutIs, ReplacedTypes
      <4>3. NewChild(spi + 1, m.body) \in Kid
        BY <1>1, <2>0, NewChildTypes
      <4> HIDE DEF old
      <4> QED
        BY <1>1, <4>1, <4>2, <4>3
    <3> QED
      BY <3>1, <3>2
  <2> QED
    BY <2>0, <2>1 DEF KidsType, WaitType, AskType, TaskType
<1>4. CASE OnInformational(m)
  <2> DEFINE kids == Kept(children, m.body.outs)
  <2>1. kids \in Seq(Kid)
    BY <1>1, RetainedTypes DEF Kept
  <2>2. UNCHANGED <<stage, spi, left, kid, todo>>
    BY <1>4 DEF OnInformational, kidVars
  <2>3. \/ children' = kids /\ UNCHANGED <<host, down, task, wait, outcome>>
        \/ down' = "closed" /\ host' = FALSE /\ Done /\ outcome' \in {outcome, "Down", "Error"}
    BY <1>4 DEF OnInformational
  <2> HIDE DEF kids
  <2>4. CASE children' = kids /\ UNCHANGED <<host, down, task, wait, outcome>>
    BY <2>1, <2>2, <2>4 DEF KidsType, WaitType, AskType, TaskType
  <2>5. CASE down' = "closed" /\ host' = FALSE /\ Done /\ outcome' \in {outcome, "Down", "Error"}
    <3>1. <<>> \in Seq(Kid)
      OBVIOUS
    <3>2. WaitType'
      BY <2>5, IdleTypes DEF Done
    <3> QED
      BY <2>2, <2>5, <3>1, <3>2 DEF Done, KidsType, AskType, TaskType, Tasks, Outcomes, Downs
  <2> QED
    BY <2>3, <2>4, <2>5
<1> QED
  BY <1>2, <1>3, <1>4 DEF OnOrder

\* What the client does by itself.
LEMMA LocalTypes ==
  ASSUME Numeric, TypeInv, Local
  PROVE  TypeInv'
<1> USE DEF TypeInv
<1>1. /\ sa \in Nat /\ messageId \in Nat /\ spi \in Nat /\ left \in Nat
      /\ children \in Seq(Kid) /\ stage \in Stages /\ down \in Downs
  BY DEF Numeric, AskType, KidsType, TaskType
<1>f. ASSUME NEW o \in Outcomes, NEW d \in Downs, Teardown(o, stage, d, children),
             UNCHANGED <<stage, spi, left, kid, todo>>
      PROVE  TypeInv'
  <2>1. KidsType' /\ WaitType' /\ TaskType'
    BY <1>1, <1>f, TeardownTypes
  <2> QED
    BY <1>f, <2>1 DEF AskType
<1>d. ASSUME Done, UNCHANGED <<stage, host, down, outcome, spi, left, kid, todo>> PROVE TypeInv'
  <2>1. <<>> \in Seq(Kid)
    OBVIOUS
  <2> QED
    BY <1>d, <2>1, IdleTypes, PlainTypes DEF Done, KidsType, Tasks
<1>2. CASE Establish
  <2>1. CASE InitRequest(InitRetries) /\ UNCHANGED <<children, host, down, outcome>>
    <3>1. NoSa \in Nat /\ "init" \in Tasks
      BY DEF NoSa, Tasks, Asking
    <3>2. WaitType' /\ task' \in Tasks
      BY <2>1, <3>1, RequestTypes DEF InitRequest
    <3> QED
      BY <1>2, <2>1, <3>2, IkeCounts DEF Establish, InitRequest, KidsType, AskType, TaskType
  <2>2. CASE Fail(stage, children) /\ UNCHANGED left
    BY <1>1, <1>2, <2>2, <1>f DEF Establish, Fail, Outcomes
  <2> QED
    BY <1>2, <2>1, <2>2 DEF Establish
<1>3. CASE Retransmit
  <2> DEFINE w == [wait EXCEPT !.sends = @ + 1]
             b == wait.body
  <2>1. wait \in [sa : Nat, id : Nat, body : {b}, sends : 0 .. Retransmits]
    BY DEF WaitType
  <2>2. wait.sends < Retransmits
    BY <1>3, <2>1, IkeCounts DEF Retransmit, Sends
  <2> HIDE DEF b
  <2>3. wait.sends \in 0 .. Retransmits /\ wait.sends + 1 \in 0 .. Retransmits
    BY <2>1, <2>2, IkeCounts
  <2>4. w.body = b /\ w \in [sa : Nat, id : Nat, body : {b}, sends : 0 .. Retransmits]
    BY <2>1, <2>3
  <2>5. wait' = w
    BY <1>3 DEF Retransmit
  <2> HIDE DEF w
  <2>6. WaitType'
    BY <2>4, <2>5 DEF WaitType
  <2> QED
    BY <1>3, <2>6 DEF Retransmit, kidVars, KidsType, AskType, TaskType
<1>4. CASE GiveUp
  <2>0. UNCHANGED <<stage, spi, left, kid, todo>>
    BY <1>4 DEF GiveUp, kidVars
  <2>1. CASE task = "close"
    BY <1>4, <2>0, <2>1, <1>d DEF GiveUp
  <2>2. CASE task # "close" /\ (~host \/ task = "dpd")
    <3>1. Teardown(IF host THEN "Down" ELSE "Error", stage, "silent", children)
      BY <1>4, <2>2 DEF GiveUp
    <3>2. (IF host THEN "Down" ELSE "Error") \in Outcomes /\ "silent" \in Downs
      BY DEF Outcomes, Downs
    <3> QED
      BY <2>0, <3>1, <3>2, <1>f
  <2>3. CASE task # "close" /\ ~(~host \/ task = "dpd")
    BY <1>1, <1>4, <2>0, <2>3, <1>f DEF GiveUp, Fail, Outcomes
  <2> QED
    BY <2>1, <2>2, <2>3
<1>5. CASE IoError
  <2>0. UNCHANGED <<stage, spi, left, kid, todo>>
    BY <1>5 DEF IoError, kidVars
  <2>1. CASE task = "close"
    BY <1>5, <2>0, <2>1, <1>d DEF IoError
  <2>2. CASE task # "close"
    BY <1>1, <1>5, <2>0, <2>2, <1>f DEF IoError, Fail, Outcomes
  <2> QED
    BY <2>1, <2>2
<1>6. CASE Cancel
  BY <1>1, <1>6, <1>f DEF Cancel, kidVars, Outcomes
<1>7. CASE StartDpd
  <2>1. WaitType' /\ task' \in Tasks
    BY <1>1, <1>7, RequestTypes DEF StartDpd, Tasks, Asking
  <2> QED
    BY <1>7, <2>1, PlainTypes DEF StartDpd, kidVars, KidsType
<1>8. ASSUME NEW k \in DOMAIN children, StartRekey(k) PROVE TypeInv'
  <2>1. children[k].in \in Nat /\ children[k].nets \in SUBSET Networks
    <3>1. children[k] \in Kid
      BY <1>1
    <3> QED
      BY <3>1 DEF Kid
  <2>2. AskType' /\ WaitType' /\ task' \in Tasks
    BY <1>8, <2>1, CreateChildTypes DEF StartRekey, AskType
  <2> QED
    BY <1>8, <2>2 DEF StartRekey, KidsType, TaskType
<1> QED
  BY <1>2, <1>3, <1>4, <1>5, <1>6, <1>7, <1>8 DEF Local

\* The types hold initially, and every step keeps them.
LEMMA InitTypes == Init => TypeInv
<1> SUFFICES ASSUME Init PROVE TypeInv
  OBVIOUS
<1>1. KidsType
  <2>1. <<>> \in Seq(Kid)
    OBVIOUS
  <2> QED
    BY <2>1 DEF Init, KidsType
<1>2. AskType
  <2>1. NoKid \in [in : Nat, old : Nat, nets : SUBSET Networks]
    BY DEF NoKid, NoSpi
  <2> QED
    BY <2>1, WantedAssumption DEF Init, AskType
<1>3. WaitType
  <2> DEFINE b == [what |-> "none"]
  <2>1. 0 \in 0 .. Retransmits
    BY IkeCounts
  <2>2. NoRequest.body = b /\ NoRequest \in [sa : Nat, id : Nat, body : {b}, sends : 0 .. Retransmits]
    BY <2>1 DEF NoRequest, NoSa
  <2> HIDE DEF b
  <2> QED
    BY <2>2 DEF Init, WaitType
<1> QED
  BY <1>1, <1>2, <1>3 DEF Init, TypeInv, TaskType, Stages, Tasks, Downs, Outcomes

\* Every step keeps the types.
LEMMA StepTypes == Numeric /\ TypeInv /\ [Next]_vars => TypeInv'
<1> SUFFICES ASSUME Numeric, TypeInv, [Next]_vars PROVE TypeInv'
  OBVIOUS
<1>1. ASSUME NEW s \in Keyed, NEW i \in Numbers, NEW b \in ReplyBodies,
             OnReply(Message(s, i, TRUE, b))
      PROVE  TypeInv'
  <2> DEFINE m == Message(s, i, TRUE, b)
  <2>1. m.body = b
    BY DEF Message
  <2>2. b.what = "created" => b.out \in Nat /\ b.nets \in SUBSET Networks
    BY NumbersAssumption DEF ReplyBodies
  <2> HIDE DEF m
  <2>3. m.body.what = "created" => Offers(m)
    BY <2>1, <2>2 DEF Offers
  <2>4. OnReply(m)
    BY <1>1 DEF m
  <2> QED
    BY <2>3, <2>4, SetupReplyTypes, ChildReplyTypes, DoneTypes DEF OnReply
<1>2. ASSUME NEW s \in Keyed, NEW i \in OrderNumbers, NEW b \in OrderBodies,
             OnOrder(Message(s, i, FALSE, b))
      PROVE  TypeInv'
  <2> DEFINE m == Message(s, i, FALSE, b)
  <2>1. m.body = b
    BY DEF Message
  <2>2. b.what = "rekeyChild" => b.out \in Nat /\ b.nets \in SUBSET Networks
    BY NumbersAssumption DEF OrderBodies
  <2> HIDE DEF m
  <2>3. m.body.what = "rekeyChild" => Offers(m)
    BY <2>1, <2>2 DEF Offers
  <2>4. OnOrder(m)
    BY <1>2 DEF m
  <2> QED
    BY <2>3, <2>4, OrderTypes
<1>3. CASE UNCHANGED vars
  BY <1>3 DEF vars, kidVars, TypeInv, KidsType, WaitType, AskType, TaskType
<1> QED
  BY <1>1, <1>2, <1>3, LocalTypes DEF Next

\* The type invariant holds with any gateway: no number of retransmissions
\* above RETRANSMITS, no attempt below zero, whatever is answered when.
THEOREM SessionTypes == Spec => []TypeOK
<1>1. Init => TypeInv
  BY InitTypes
<1>2. IInv /\ TypeInv /\ [Next]_vars => TypeInv'
  BY StepTypes DEF IInv, KeyInv
<1>3. IInv /\ TypeInv => TypeOK
  <2> SUFFICES ASSUME IInv, TypeInv PROVE TypeOK
    OBVIOUS
  <2>1. wait.sa \in Nat /\ wait.id \in Nat /\ wait.sends \in 0 .. Retransmits
    BY DEF TypeInv, WaitType
  <2> QED
    BY <2>1 DEF IInv, KeyInv, Numeric, TypeInv, KidsType, AskType, TaskType, TypeOK, Kid, Downs, Outcomes
<1> QED
  BY <1>1, <1>2, <1>3, SessionInvariant, PTL DEF Spec

\* The interface never comes up without a CHILD SA, whatever the gateway
\* deletes while others are being set up: bring_up follows a response that
\* has just added one.
THEOREM ComesUpWithChild == Spec => UpWithChild
<1>1. TypeInv /\ [Next]_vars => [~host /\ host' => children' # <<>>]_vars
  <2> SUFFICES ASSUME TypeInv, Next, ~host, host' PROVE children' # <<>>
    BY DEF vars
  <2>0. children \in Seq(Kid)
    BY DEF TypeInv, KidsType
  <2>t. ASSUME NEW o, NEW st, NEW d, NEW kids, Teardown(o, st, d, kids) PROVE FALSE
    BY <2>t DEF Teardown
  <2>n. ASSUME NEW kids, NextChild(kids) PROVE children' = kids
    BY <2>n, <2>t DEF NextChild, BringUp, Fail
  <2>1. ASSUME NEW m, OnReply(m) PROVE children' # <<>>
    <3>1. CASE OnFinalReply(m)
      <4>1. children' = Append(children, NewChild(spi, m.body))
        BY <3>1, <2>t, <2>n DEF OnFinalReply, Fail
      <4> QED
        BY <2>0, <4>1
    <3>2. CASE OnChildReply(m)
      <4>1. children' = <<NewChild(kid.in, m.body)>> \o children
        BY <3>2, <2>t, <2>n DEF OnChildReply, Fail
      <4> QED
        BY <2>0, <4>1
    <3>3. CASE OnInitReply(m) \/ OnEapReply(m) \/ OnPlainReply(m) \/ OnCloseReply(m)
      BY <3>3, <2>t DEF OnInitReply, OnEapReply, OnPlainReply, OnCloseReply, Fail
    <3> QED
      BY <2>1, <3>1, <3>2, <3>3 DEF OnReply
  <2>2. ASSUME NEW m, OnOrder(m) PROVE FALSE
    BY <2>2 DEF OnOrder, OnRetransmission, OnRefused, OnIkeRekey, OnChildRekey, OnInformational
  <2>3. ASSUME Local PROVE FALSE
    BY <2>3, <2>t DEF Local, Establish, Retransmit, GiveUp, IoError, Cancel, StartDpd, StartRekey, Fail
  <2> QED
    BY <2>1, <2>2, <2>3 DEF Next
<1>2. Init => TypeInv
  BY InitTypes
<1>3. IInv /\ TypeInv /\ [Next]_vars => TypeInv'
  BY StepTypes DEF IInv, KeyInv
<1> QED
  BY <1>1, <1>2, <1>3, SessionInvariant, PTL DEF Spec, UpWithChild

=============================================================================

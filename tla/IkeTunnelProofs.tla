--------------------------- MODULE IkeTunnelProofs ---------------------------
(***************************************************************************)
(* Proofs about the session with a gateway that follows the protocol       *)
(* (module IkeTunnel), for every value of the constants.                   *)
(***************************************************************************)
EXTENDS IkeTunnel, IkeProofs

-----------------------------------------------------------------------------
(* The client by itself, whatever it receives.                             *)

Kinds == {"init", "auth", "eap", "final", "child", "deleteChild", "deleteIke", "dpd"}

\* The request under way has been sent, last on its IKE SA; a takeover leaves
\* the new IKE SA without a request.
AskedInv ==
  task \in Asking =>
    /\ Message(wait.sa, wait.id, FALSE, wait.body) \in sent
    /\ wait.sa = sa => messageId = wait.id + 1
    /\ wait.sa # sa => messageId = 0 /\ wait.sa < sa

BodyInv ==
  /\ task = "init" => wait.body.what = "init"
  /\ task \in {"auth", "eap", "final", "dpd"} => wait.body = Body(task)
  /\ task = "child" => wait.body = ChildRequest(kid.in, kid.old, kid.nets, left)
  /\ task = "delete" => wait.body = [what |-> "deleteChild", in |-> kid.old]

KindInv ==
  \A q \in sent :
    /\ ~q.resp => q.body.what \in Kinds /\ (q.sa = NoSa <=> q.body.what = "init")
    /\ ~q.resp /\ q.body.what = "child" => q.body.nets \in SUBSET Networks
    /\ q.resp => q.sa # NoSa /\ q.body.what \in {"refused", "ikeCreated", "notFound", "childCreated", "deleted"}

\* There are keys from IKE_AUTH on.
KeyedInv ==
  /\ stage = "Init" <=> sa = NoSa
  /\ task \in {"auth", "eap", "final"} => stage = "Auth"

\* The inbound SPIs of a list are drawn from n, each once.
InOrder(kids, n) ==
  /\ \A k \in DOMAIN kids : kids[k].in \in 1 .. n
  /\ \A j, k \in DOMAIN kids : kids[j].in = kids[k].in => j = k
NotIn(kids, in) == \A k \in DOMAIN kids : kids[k].in # in

\* Requests to delete a CHILD SA name one that was there and is no more.
Absent(kids) ==
  \A q \in sent : ~q.resp /\ q.body.what = "deleteChild" =>
    q.body.in \in 1 .. spi /\ NotIn(kids, q.body.in)

\* The SPIs of the CHILD SAs are drawn one after the other.
DrawInv ==
  /\ task \in {"start", "init"} => spi = 0 /\ children = <<>>
  /\ task \in {"auth", "eap", "final"} => spi = 1 /\ children = <<>>
  /\ task \in {"child", "delete"} =>
       kid.in \in 1 .. spi /\ kid.old \in 0 .. spi /\ kid.in # kid.old
  /\ task = "child" => NotIn(children, kid.in)
  /\ task = "delete" => NotIn(children, kid.old)
NewInv ==
  /\ task \in {"start", "init", "auth", "eap", "final"} =>
       \A q \in sent : q.resp \/ q.body.what # "deleteChild"
  /\ task = "child" => \A q \in sent : ~q.resp /\ q.body.what = "deleteChild" => q.body.in # kid.in
  /\ \A q \in sent : q.resp /\ q.body.what = "childCreated" => q.body.in \in 1 .. spi
SpiInv == InOrder(children, spi) /\ Absent(children) /\ DrawInv /\ NewInv

\* A session that ended by itself has sent a DELETE for its IKE SA.
ToldInv ==
  task = "close" \/ (task = "done" /\ stage = "Established" /\ down = "none") =>
    \E m \in sent : m.body.what = "deleteIke" /\ ~m.resp

\* During the setup no CHILD SA is rekeyed.
SetupInv ==
  /\ task \in {"watch", "delete", "dpd"} => host
  /\ task = "child" /\ ~host => kid.old = NoSpi

CliInv == KeyedInv /\ AskedInv /\ BodyInv /\ KindInv /\ SpiInv /\ ToldInv /\ SetupInv

-----------------------------------------------------------------------------
(* Messages.                                                               *)

SaStates == {"none", "half", "up", "closing", "gone"}
GwSa == [state : SaStates, expect : Nat, id : Nat, order : gwSent \cup {NoMessage}]

GwType ==
  /\ gwSas \in [Sas -> GwSa] /\ gwCurrent \in 0 .. MaxSas /\ gwSpi \in Nat /\ gwAlive \in BOOLEAN
  /\ \A m \in gwSent : m.sa \in 0 .. MaxSas /\ m.id \in Nat /\ m.resp \in BOOLEAN

\* What answers a request of the client.
Fits(b, r) ==
  \/ b.what \in {"auth", "eap", "final"} /\ r.what \in {"refused", "eapRequest", "eapSuccess", "authOnly"}
  \/ b.what \in {"auth", "eap", "final"} /\ r.what = "created" /\ r.out \in 1 .. gwSpi /\ r.nets \subseteq FirstNets
  \/ b.what = "child" /\ r.what \in {"refused", "redirected"}
  \/ b.what = "child" /\ r.what = "notFound"
  \/ b.what = "child" /\ r.what = "created" /\ r.out \in 1 .. gwSpi /\ r.nets \subseteq b.nets
  \/ b.what \in {"dpd", "deleteChild", "deleteIke"} /\ r.what = "done"

ReplyInv ==
  /\ \A r \in gwSent : r.resp /\ r.sa = NoSa => r.body.what \in {"redirected", "refused", "accepted"}
  /\ \A r \in gwSent : r.resp /\ r.sa # NoSa =>
       /\ r.id < gwSas[r.sa].expect
       /\ \E q \in sent : q.sa = r.sa /\ q.id = r.id /\ ~q.resp /\ Fits(q.body, r.body)
  /\ \A r, t \in gwSent : r.resp /\ t.resp /\ r.sa # NoSa /\ r.sa = t.sa /\ r.id = t.id => r = t

IsOrder(b) ==
  \/ b.what = "other"
  \/ b.what = "rekeyIke"
  \/ b.what = "rekeyChild" /\ b.out \in 1 .. gwSpi /\ b.nets \in SUBSET Networks
  \/ /\ b.what = "info" /\ b.ike \in BOOLEAN /\ b.esp = (b.outs # {})
     /\ b.outs \subseteq 1 .. gwSpi /\ (b.ike => b.outs = {})

OrderInv ==
  /\ \A o \in gwSent : ~o.resp =>
       /\ o.sa \in Sas /\ o.id < gwSas[o.sa].id /\ IsOrder(o.body)
       /\ o.body.what = "rekeyIke" => o.sa < MaxSas /\ (host \/ task \in {"close", "done"})
  /\ \A o, p \in gwSent : ~o.resp /\ ~p.resp /\ o.sa = p.sa /\ o.id = p.id => o = p
  /\ \A s \in Sas : gwSas[s].order # NoMessage =>
       ~gwSas[s].order.resp /\ gwSas[s].order.sa = s /\ gwSas[s].order.id + 1 = gwSas[s].id
  /\ \A s \in Sas : gwSas[s].state \in {"none", "half"} => gwSas[s].id = 0 /\ gwSas[s].order = NoMessage

\* A response of the client, and the request of the gateway it answers.
Suits(o, r) ==
  \/ r.what = "refused" /\ o.what = "other"
  \/ r.what = "ikeCreated" /\ o.what = "rekeyIke"
  \/ r.what \in {"notFound", "childCreated"} /\ o.what = "rekeyChild"
  \/ r.what = "deleted" /\ o.what = "info"

AnswerInv ==
  \A r \in sent : r.resp =>
    \E o \in gwSent : ~o.resp /\ o.sa = r.sa /\ o.id = r.id /\ Suits(o.body, r.body)

\* IKE SAs are numbered one after the other, and none is rekeyed during the
\* setup.
NumberInv ==
  /\ sas <= MaxSas
  /\ \/ next = NoSa /\ sas = sa
     \/ next = sa + 1 /\ sas = next /\ sa # NoSa
  /\ sa = NoSa => peerMessageId = 0
  /\ ~host /\ task \notin {"close", "done"} => sas <= 1
  /\ \A r \in sent : r.resp /\ r.body.what = "ikeCreated" =>
       r.body.sa = r.sa + 1 /\ (r.sa = sa => next = sa + 1)

\* How far the two sides are with each other's requests on an IKE SA.
Handled(s) == gwSas[s].id = peerMessageId
CountInv ==
  sa # NoSa =>
    /\ gwSas[sa].state # "none" /\ gwSas[sa].expect <= messageId
    /\ gwSas[sa].order = NoMessage => gwSas[sa].id = peerMessageId
    /\ gwSas[sa].order # NoMessage => gwSas[sa].id \in {peerMessageId, peerMessageId + 1}

\* The IKE SA that waits to take over: the gateway has it, or has yet to hear
\* that the client does.
NextInv ==
  next # NoSa =>
    /\ gwSas[next].expect = 0
    /\ gwSas[next].order = NoMessage => gwSas[next].id = 0
    /\ gwSas[next].order # NoMessage => gwSas[next].id = 1
    /\ \/ /\ gwSas[next].state = "none" /\ gwCurrent = sa
          /\ gwSas[sa].order # NoMessage /\ gwSas[sa].order.body.what = "rekeyIke" /\ Handled(sa)
       \/ gwSas[next].state \in {"up", "closing", "gone"} /\ gwCurrent = next

CurrentInv ==
  /\ gwCurrent \in {NoSa, sa, next}
  /\ sa > 1 => gwCurrent # NoSa
  /\ gwSas[1].state \in {"none", "half"} => gwCurrent = NoSa
  /\ sa = NoSa => gwSas[1].state \in {"none", "half"} /\ gwSas[1].expect <= 1
  /\ \A s \in Sas : s > sas /\ s > 1 => gwSas[s].state = "none"
  /\ \A s \in Sas : gwSas[s].state = "half" => s = 1
  /\ \A s \in Sas : gwSas[s].state = "none" => gwSas[s].expect = 0
  /\ \A s \in Sas : gwSas[s].order # NoMessage /\ gwSas[s].order.body.what = "rekeyIke" => gwCurrent = s
  /\ (\E r \in gwSent : r.resp /\ r.body.what = "accepted") => gwSas[1].state # "none"

\* The last request the client answered on an IKE SA it has left is the one
\* that ended it.
OldInv ==
  \A s \in Sas, m \in sent :
    s < sa /\ gwSas[s].order # NoMessage /\ m.resp /\ m.sa = s /\ m.id = gwSas[s].order.id
      => m.body.what = "deleted"

\* IKE_AUTH comes to its end once.
AuthKind(q) == ~q.resp /\ q.body.what \in {"auth", "eap", "final"}
AuthInv ==
  /\ \A q \in sent : AuthKind(q) => q.sa = 1
  /\ gwSas[1].state \notin {"none", "half"} => \A q \in sent : AuthKind(q) => q.id < gwSas[1].expect
  /\ \A r \in gwSent : r.resp /\ r.body.what \in {"eapRequest", "eapSuccess"} =>
       r.sa = 1 /\ (r.id + 1 = gwSas[1].expect => gwSas[1].state = "half")
  /\ \A p, q \in sent : ~p.resp /\ p.sa = 1 /\ AuthKind(q) /\ p.id < q.id => p.id < gwSas[1].expect

\* The gateway's CHILD SAs.
KidType == \A c \in gwKids : c.out \in 1 .. gwSpi /\ c.nets \in SUBSET Networks

GwInv ==
  /\ GwType /\ ReplyInv /\ OrderInv /\ AnswerInv
  /\ NumberInv /\ CountInv /\ NextInv /\ CurrentInv /\ OldInv /\ AuthInv

-----------------------------------------------------------------------------
(* The session as long as the gateway and the client keep up with it.      *)

Live == gwAlive /\ task \in Asking \cup {"watch"} /\ (task \in Asking => wait.sa = sa)
Answer(r) == r.resp /\ r.sa = sa /\ r.id = wait.id

\* The end of an IKE SA that the client has yet to hear of.
Announced(s, processed) ==
  gwSas[s].state = "closing" =>
    /\ gwSas[s].order # NoMessage /\ gwSas[s].order.body.what = "info" /\ gwSas[s].order.body.ike
    /\ gwSas[s].id = processed + 1

\* The gateway has answered the last request but one, and all those on an IKE
\* SA the client has left.
PaceInv ==
  /\ task = "init" => messageId = 1
  /\ sa # NoSa => gwSas[sa].expect >= IF task \in Asking THEN wait.id ELSE messageId
  /\ \A q \in sent : ~q.resp /\ q.sa # NoSa /\ q.sa < sa => q.id < gwSas[q.sa].expect

\* The gateway has created the IKE SA, and the client knows or is about to.
Agreed ==
  \/ task \in {"watch", "child", "delete", "dpd"}
  \/ task \in {"auth", "final"} /\ \E r \in gwSent : Answer(r) /\ r.body.what = "created"

StateInv ==
  /\ Agreed => gwSas[sa].state \in {"up", "closing"} /\ Announced(sa, peerMessageId) /\ gwCurrent # NoSa
  /\ next # NoSa => gwSas[next].state \in {"none", "up", "closing"} /\ Announced(next, 0)
  /\ sa # NoSa /\ gwSas[sa].order # NoMessage /\ Handled(sa) /\ gwSas[sa].order.body.what = "info"
       => ~gwSas[sa].order.body.ike

HalfInv == gwSas[1].state = "half" => gwSas[1].expect >= 1
LiveInv == HalfInv /\ (Live => PaceInv /\ StateInv)

-----------------------------------------------------------------------------
(* Lists of CHILD SAs.                                                     *)

\* What is retained comes from the list, positions apart stay apart.
LEMMA RetainedFacts ==
  ASSUME NEW S, NEW kids \in Seq(S), NEW K
  PROVE  LET r == Retained(kids, K)
         IN  /\ r \in Seq(S)
             /\ \A j \in DOMAIN r : \E k \in DOMAIN kids : k \in K /\ r[j] = kids[k]
             /\ \A k \in DOMAIN kids : k \in K => \E j \in DOMAIN r : r[j] = kids[k]
             /\ \A i, j \in DOMAIN r : i # j =>
                  \E k, l \in DOMAIN kids : k # l /\ r[i] = kids[k] /\ r[j] = kids[l]
<1> DEFINE r == Retained(kids, K)
<1>1. r \in Seq(S)
  BY RetainedIs
<1>2. PICK p : ComesFrom(r, kids, K, Len(kids), p)
  BY RetainedIs
<1> HIDE DEF r
<1>3. DOMAIN r = 1 .. Len(r) /\ DOMAIN kids = 1 .. Len(kids)
  BY <1>1
<1>4. /\ p \in [1 .. Len(r) -> K \cap 1 .. Len(kids)]
      /\ \A j \in 1 .. Len(r) : r[j] = kids[p[j]]
      /\ \A i, j \in 1 .. Len(r) : i < j => p[i] < p[j]
      /\ \A k \in K \cap 1 .. Len(kids) : \E j \in 1 .. Len(r) : p[j] = k
  BY <1>2 DEF ComesFrom
<1>5. \A j \in DOMAIN r : p[j] \in DOMAIN kids /\ p[j] \in K /\ p[j] \in Int
  BY <1>3, <1>4
<1>6. \A j \in DOMAIN r : \E k \in DOMAIN kids : k \in K /\ r[j] = kids[k]
  BY <1>3, <1>4, <1>5
<1>7. \A k \in DOMAIN kids : k \in K => \E j \in DOMAIN r : r[j] = kids[k]
  BY <1>3, <1>4
<1>8. ASSUME NEW i \in DOMAIN r, NEW j \in DOMAIN r, i # j
      PROVE  \E k, l \in DOMAIN kids : k # l /\ r[i] = kids[k] /\ r[j] = kids[l]
  <2>1. i \in 1 .. Len(r) /\ j \in 1 .. Len(r) /\ (i < j \/ j < i)
    BY <1>3, <1>8
  <2>2. p[i] # p[j]
    BY <1>4, <1>5, <2>1
  <2> QED
    BY <1>4, <1>5, <2>1, <2>2
<1> QED
  BY <1>1, <1>6, <1>7, <1>8 DEF r

\* Retaining keeps the SPIs in order and apart.
LEMMA RetainedOrder ==
  ASSUME NEW kids \in Seq(Kid), NEW K, NEW n, InOrder(kids, n)
  PROVE  /\ InOrder(Retained(kids, K), n)
         /\ \A x : NotIn(kids, x) => NotIn(Retained(kids, K), x)
<1> DEFINE r == Retained(kids, K)
<1>1. /\ \A j \in DOMAIN r : \E k \in DOMAIN kids : k \in K /\ r[j] = kids[k]
      /\ \A i, j \in DOMAIN r : i # j =>
           \E k, l \in DOMAIN kids : k # l /\ r[i] = kids[k] /\ r[j] = kids[l]
  BY RetainedFacts
<1> HIDE DEF r
<1>2. InOrder(r, n)
  BY <1>1 DEF InOrder
<1>3. \A x : NotIn(kids, x) => NotIn(r, x)
  BY <1>1 DEF NotIn
<1> QED
  BY <1>2, <1>3 DEF r

\* A CHILD SA that was removed is not there.
LEMMA WithoutIs ==
  ASSUME NEW kids \in Seq(Kid), NEW x
  PROVE  /\ Without(kids, x) \in Seq(Kid) /\ NotIn(Without(kids, x), x)
         /\ \A j \in DOMAIN Without(kids, x) : \E k \in DOMAIN kids :
              kids[k].in # x /\ Without(kids, x)[j] = kids[k]
         /\ \A k \in DOMAIN kids : kids[k].in # x =>
              \E j \in DOMAIN Without(kids, x) : Without(kids, x)[j] = kids[k]
<1> DEFINE K == {k \in DOMAIN kids : kids[k].in # x}
           r == Retained(kids, K)
<1>1. /\ r \in Seq(Kid)
      /\ \A j \in DOMAIN r : \E k \in DOMAIN kids : k \in K /\ r[j] = kids[k]
      /\ \A k \in DOMAIN kids : k \in K => \E j \in DOMAIN r : r[j] = kids[k]
  <2> HIDE DEF K
  <2> QED
    BY RetainedFacts
<1>2. Without(kids, x) = r
  BY DEF Without
<1> HIDE DEF r
<1> QED
  BY <1>1, <1>2 DEF NotIn

\* One list after another.
LEMMA Concatenated ==
  ASSUME NEW S, NEW s \in Seq(S), NEW t \in Seq(S)
  PROVE  /\ s \o t \in Seq(S) /\ Len(s \o t) = Len(s) + Len(t)
         /\ \A j \in 1 .. Len(s) + Len(t) : (s \o t)[j] = IF j <= Len(s) THEN s[j] ELSE t[j - Len(s)]
OBVIOUS

\* A new CHILD SA in front.
LEMMA InFront ==
  ASSUME NEW kids \in Seq(Kid), NEW c \in Kid
  PROVE  LET r == <<c>> \o kids
         IN  /\ r \in Seq(Kid) /\ r # <<>> /\ Len(r) = Len(kids) + 1 /\ r[1] = c /\ 1 \in DOMAIN r
             /\ \A j \in DOMAIN r : j # 1 => j - 1 \in DOMAIN kids /\ r[j] = kids[j - 1]
             /\ \A k \in DOMAIN kids : k + 1 \in DOMAIN r /\ r[k + 1] = kids[k]
<1> DEFINE s == <<c>>
           r == s \o kids
<1>1. s \in Seq(Kid) /\ Len(s) = 1 /\ s[1] = c
  OBVIOUS
<1> HIDE DEF s
<1>0. Len(kids) \in Nat
  OBVIOUS
<1>2. r \in Seq(Kid) /\ Len(r) = Len(kids) + 1
  <2>1. r \in Seq(Kid)
    BY <1>1
  <2>2. Len(r) = Len(s) + Len(kids)
    BY <1>1, Concatenated
  <2> QED
    BY <1>0, <1>1, <2>1, <2>2
<1>3. r[1] = c /\ \A j \in 2 .. Len(kids) + 1 : r[j] = kids[j - 1]
  <2>1. \A j \in 1 .. Len(s) + Len(kids) : r[j] = IF j <= Len(s) THEN s[j] ELSE kids[j - Len(s)]
    BY <1>1, Concatenated
  <2> HIDE DEF r
  <2> QED
    BY <1>0, <1>1, <2>1
<1> HIDE DEF r
<1>4. DOMAIN r = 1 .. Len(kids) + 1 /\ DOMAIN kids = 1 .. Len(kids) /\ Len(kids) \in Nat
  BY <1>2
<1>5. \A j \in DOMAIN r : j # 1 => j - 1 \in DOMAIN kids /\ r[j] = kids[j - 1]
  BY <1>3, <1>4
<1>6. \A k \in DOMAIN kids : k + 1 \in DOMAIN r /\ r[k + 1] = kids[k]
  BY <1>3, <1>4
<1>7. r # <<>>
  BY <1>2
<1> QED
  BY <1>2, <1>3, <1>4, <1>5, <1>6, <1>7 DEF r, s

\* A new CHILD SA in front keeps the SPIs apart.
LEMMA InFrontOrder ==
  ASSUME NEW kids \in Seq(Kid), NEW c \in Kid, NEW n, InOrder(kids, n), c.in \in 1 .. n, NotIn(kids, c.in)
  PROVE  InOrder(<<c>> \o kids, n) /\ \A x : NotIn(kids, x) /\ c.in # x => NotIn(<<c>> \o kids, x)
<1> DEFINE r == <<c>> \o kids
<1>1. /\ r \in Seq(Kid) /\ r[1] = c
      /\ \A j \in DOMAIN r : j # 1 => j - 1 \in DOMAIN kids /\ r[j] = kids[j - 1]
  BY InFront
<1> HIDE DEF r
<1>2. \A j \in DOMAIN r : j \in Int
  BY <1>1
<1>3. InOrder(r, n)
  <2>1. \A j \in DOMAIN r : r[j].in \in 1 .. n
    BY <1>1 DEF InOrder
  <2>2. ASSUME NEW i \in DOMAIN r, NEW j \in DOMAIN r, r[i].in = r[j].in PROVE i = j
    <3>1. CASE i = 1 \/ j = 1
      BY <1>1, <2>2, <3>1 DEF NotIn
    <3>2. CASE i # 1 /\ j # 1
      <4>1. i - 1 = j - 1
        BY <1>1, <2>2, <3>2 DEF InOrder
      <4> QED
        BY <1>2, <4>1
    <3> QED
      BY <3>1, <3>2
  <2> QED
    BY <2>1, <2>2 DEF InOrder
<1>4. \A x : NotIn(kids, x) /\ c.in # x => NotIn(r, x)
  BY <1>1 DEF NotIn
<1> QED
  BY <1>3, <1>4 DEF r

-----------------------------------------------------------------------------
(* The client's invariant: what its steps have in common.                  *)

\* The task takes up nothing it was not at.
Onward ==
  /\ task' \in {"start", "init"} => task \in {"start", "init"}
  /\ task' \in {"auth", "eap", "final"} => task \in {"auth", "eap", "final"}
  /\ task' \in {"child", "delete"} => task' = task /\ kid' = kid

\* A message that names no CHILD SA.
Unnamed(n) == n.body.what \notin {"deleteChild", "childCreated"}

\* The list of CHILD SAs is kids, without a new SPI.
LEMMA SpiStays ==
  ASSUME SpiInv, UNCHANGED spi, Onward, NEW kids, children' = kids \/ children' = <<>>,
         InOrder(kids, spi), Absent(kids), \A x : NotIn(children, x) => NotIn(kids, x),
         task' \in {"start", "init", "auth", "eap", "final"} => children' = children,
         NEW n, sent' = sent \/ (sent' = sent \cup {n} /\ Unnamed(n))
  PROVE  SpiInv'
<1>0. DOMAIN <<>> = {}
  OBVIOUS
<1>1. InOrder(children', spi) /\ \A x : NotIn(kids, x) => NotIn(children', x)
  BY <1>0 DEF InOrder, NotIn
<1>2. InOrder(children, spi)'
  BY <1>1 DEF InOrder
<1>3. Absent(children)'
  BY <1>1 DEF Absent, NotIn, Unnamed
<1>4. DrawInv'
  <2>1. /\ task' \in {"start", "init"} => spi' = 0 /\ children' = <<>>
        /\ task' \in {"auth", "eap", "final"} => spi' = 1 /\ children' = <<>>
    BY DEF SpiInv, DrawInv, Onward
  <2>2. task' \in {"child", "delete"} =>
          kid'.in \in 1 .. spi' /\ kid'.old \in 0 .. spi' /\ kid'.in # kid'.old
    BY DEF SpiInv, DrawInv, Onward
  <2>3. /\ task' = "child" => NotIn(children, kid.in) /\ kid' = kid
        /\ task' = "delete" => NotIn(children, kid.old) /\ kid' = kid
    BY DEF SpiInv, DrawInv, Onward
  <2>4. /\ task' = "child" => NotIn(children', kid'.in)
        /\ task' = "delete" => NotIn(children', kid'.old)
    BY <1>1, <2>3
  <2> QED
    BY <2>1, <2>2, <2>4 DEF DrawInv, NotIn
<1>5. NewInv'
  BY DEF SpiInv, NewInv, Unnamed, Onward
<1> QED
  BY <1>2, <1>3, <1>4, <1>5 DEF SpiInv

\* A task that asks for no CHILD SA, with any list that is in order.
LEMMA SpiIdle ==
  ASSUME SpiInv, UNCHANGED spi, task' \in {"watch", "close", "done"},
         NEW kids, children' = kids \/ children' = <<>>, InOrder(kids, spi), Absent(kids),
         NEW n, sent' = sent \/ (sent' = sent \cup {n} /\ Unnamed(n))
  PROVE  SpiInv'
<1>0. DOMAIN <<>> = {}
  OBVIOUS
<1>1. InOrder(children, spi)'
  BY <1>0 DEF InOrder
<1>2. Absent(children)'
  BY <1>0 DEF Absent, NotIn, Unnamed
<1>3. DrawInv' /\ NewInv'
  BY DEF SpiInv, DrawInv, NewInv, Unnamed
<1> QED
  BY <1>1, <1>2, <1>3 DEF SpiInv

\* The list stays as it is.
LEMMA SpiSame ==
  ASSUME SpiInv, UNCHANGED spi, Onward, children' = children \/ children' = <<>>,
         task' \in {"start", "init", "auth", "eap", "final"} => children' = children,
         NEW n, sent' = sent \/ (sent' = sent \cup {n} /\ Unnamed(n))
  PROVE  SpiInv'
<1>1. InOrder(children, spi) /\ Absent(children)
  BY DEF SpiInv
<1> QED
  BY <1>1, SpiStays

\* The kinds of the messages sent.
LEMMA KindStays ==
  ASSUME KindInv, NEW n, sent' = sent \/ sent' = sent \cup {n},
         \/ ~n.resp /\ n.body.what \in Kinds /\ (n.sa = NoSa <=> n.body.what = "init")
         \/ n.resp /\ n.sa # NoSa /\ n.body.what \in {"refused", "ikeCreated", "notFound", "childCreated", "deleted"},
         n.body.what = "child" => n.body.nets \in SUBSET Networks
  PROVE  KindInv'
BY DEF KindInv

\* A message of ours.
LEMMA MessageIs ==
  ASSUME NEW s, NEW i, NEW r \in BOOLEAN, NEW b
  PROVE  LET n == Message(s, i, r, b) IN n.sa = s /\ n.id = i /\ n.resp = r /\ n.body = b
BY DEF Message

\* A request on IKE SA s.
LEMMA RequestIs ==
  ASSUME NEW s, NEW i, NEW t, NEW b, Request(s, i, t, b)
  PROVE  /\ task' = t /\ messageId' = i + 1
         /\ wait'.sa = s /\ wait'.id = i /\ wait'.body = b
         /\ sent' = sent \cup {Message(s, i, FALSE, b)}
BY DEF Request

\* A request that was just sent is under way.
LEMMA RequestAsked ==
  ASSUME NEW s, NEW i \in Nat, NEW t, NEW b, Request(s, i, t, b), sa' = s
  PROVE  AskedInv'
BY RequestIs DEF AskedInv

\* The end of the session.
LEMMA TeardownCli ==
  ASSUME IInv, CliInv, UNCHANGED <<saVars, spi>>, NEW st, stage' = st,
         st = "Init" <=> sa = NoSa, NEW o, NEW d, NEW kids, Teardown(o, st, d, kids),
         InOrder(kids, spi), Absent(kids)
  PROVE  CliInv'
<1> USE DEF CliInv
<1>0. sa' = sa /\ messageId \in Nat
  BY DEF saVars, IInv, KeyInv, Numeric
<1>1. CASE st = "Established" /\ d = "none"
  <2> DEFINE n == Message(sa, messageId, FALSE, Body("deleteIke"))
  <2>1. Request(sa, messageId, "close", Body("deleteIke")) /\ children' = kids
    BY <1>1 DEF Teardown
  <2>2. task' = "close" /\ sent' = sent \cup {n}
    BY <2>1, RequestIs
  <2>3. n.sa = sa /\ ~n.resp /\ n.body.what = "deleteIke"
    BY DEF Message, Body
  <2> HIDE DEF n
  <2>4. KindInv'
    BY <1>1, <2>2, <2>3, KindStays DEF Kinds
  <2>5. SpiInv'
    <3>1. Unnamed(n)
      BY <2>3 DEF Unnamed
    <3> QED
      BY <2>1, <2>2, <3>1, SpiIdle
  <2>6. KeyedInv' /\ AskedInv' /\ BodyInv' /\ SetupInv'
    BY <1>0, <1>1, <2>2 DEF KeyedInv, AskedInv, BodyInv, SetupInv, Asking
  <2>7. ToldInv'
    BY <2>2, <2>3 DEF ToldInv
  <2> QED
    BY <2>4, <2>5, <2>6, <2>7
<1>2. CASE ~(st = "Established" /\ d = "none")
  <2>1. task' = "done" /\ sent' = sent /\ children' = <<>> /\ down' = d
    BY <1>2 DEF Teardown, Done
  <2>2. KindInv'
    BY <2>1 DEF KindInv
  <2>3. SpiInv'
    BY <2>1, SpiIdle
  <2>4. KeyedInv' /\ AskedInv' /\ BodyInv' /\ SetupInv'
    BY <1>0, <2>1 DEF KeyedInv, AskedInv, BodyInv, SetupInv, Asking
  <2>5. ToldInv'
    BY <1>2, <2>1 DEF ToldInv
  <2> QED
    BY <2>2, <2>3, <2>4, <2>5
<1> QED
  BY <1>1, <1>2

\* The end of the session with the CHILD SAs it had.
LEMMA FailCli ==
  ASSUME IInv, CliInv, UNCHANGED <<saVars, spi>>, NEW st, stage' = st,
         st = "Init" <=> sa = NoSa, NEW o, NEW d, Teardown(o, st, d, children)
  PROVE  CliInv'
<1>1. InOrder(children, spi) /\ Absent(children)
  BY DEF CliInv, SpiInv
<1> QED
  BY <1>1, TeardownCli

\* A request of our own that concerns no CHILD SA.
LEMMA AskCli ==
  ASSUME IInv, CliInv, UNCHANGED <<saVars, stage, spi, children, host>>, sa # NoSa,
         NEW t \in {"eap", "final", "dpd"}, Request(sa, messageId, t, Body(t)),
         t # "dpd" => task \in {"auth", "eap", "final"}, t = "dpd" => task = "watch"
  PROVE  CliInv'
<1> USE DEF CliInv
<1> DEFINE n == Message(sa, messageId, FALSE, Body(t))
<1>0. sa' = sa /\ messageId \in Nat
  BY DEF saVars, IInv, KeyInv, Numeric
<1>1. task' = t /\ sent' = sent \cup {n} /\ wait'.body = Body(t)
  BY RequestIs
<1>2. n.sa = sa /\ ~n.resp /\ n.body.what = t
  BY DEF Message, Body
<1> HIDE DEF n
<1>3. KindInv'
  BY <1>1, <1>2, KindStays DEF Kinds
<1>4. SpiInv'
  <2>1. Onward /\ Unnamed(n)
    BY <1>1, <1>2 DEF Onward, Unnamed
  <2> QED
    BY <1>1, <2>1, SpiSame
<1>5. AskedInv'
  BY <1>0, RequestAsked
<1>6. BodyInv' /\ SetupInv' /\ KeyedInv' /\ ToldInv'
  BY <1>0, <1>1 DEF BodyInv, SetupInv, KeyedInv, ToldInv
<1> QED
  BY <1>3, <1>4, <1>5, <1>6

\* create_child, with a new list of CHILD SAs.
LEMMA CreateChildCli ==
  ASSUME IInv, TypeInv, CliInv, UNCHANGED saVars, sa # NoSa, stage' = "Established",
         NEW old \in 0 .. spi, NEW nets \in SUBSET Networks, CreateChild(old, nets), old # NoSpi => host,
         UNCHANGED host,
         NEW kids, children' = kids, InOrder(kids, spi), Absent(kids)
  PROVE  CliInv'
<1> USE DEF CliInv
<1> DEFINE b == ChildRequest(spi + 1, old, nets, GroupRetries)
           n == Message(sa, messageId, FALSE, b)
<1>0. sa' = sa /\ messageId \in Nat /\ spi \in Nat
  BY DEF saVars, IInv, KeyInv, Numeric, TypeInv, AskType
<1>1. Request(sa, messageId, "child", b) /\ spi' = spi + 1 /\ kid' = [in |-> spi + 1, old |-> old, nets |-> nets]
      /\ left' = GroupRetries
  BY DEF CreateChild
<1>2. task' = "child" /\ sent' = sent \cup {n} /\ wait'.body = b
  BY <1>1, RequestIs
<1>3. n.sa = sa /\ ~n.resp /\ n.body.what = "child" /\ n.body.nets = nets
  BY DEF Message, ChildRequest
<1>4. kid'.in = spi + 1 /\ kid'.old = old /\ kid'.nets = nets
  BY <1>1
<1>5. BodyInv'
  BY <1>1, <1>2, <1>4 DEF BodyInv
<1> HIDE DEF n, b
<1>6. KindInv'
  BY <1>2, <1>3, KindStays DEF Kinds
<1>7. AskedInv'
  BY <1>0, <1>1, RequestAsked
<1>8. SpiInv'
  <2>1. InOrder(children, spi)'
    BY <1>0, <1>1 DEF InOrder
  <2>2. Absent(children)'
    BY <1>0, <1>1, <1>2, <1>3 DEF Absent
  <2>3. DrawInv'
    BY <1>0, <1>1, <1>2, <1>4 DEF DrawInv, InOrder, NotIn
  <2>4. NewInv'
    BY <1>0, <1>1, <1>2, <1>3, <1>4 DEF SpiInv, NewInv, Absent
  <2> QED
    BY <2>1, <2>2, <2>3, <2>4 DEF SpiInv
<1>9. KeyedInv' /\ SetupInv' /\ ToldInv'
  BY <1>0, <1>2, <1>4 DEF KeyedInv, SetupInv, ToldInv, NoSpi
<1> QED
  BY <1>5, <1>6, <1>7, <1>8, <1>9

\* Back to watch with the list kids.
LEMMA WatchCli ==
  ASSUME IInv, CliInv, UNCHANGED <<saVars, spi, messageId, sent>>, sa # NoSa,
         stage' = "Established", Watch, host', NEW kids, children' = kids,
         InOrder(kids, spi), Absent(kids)
  PROVE  CliInv'
<1> USE DEF CliInv
<1>0. sa' = sa /\ task' = "watch"
  BY DEF saVars, Watch
<1>1. SpiInv'
  BY <1>0, SpiIdle
<1>2. KindInv'
  BY DEF KindInv
<1> QED
  BY <1>0, <1>1, <1>2 DEF KeyedInv, AskedInv, BodyInv, SetupInv, ToldInv, Asking

\* establish, once children is kids.
LEMMA NextChildCli ==
  ASSUME IInv, TypeInv, CliInv, UNCHANGED saVars, sa # NoSa, stage' = "Established",
         NEW kids, NextChild(kids), InOrder(kids, spi), Absent(kids)
  PROVE  CliInv'
<1> USE DEF CliInv
<1> DEFINE q == Uncovered(todo, kids)
<1>0. sa' = sa /\ messageId \in Nat /\ spi \in Nat
  BY DEF saVars, IInv, KeyInv, Numeric, TypeInv, AskType
<1>1. CASE q # <<>>
  <2>1. CreateChild(NoSpi, {Head(q)}) /\ children' = kids /\ UNCHANGED host
    BY <1>1 DEF NextChild
  <2>2. NoSpi \in 0 .. spi /\ (NoSpi # NoSpi => host)
    BY <1>0 DEF NoSpi
  <2>3. q \in Seq(Networks)
    BY UncoveredTypes DEF TypeInv, AskType
  <2> HIDE DEF q
  <2>4. {Head(q)} \in SUBSET Networks
    BY <1>1, <2>3
  <2> QED
    BY <2>1, <2>2, <2>4, CreateChildCli
<1>2. CASE q = <<>>
  <2>0. UNCHANGED <<spi, left, kid>> /\ BringUp(kids)
    BY <1>2 DEF NextChild
  <2>1. CASE host' = TRUE /\ Watch /\ children' = kids /\ UNCHANGED <<messageId, sent>>
    BY <2>0, <2>1, WatchCli
  <2>2. CASE Fail("Established", kids)
    <3>1. Teardown("Error", "Established", down, kids)
      BY <2>2 DEF Fail
    <3> QED
      BY <2>0, <3>1, TeardownCli
  <2> QED
    BY <2>0, <2>1, <2>2 DEF BringUp
<1> QED
  BY <1>1, <1>2

\* The responses of IKE_SA_INIT and IKE_AUTH.
LEMMA InitReplyCli ==
  ASSUME IInv, TypeInv, CliInv, NEW m, OnInitReply(m)
  PROVE  CliInv'
<1> USE DEF CliInv
<1>0. /\ task = "init" /\ sa = NoSa /\ stage = "Init" /\ spi = 0 /\ children = <<>> /\ messageId \in Nat
  BY DEF OnInitReply, IInv, KeyInv, Numeric, ControlInv, SetUp, SpiInv, DrawInv
<1>1. CASE InitRequest(left - 1) /\ UNCHANGED <<stage, sa, sas, spi, children, host, down, outcome>>
  <2> DEFINE b == [what |-> "init", left |-> left - 1]
             n == Message(NoSa, 0, FALSE, b)
  <2>1. Request(NoSa, 0, "init", b)
    BY <1>1 DEF InitRequest
  <2>2. task' = "init" /\ sent' = sent \cup {n} /\ wait'.body = b
    BY <2>1, RequestIs
  <2>3. n.sa = NoSa /\ ~n.resp /\ n.body.what = "init" /\ b.what = "init"
    BY DEF Message
  <2>4. AskedInv'
    BY <1>0, <1>1, <2>1, RequestAsked
  <2> HIDE DEF n, b
  <2>5. KindInv'
    BY <2>2, <2>3, KindStays DEF Kinds
  <2>6. SpiInv'
    <3>1. Onward /\ Unnamed(n)
      BY <1>0, <2>2, <2>3 DEF Onward, Unnamed
    <3> QED
      BY <1>1, <2>2, <3>1, SpiSame
  <2> QED
    BY <1>0, <1>1, <2>2, <2>3, <2>4, <2>5, <2>6 DEF KeyedInv, BodyInv, SetupInv, ToldInv
<1>2. CASE Fail(stage, children) /\ UNCHANGED <<stage, sa, sas, spi>>
  <2>1. UNCHANGED saVars /\ Teardown("Error", stage, down, children)
    BY <1>2 DEF OnInitReply, saVars, Fail
  <2> QED
    BY <1>0, <1>2, <2>1, FailCli
<1>3. CASE /\ sa' = 1 /\ stage' = "Auth" /\ spi' = spi + 1
           /\ Request(1, messageId, "auth", AuthRequest)
           /\ UNCHANGED <<children, host, down>>
  <2> DEFINE n == Message(1, messageId, FALSE, AuthRequest)
  <2>1. task' = "auth" /\ sent' = sent \cup {n} /\ wait'.body = Body("auth")
    BY <1>3, RequestIs DEF AuthRequest
  <2>2. n.sa = 1 /\ ~n.resp /\ n.body.what = "auth"
    BY DEF Message, AuthRequest, Body
  <2>3. AskedInv'
    BY <1>0, <1>3, RequestAsked
  <2> HIDE DEF n
  <2>4. KindInv'
    BY <2>1, <2>2, KindStays DEF Kinds, NoSa
  <2>5. SpiInv'
    <3>0. DOMAIN <<>> = {}
      OBVIOUS
    <3>1. InOrder(children, spi)' /\ Absent(children)'
      BY <1>0, <1>3, <2>1, <2>2, <3>0 DEF InOrder, Absent, NotIn, SpiInv
    <3>2. DrawInv' /\ NewInv'
      BY <1>0, <1>3, <2>1, <2>2 DEF DrawInv, NewInv, SpiInv
    <3> QED
      BY <3>1, <3>2 DEF SpiInv
  <2> QED
    BY <1>0, <1>3, <2>1, <2>3, <2>4, <2>5 DEF KeyedInv, BodyInv, SetupInv, ToldInv, NoSa
<1> QED
  BY <1>1, <1>2, <1>3 DEF OnInitReply

\* The response that ends IKE_AUTH.
LEMMA FinalReplyCli ==
  ASSUME IInv, TypeInv, CliInv, NEW m, OnFinalReply(m), m.body.what = "created" => Offers(m)
  PROVE  CliInv'
<1> USE DEF CliInv
<1>0. /\ task \in {"auth", "final"} /\ sa # NoSa /\ stage # "Init" /\ spi = 1 /\ children = <<>>
      /\ UNCHANGED saVars
  BY DEF OnFinalReply, KeyedInv, SpiInv, DrawInv
<1>1. CASE /\ m.body.what = "created" /\ stage' = "Established"
           /\ NextChild(Append(children, NewChild(spi, m.body)))
  <2> DEFINE c == NewChild(spi, m.body)
             kids == <<c>>
  <2>1. c.in = 1 /\ c \in Kid
    BY <1>0, <1>1, NewChildTypes DEF NewChild
  <2> HIDE DEF c
  <2>2. Append(children, c) = kids
    BY <1>0
  <2>3. DOMAIN kids = {1} /\ kids[1] = c
    OBVIOUS
  <2> HIDE DEF kids
  <2>4. InOrder(kids, spi)
    BY <1>0, <2>1, <2>3 DEF InOrder
  <2>5. Absent(kids)
    <3>1. ASSUME NEW q \in sent, ~q.resp, q.body.what = "deleteChild" PROVE FALSE
      BY <1>0, <3>1 DEF SpiInv, NewInv
    <3> QED
      BY <3>1 DEF Absent
  <2> QED
    BY <1>0, <1>1, <2>2, <2>4, <2>5, NextChildCli DEF c
<1>2. CASE stage' = "Established" /\ Fail("Established", children) /\ UNCHANGED kidVars
  BY <1>0, <1>2, FailCli DEF Fail, kidVars
<1>3. CASE Fail(stage, children) /\ UNCHANGED <<stage, kidVars>>
  BY <1>0, <1>3, FailCli DEF Fail, kidVars
<1> QED
  BY <1>1, <1>2, <1>3 DEF OnFinalReply

\* The responses of the EAP rounds.
LEMMA EapReplyCli ==
  ASSUME IInv, TypeInv, CliInv, NEW m, OnEapReply(m)
  PROVE  CliInv'
<1> USE DEF CliInv
<1>0. /\ task \in {"auth", "eap"} /\ sa # NoSa /\ stage # "Init" /\ UNCHANGED <<saVars, stage, spi>>
  BY DEF OnEapReply, KeyedInv, kidVars
<1>1. CASE Request(sa, messageId, "eap", Body("eap")) /\ UNCHANGED <<children, host>>
  BY <1>0, <1>1, AskCli
<1>2. CASE Request(sa, messageId, "final", Body("final")) /\ UNCHANGED <<children, host>>
  BY <1>0, <1>2, AskCli
<1>3. CASE Fail(stage, children)
  BY <1>0, <1>3, FailCli DEF Fail
<1> QED
  BY <1>1, <1>2, <1>3 DEF OnEapReply

\* The CREATE_CHILD_SA response.
LEMMA ChildReplyCli ==
  ASSUME IInv, TypeInv, CliInv, NEW m, OnChildReply(m), m.body.what = "created" => Offers(m)
  PROVE  CliInv'
<1> USE DEF CliInv
<1>0. /\ task = "child" /\ sa # NoSa /\ stage = "Established" /\ UNCHANGED <<saVars, stage>>
      /\ sa' = sa /\ messageId \in Nat /\ spi \in Nat /\ children \in Seq(Kid)
      /\ kid.in \in 1 .. spi /\ kid.old \in 0 .. spi /\ kid.in # kid.old /\ NotIn(children, kid.in)
      /\ kid.nets \in SUBSET Networks /\ InOrder(children, spi) /\ Absent(children) /\ kid.in \in Nat
  BY DEF OnChildReply, IInv, ControlInv, Committed, KeyedInv, SpiInv, DrawInv, saVars, KeyInv, Numeric,
         TypeInv, AskType, KidsType
<1>1. CASE /\ left' = left - 1
           /\ Request(sa, messageId, "child", ChildRequest(kid.in, kid.old, kid.nets, left - 1))
           /\ UNCHANGED <<children, host, down, outcome, spi, kid, todo>>
  <2> DEFINE b == ChildRequest(kid.in, kid.old, kid.nets, left - 1)
             n == Message(sa, messageId, FALSE, b)
  <2>1. task' = "child" /\ sent' = sent \cup {n} /\ wait'.body = b
    BY <1>1, RequestIs
  <2>2. n.sa = sa /\ ~n.resp /\ n.body.what = "child" /\ n.body.nets = kid.nets
    BY DEF Message, ChildRequest
  <2>3. AskedInv'
    BY <1>0, <1>1, RequestAsked
  <2>4. BodyInv'
    BY <1>1, <2>1 DEF BodyInv
  <2> HIDE DEF n, b
  <2>5. KindInv'
    BY <1>0, <2>1, <2>2, KindStays DEF Kinds
  <2>6. SpiInv'
    <3>1. Onward /\ Unnamed(n)
      BY <1>0, <1>1, <2>1, <2>2 DEF Onward, Unnamed
    <3> QED
      BY <1>1, <2>1, <3>1, SpiSame
  <2> QED
    BY <1>0, <1>1, <2>1, <2>3, <2>4, <2>5, <2>6 DEF KeyedInv, SetupInv, ToldInv
<1>w. /\ Without(children, kid.old) \in Seq(Kid) /\ InOrder(Without(children, kid.old), spi)
      /\ Absent(Without(children, kid.old)) /\ NotIn(Without(children, kid.old), kid.in)
      /\ NotIn(Without(children, kid.old), kid.old)
  <2>1. /\ InOrder(Without(children, kid.old), spi)
        /\ \A x : NotIn(children, x) => NotIn(Without(children, kid.old), x)
    BY <1>0, RetainedOrder DEF Without
  <2>2. Without(children, kid.old) \in Seq(Kid) /\ NotIn(Without(children, kid.old), kid.old)
    BY <1>0, WithoutIs
  <2> QED
    BY <1>0, <2>1, <2>2 DEF Absent
<1>2. CASE /\ kid.old # NoSpi /\ children' = Without(children, kid.old) /\ Watch
           /\ UNCHANGED <<messageId, sent, host, down, outcome, kidVars>>
  <2>1. host
    BY <1>0, <1>2 DEF SetupInv
  <2> QED
    BY <1>0, <1>2, <1>w, <2>1, WatchCli DEF kidVars
<1>3. CASE Fail(stage, children) /\ UNCHANGED kidVars
  BY <1>0, <1>3, FailCli DEF Fail, kidVars
<1> DEFINE c == NewChild(kid.in, m.body)
<1>c. m.body.what = "created" => c \in Kid /\ c.in = kid.in
  BY <1>0, NewChildTypes DEF NewChild
<1>d. \A q \in sent : ~q.resp /\ q.body.what = "deleteChild" => q.body.in # kid.in
  BY <1>0 DEF SpiInv, NewInv
<1> HIDE DEF c
<1>4. CASE m.body.what = "created" /\ NextChild(<<c>> \o children)
  <2>1. /\ InOrder(<<c>> \o children, spi)
        /\ \A x : NotIn(children, x) /\ c.in # x => NotIn(<<c>> \o children, x)
    BY <1>0, <1>4, <1>c, InFrontOrder
  <2>2. Absent(<<c>> \o children)
    BY <1>0, <1>4, <1>c, <1>d, <2>1 DEF Absent
  <2> QED
    BY <1>0, <1>4, <2>1, <2>2, NextChildCli
<1>5. CASE /\ m.body.what = "created" /\ kid.old # NoSpi
           /\ children' = <<c>> \o Without(children, kid.old)
           /\ IF Has(children, kid.old)
              THEN Request(sa, messageId, "delete", [what |-> "deleteChild", in |-> kid.old])
              ELSE Watch /\ UNCHANGED <<messageId, sent>>
           /\ UNCHANGED <<host, down, outcome, kidVars>>
  <2> DEFINE rest == Without(children, kid.old)
             kids == <<c>> \o rest
  <2>0. UNCHANGED <<spi, kid>> /\ children' = kids
    BY <1>5 DEF kidVars
  <2>1. /\ InOrder(kids, spi)
        /\ \A x : NotIn(rest, x) /\ c.in # x => NotIn(kids, x)
    <3> HIDE DEF rest
    <3> QED
      BY <1>0, <1>5, <1>c, <1>w, InFrontOrder DEF rest
  <2>2. Absent(kids) /\ NotIn(kids, kid.old)
    BY <1>0, <1>5, <1>c, <1>d, <1>w, <2>1 DEF Absent
  <2>3. host
    BY <1>0, <1>5 DEF SetupInv
  <2> HIDE DEF kids, rest
  <2>4. CASE Has(children, kid.old)
    <3> DEFINE b == [what |-> "deleteChild", in |-> kid.old]
               n == Message(sa, messageId, FALSE, b)
    <3>1. Request(sa, messageId, "delete", b)
      BY <1>5, <2>4
    <3>2. task' = "delete" /\ sent' = sent \cup {n} /\ wait'.body = b
      BY <3>1, RequestIs
    <3>3. n.sa = sa /\ ~n.resp /\ n.body.what = "deleteChild" /\ n.body.in = kid.old
      BY DEF Message
    <3>4. AskedInv'
      BY <1>0, <3>1, RequestAsked
    <3>5. BodyInv'
      BY <2>0, <3>2 DEF BodyInv
    <3> HIDE DEF n, b
    <3>6. KindInv'
      BY <1>0, <3>2, <3>3, KindStays DEF Kinds
    <3>7. SpiInv'
      <4>1. InOrder(children, spi)'
        BY <2>0, <2>1 DEF InOrder
      <4>2. kid.old \in 1 .. spi
        BY <1>0, <1>5 DEF NoSpi
      <4>3. Absent(children)'
        BY <2>0, <2>2, <3>2, <3>3, <4>2 DEF Absent, NotIn
      <4>4. DrawInv'
        BY <1>0, <2>0, <2>2, <3>2 DEF DrawInv, NotIn
      <4>5. NewInv'
        BY <1>0, <2>0, <3>2, <3>3 DEF SpiInv, NewInv
      <4> QED
        BY <4>1, <4>3, <4>4, <4>5 DEF SpiInv
    <3> QED
      BY <1>0, <1>5, <2>3, <3>2, <3>4, <3>5, <3>6, <3>7 DEF KeyedInv, SetupInv, ToldInv
  <2>5. CASE ~Has(children, kid.old)
    BY <1>0, <1>5, <2>0, <2>1, <2>2, <2>3, <2>5, WatchCli
  <2> QED
    BY <2>4, <2>5
<1> QED
  BY <1>1, <1>2, <1>3, <1>4, <1>5 DEF OnChildReply, c

\* The responses after which nothing remains to be done.
LEMMA DoneReplyCli ==
  ASSUME IInv, TypeInv, CliInv, NEW m, OnPlainReply(m) \/ OnCloseReply(m)
  PROVE  CliInv'
<1> USE DEF CliInv
<1>0. InOrder(children, spi) /\ Absent(children)
  BY DEF SpiInv
<1>1. CASE OnPlainReply(m)
  <2>1. /\ UNCHANGED <<saVars, spi, messageId, sent, children>> /\ Watch /\ stage' = "Established"
        /\ sa # NoSa /\ host'
    BY <1>1 DEF OnPlainReply, kidVars, IInv, ControlInv, Committed, KeyedInv, SetupInv
  <2> QED
    BY <1>0, <2>1, WatchCli
<1>2. CASE OnCloseReply(m)
  <2>1. /\ UNCHANGED <<sa, stage, spi, messageId, sent, down>>
        /\ task = "close" /\ task' = "done" /\ children' = <<>>
    BY <1>2 DEF OnCloseReply, kidVars, saVars, Done
  <2>2. SpiInv'
    BY <1>0, <2>1, SpiIdle
  <2>3. KindInv'
    BY <2>1 DEF KindInv
  <2> QED
    BY <2>1, <2>2, <2>3 DEF KeyedInv, AskedInv, BodyInv, SetupInv, ToldInv, Asking
<1> QED
  BY <1>1, <1>2

\* A response to the gateway that changes no CHILD SA.
LEMMA RespondCli ==
  ASSUME CliInv, UNCHANGED <<stage, sa, messageId, host, down, spi, left, kid, task, wait, children>>,
         NEW n, sent' = sent \cup {n}, n.resp, n.sa # NoSa,
         n.body.what \in {"refused", "ikeCreated", "notFound", "deleted"}
  PROVE  CliInv'
<1> USE DEF CliInv
<1>1. KindInv'
  BY KindStays
<1>2. SpiInv'
  BY SpiSame DEF Onward, Unnamed
<1>3. AskedInv' /\ BodyInv' /\ KeyedInv' /\ SetupInv'
  BY DEF AskedInv, BodyInv, KeyedInv, SetupInv
<1>4. ToldInv'
  BY DEF ToldInv
<1> QED
  BY <1>1, <1>2, <1>3, <1>4

\* Requests of the gateway other than INFORMATIONAL.
LEMMA OrderCli ==
  ASSUME IInv, TypeInv, CliInv, NEW m, m.body.what = "rekeyChild" => Offers(m),
         OnRetransmission(m) \/ OnRefused(m) \/ OnIkeRekey(m) \/ OnChildRekey(m)
  PROVE  CliInv'
<1> USE DEF CliInv
<1>1. CASE OnRetransmission(m)
  <2>1. sent' = sent /\ UNCHANGED <<stage, sa, messageId, host, down, spi, left, kid, task, wait, children>>
    BY <1>1 DEF OnRetransmission, IInv, KeyInv, LastSent, saVars, kidVars
  <2>2. KindInv' /\ AskedInv' /\ BodyInv' /\ KeyedInv' /\ SetupInv' /\ ToldInv'
    BY <2>1 DEF KindInv, AskedInv, BodyInv, KeyedInv, SetupInv, ToldInv
  <2>3. SpiInv'
    BY <2>1, SpiSame DEF Onward
  <2> QED
    BY <2>2, <2>3
<1>2. CASE OnRefused(m)
  <2> DEFINE n == Message(sa, m.id, TRUE, Body("refused"))
  <2>1. n.resp /\ n.sa = sa /\ n.body.what = "refused"
    BY DEF Message, Body
  <2>2. sent' = sent \cup {n} /\ sa # NoSa
    BY <1>2 DEF OnRefused, Respond, IsNew, Heard
  <2> HIDE DEF n
  <2> QED
    BY <1>2, <2>1, <2>2, RespondCli DEF OnRefused, kidVars
<1>3. CASE OnIkeRekey(m)
  <2> DEFINE b == [what |-> "ikeCreated", sa |-> sas + 1]
             n == Message(sa, m.id, TRUE, b)
  <2>1. n.resp /\ n.sa = sa /\ n.body.what = "ikeCreated"
    BY DEF Message
  <2>2. sent' = sent \cup {n} /\ sa # NoSa
    BY <1>3 DEF OnIkeRekey, Respond, IsNew, Heard
  <2> HIDE DEF n
  <2> QED
    BY <1>3, <2>1, <2>2, RespondCli DEF OnIkeRekey, kidVars
<1>4. CASE OnChildRekey(m)
  <2> DEFINE old == ByOut(children, m.body.old)
  <2>0. /\ UNCHANGED <<stage, sa, next, sas, messageId, host, down, left, kid, todo, task, wait, outcome>>
        /\ sa # NoSa /\ m.body.what = "rekeyChild"
        /\ children \in Seq(Kid) /\ spi \in Nat /\ spi + 1 \in Nat
    BY <1>4 DEF OnChildRekey, IsNew, Heard, TypeInv, KidsType, AskType
  <2>1. CASE old = 0
    <3> DEFINE n == Message(sa, m.id, TRUE, Body("notFound"))
    <3>1. n.resp /\ n.sa = sa /\ n.body.what = "notFound"
      BY DEF Message, Body
    <3>2. sent' = sent \cup {n} /\ UNCHANGED <<children, spi>>
      BY <1>4, <2>1 DEF OnChildRekey, Respond
    <3> HIDE DEF n
    <3> QED
      BY <2>0, <3>1, <3>2, RespondCli
  <2>2. CASE old # 0
    <3> DEFINE b == [what |-> "childCreated", in |-> spi + 1]
               n == Message(sa, m.id, TRUE, b)
               c == NewChild(spi + 1, m.body)
               rest == [children EXCEPT ![old].replaced = TRUE]
    <3>1. n.resp /\ n.sa = sa /\ n.body.what = "childCreated" /\ n.body.in = spi + 1
      BY DEF Message
    <3>2. sent' = sent \cup {n} /\ spi' = spi + 1 /\ children' = <<c>> \o rest
      BY <1>4, <2>2 DEF OnChildRekey, Respond
    <3>3. /\ rest \in Seq(Kid) /\ Len(rest) = Len(children)
          /\ \A j \in DOMAIN children : rest[j].in = children[j].in
      BY <2>0, <2>2, ByOutIs, ReplacedTypes
    <3>4. c \in Kid /\ c.in = spi + 1
      BY <2>0, NewChildTypes DEF NewChild
    <3> HIDE DEF n, b, c, rest, old
    <3>5. DOMAIN rest = DOMAIN children
      BY <2>0, <3>3
    <3>6. \A x : NotIn(children, x) => NotIn(rest, x)
      BY <3>3, <3>5 DEF NotIn
    <3>7. InOrder(rest, spi + 1) /\ NotIn(rest, spi + 1)
      <4>1. /\ \A k \in DOMAIN rest : rest[k].in \in 1 .. spi
            /\ \A j, k \in DOMAIN rest : rest[j].in = rest[k].in => j = k
        BY <3>3, <3>5 DEF SpiInv, InOrder
      <4>2. \A k \in DOMAIN rest : rest[k].in \in 1 .. spi + 1 /\ rest[k].in # spi + 1
        BY <2>0, <4>1
      <4> QED
        BY <4>1, <4>2 DEF InOrder, NotIn
    <3>8. InOrder(<<c>> \o rest, spi + 1) /\ \A x : NotIn(rest, x) /\ c.in # x => NotIn(<<c>> \o rest, x)
      BY <2>0, <3>3, <3>4, <3>7, InFrontOrder
    <3>9. \A x \in 0 .. spi : NotIn(children, x) => NotIn(children', x)
      BY <2>0, <3>2, <3>4, <3>6, <3>8
    <3>t. task \notin {"start", "init", "auth", "eap", "final"}
      <4>1. old \in DOMAIN children
        BY <2>0, <2>2, ByOutIs DEF old
      <4>2. children # <<>>
        BY <4>1
      <4> QED
        BY <4>2 DEF SpiInv, DrawInv
    <3>10. SpiInv'
      <4>1. InOrder(children, spi)'
        BY <3>2, <3>8 DEF InOrder
      <4>2. Absent(children)'
        <5> SUFFICES ASSUME NEW q \in sent', ~q.resp, q.body.what = "deleteChild"
                     PROVE q.body.in \in 1 .. spi + 1 /\ NotIn(children', q.body.in)
          BY <3>2 DEF Absent, NotIn
        <5>1. q \in sent /\ q.body.in \in 1 .. spi /\ NotIn(children, q.body.in)
          BY <3>1, <3>2 DEF SpiInv, Absent
        <5> QED
          BY <2>0, <3>9, <5>1
      <4>3. DrawInv'
        <5>1. task \in {"child", "delete"} => kid.in \in 1 .. spi /\ kid.old \in 0 .. spi /\ kid.in # kid.old
          BY DEF SpiInv, DrawInv
        <5>2. (task = "child" => NotIn(children', kid.in)) /\ (task = "delete" => NotIn(children', kid.old))
          BY <3>9, <5>1, <2>0 DEF SpiInv, DrawInv
        <5>3. task \in {"child", "delete"} => kid.in \in 1 .. spi' /\ kid.old \in 0 .. spi'
          BY <2>0, <3>2, <5>1
        <5> QED
          BY <2>0, <3>t, <5>1, <5>2, <5>3 DEF DrawInv, NotIn
      <4>4. NewInv'
        BY <2>0, <3>1, <3>2, <3>t DEF SpiInv, NewInv
      <4> QED
        BY <4>1, <4>2, <4>3, <4>4 DEF SpiInv
    <3>11. KindInv'
      BY <2>0, <3>1, <3>2, KindStays
    <3>12. AskedInv' /\ BodyInv' /\ KeyedInv' /\ SetupInv' /\ ToldInv'
      BY <2>0, <3>2 DEF AskedInv, BodyInv, KeyedInv, SetupInv, ToldInv
    <3> QED
      BY <3>10, <3>11, <3>12
  <2> QED
    BY <2>1, <2>2
<1> QED
  BY <1>1, <1>2, <1>3, <1>4

\* What the gateway's DELETE leaves of the CHILD SAs.
LEMMA KeptIs ==
  ASSUME NEW kids \in Seq(Kid), NEW outs
  PROVE  LET r == Kept(kids, outs)
         IN  /\ r \in Seq(Kid)
             /\ \A j \in DOMAIN r : \E k \in DOMAIN kids : k \notin Dropped(kids, outs) /\ r[j] = kids[k]
             /\ \A k \in DOMAIN kids : k \notin Dropped(kids, outs) => \E j \in DOMAIN r : r[j] = kids[k]
             /\ \A i, j \in DOMAIN r : i # j =>
                  \E k, l \in DOMAIN kids : k # l /\ r[i] = kids[k] /\ r[j] = kids[l]
             /\ kids = <<>> => r = <<>>
<1> DEFINE K == DOMAIN kids \ Dropped(kids, outs)
           r == Retained(kids, K)
<1>1. /\ r \in Seq(Kid)
      /\ \A j \in DOMAIN r : \E k \in DOMAIN kids : k \in K /\ r[j] = kids[k]
      /\ \A k \in DOMAIN kids : k \in K => \E j \in DOMAIN r : r[j] = kids[k]
      /\ \A i, j \in DOMAIN r : i # j =>
           \E k, l \in DOMAIN kids : k # l /\ r[i] = kids[k] /\ r[j] = kids[l]
  <2> HIDE DEF K
  <2> QED
    BY RetainedFacts
<1>2. Kept(kids, outs) = r
  BY DEF Kept
<1> HIDE DEF r
<1>3. kids = <<>> => r = <<>>
  <2> SUFFICES ASSUME kids = <<>> PROVE r = <<>>
    OBVIOUS
  <2>1. DOMAIN kids = {}
    OBVIOUS
  <2>2. DOMAIN r = {}
    BY <1>1, <2>1
  <2> QED
    BY <1>1, <2>2
<1> QED
  BY <1>1, <1>2, <1>3

\* INFORMATIONAL: the session goes on, here or on the rekeyed IKE SA, or ends.
LEMMA InformationalCli ==
  ASSUME IInv, TypeInv, CliInv, NEW m, OnInformational(m)
  PROVE  CliInv'
<1> USE DEF CliInv
<1> DEFINE kids == Kept(children, m.body.outs)
           b == [what |-> "deleted", ins |-> {children[k].in : k \in Dropped(children, m.body.outs)}]
           n == Message(sa, m.id, TRUE, b)
<1>0. /\ sa # NoSa /\ children \in Seq(Kid) /\ sent' = sent \cup {n} /\ UNCHANGED <<stage, spi, left, kid, sas>>
  BY DEF OnInformational, IsNew, Heard, TypeInv, KidsType, kidVars
<1>1. n.resp /\ n.sa = sa /\ n.body.what = "deleted"
  BY DEF Message
<1>2. /\ \/ children' = kids /\ UNCHANGED <<host, down, task, wait>>
         \/ task' = "done" /\ down' = "closed" /\ children' = <<>>
      /\ \/ UNCHANGED <<sa, messageId>>
         \/ sa' = next /\ next # NoSa /\ messageId' = 0 /\ UNCHANGED <<host, down, task, wait>>
  BY DEF OnInformational, Done, SwitchIke
<1>3. /\ InOrder(kids, spi) /\ \A x : NotIn(children, x) => NotIn(kids, x)
  BY <1>0, RetainedOrder DEF Kept, SpiInv
<1>4. children = <<>> => kids = <<>>
  BY <1>0, KeptIs
<1>5. Absent(kids)
  BY <1>3 DEF SpiInv, Absent
<1> HIDE DEF kids, n, b
<1>6. KindInv'
  BY <1>0, <1>1, KindStays
<1>u. Unnamed(n)
  BY <1>1 DEF Unnamed
<1>7. SpiInv'
  <2>1. CASE children' = kids /\ UNCHANGED task
    <3>1. Onward
      BY <1>0, <2>1 DEF Onward
    <3>2. task' \in {"start", "init", "auth", "eap", "final"} => children' = children
      BY <1>4, <2>1 DEF SpiInv, DrawInv
    <3> QED
      BY <1>0, <1>3, <1>5, <1>u, <2>1, <3>1, <3>2, SpiStays
  <2>2. CASE task' = "done" /\ children' = <<>>
    BY <1>0, <1>3, <1>5, <1>u, <2>2, SpiIdle
  <2> QED
    BY <1>2, <2>1, <2>2
<1>8. AskedInv'
  <2>1. CASE task' = "done"
    BY <2>1 DEF AskedInv, Asking
  <2>2. CASE UNCHANGED <<sa, messageId, task, wait>>
    BY <1>0, <2>2 DEF AskedInv
  <2>3. CASE sa' = next /\ next # NoSa /\ messageId' = 0 /\ UNCHANGED <<task, wait>>
    <3>1. sa \in Nat /\ next \in Nat /\ sa < next
      BY <2>3 DEF IInv, KeyInv, Numeric, SaOrder
    <3>2. wait.sa \in Nat
      BY DEF TypeInv, WaitType
    <3>3. task \in Asking => wait.sa < next /\ wait.sa # next
      BY <3>1, <3>2 DEF AskedInv
    <3> QED
      BY <1>0, <2>3, <3>3 DEF AskedInv
  <2> QED
    BY <1>2, <2>1, <2>2, <2>3
<1>9. KeyedInv' /\ BodyInv' /\ SetupInv'
  BY <1>0, <1>2 DEF KeyedInv, BodyInv, SetupInv
<1>10. ToldInv'
  BY <1>0, <1>2 DEF ToldInv
<1> QED
  BY <1>6, <1>7, <1>8, <1>9, <1>10

\* What the client does by itself.
LEMMA LocalCli == IInv /\ TypeInv /\ CliInv /\ Local => CliInv'
<1> SUFFICES ASSUME IInv, TypeInv, CliInv, Local PROVE CliInv'
  OBVIOUS
<1> USE DEF CliInv
<1>0. (stage = "Init" <=> sa = NoSa) /\ messageId \in Nat /\ InOrder(children, spi) /\ Absent(children)
      /\ children \in Seq(Kid) /\ spi \in Nat
  BY DEF KeyedInv, IInv, KeyInv, Numeric, SpiInv, TypeInv, KidsType, AskType
<1>d. ASSUME task = "close", Done, UNCHANGED <<sa, stage, spi, messageId, sent, down>> PROVE CliInv'
  <2>1. task' = "done" /\ children' = <<>>
    BY <1>d DEF Done
  <2>2. SpiInv'
    BY <1>0, <1>d, <2>1, SpiIdle
  <2>3. KindInv'
    BY <1>d DEF KindInv
  <2> QED
    BY <1>d, <2>1, <2>2, <2>3 DEF KeyedInv, AskedInv, BodyInv, SetupInv, ToldInv, Asking
<1>1. CASE Establish
  <2>0. task = "start" /\ sa = NoSa /\ UNCHANGED <<stage, saVars, spi, kid>>
    BY <1>1 DEF Establish, IInv, ControlInv, SetUp
  <2>1. CASE InitRequest(InitRetries) /\ UNCHANGED <<children, host, down, outcome>>
    <3> DEFINE b == [what |-> "init", left |-> InitRetries]
               n == Message(NoSa, 0, FALSE, b)
    <3>1. Request(NoSa, 0, "init", b)
      BY <2>1 DEF InitRequest
    <3>2. task' = "init" /\ sent' = sent \cup {n} /\ wait'.body = b
      BY <3>1, RequestIs
    <3>3. n.sa = NoSa /\ ~n.resp /\ n.body.what = "init" /\ b.what = "init"
      BY DEF Message
    <3>4. AskedInv'
      BY <2>0, <3>1, RequestAsked DEF saVars
    <3> HIDE DEF n, b
    <3>5. KindInv'
      BY <3>2, <3>3, KindStays DEF Kinds
    <3>6. SpiInv'
      <4>1. Onward /\ Unnamed(n)
        BY <2>0, <3>2, <3>3 DEF Onward, Unnamed
      <4> QED
        BY <2>0, <2>1, <3>2, <4>1, SpiSame
    <3> QED
      BY <2>0, <2>1, <3>2, <3>3, <3>4, <3>5, <3>6 DEF KeyedInv, BodyInv, SetupInv, ToldInv, saVars
  <2>2. CASE Fail(stage, children)
    BY <1>0, <2>0, <2>2, FailCli DEF Fail
  <2> QED
    BY <1>1, <2>1, <2>2 DEF Establish
<1>2. CASE Retransmit
  <2>1. wait'.sa = wait.sa /\ wait'.id = wait.id /\ wait'.body = wait.body
    <3>1. wait \in [sa : Nat, id : Nat, body : {wait.body}, sends : 0 .. Retransmits]
      BY DEF TypeInv, WaitType
    <3> QED
      BY <1>2, <3>1 DEF Retransmit
  <2>2. UNCHANGED <<stage, sa, messageId, sent, host, down, spi, left, kid, task, children>>
    BY <1>2 DEF Retransmit, saVars, kidVars
  <2>3. AskedInv' /\ BodyInv' /\ KindInv' /\ KeyedInv' /\ SetupInv' /\ ToldInv'
    BY <2>1, <2>2 DEF AskedInv, BodyInv, KindInv, KeyedInv, SetupInv, ToldInv
  <2>4. SpiInv'
    BY <2>2, SpiSame DEF Onward
  <2> QED
    BY <2>3, <2>4
<1>3. CASE GiveUp
  <2>0. UNCHANGED <<stage, saVars, sa, spi>>
    BY <1>3 DEF GiveUp, kidVars, saVars
  <2>1. CASE task = "close"
    BY <1>3, <1>d, <2>0, <2>1 DEF GiveUp
  <2>2. CASE task # "close" /\ (~host \/ task = "dpd")
    <3>1. Teardown(IF host THEN "Down" ELSE "Error", stage, "silent", children)
      BY <1>3, <2>2 DEF GiveUp
    <3> QED
      BY <1>0, <2>0, <3>1, FailCli
  <2>3. CASE task # "close" /\ ~(~host \/ task = "dpd")
    <3>1. Teardown("Error", stage, down, children)
      BY <1>3, <2>3 DEF GiveUp, Fail
    <3> QED
      BY <1>0, <2>0, <3>1, FailCli
  <2> QED
    BY <2>1, <2>2, <2>3
<1>4. CASE IoError
  <2>0. UNCHANGED <<stage, saVars, sa, spi>>
    BY <1>4 DEF IoError, kidVars, saVars
  <2>1. CASE task = "close"
    BY <1>4, <1>d, <2>0, <2>1 DEF IoError
  <2>2. CASE task # "close"
    <3>1. Teardown("Error", stage, down, children)
      BY <1>4, <2>2 DEF IoError, Fail
    <3> QED
      BY <1>0, <2>0, <3>1, FailCli
  <2> QED
    BY <2>1, <2>2
<1>5. CASE Cancel
  BY <1>0, <1>5, FailCli DEF Cancel, kidVars
<1>6. CASE StartDpd
  <2>1. sa # NoSa /\ UNCHANGED <<saVars, stage, spi, children, host>>
    BY <1>6 DEF StartDpd, kidVars, IInv, ControlInv, Committed, KeyedInv
  <2> QED
    BY <1>6, <2>1, AskCli DEF StartDpd
<1>7. ASSUME NEW k \in DOMAIN children, StartRekey(k) PROVE CliInv'
  <2>1. /\ sa # NoSa /\ UNCHANGED <<saVars, stage, children, host>> /\ stage' = "Established" /\ host
    BY <1>7 DEF StartRekey, IInv, ControlInv, Committed, KeyedInv, SetupInv
  <2>2. children[k].in \in 0 .. spi
    BY <1>0 DEF InOrder
  <2>3. children[k] \in Kid
    BY <1>0
  <2>4. children[k].nets \in SUBSET Networks
    BY <2>3 DEF Kid
  <2> QED
    BY <1>0, <1>7, <2>1, <2>2, <2>4, CreateChildCli DEF StartRekey
<1> QED
  BY <1>1, <1>2, <1>3, <1>4, <1>5, <1>6, <1>7 DEF Local

\* The client's invariant holds initially.
LEMMA InitCli == Init => CliInv
<1> SUFFICES ASSUME Init PROVE CliInv
  OBVIOUS
<1>0. DOMAIN <<>> = {}
  OBVIOUS
<1> QED
  BY <1>0 DEF Init, CliInv, KeyedInv, AskedInv, BodyInv, KindInv, SpiInv, InOrder, Absent, NotIn, DrawInv,
              NewInv, ToldInv, SetupInv, Asking, NoSa, NoSpi

\* Every message the client handles keeps it.
LEMMA ReceiveCli ==
  ASSUME IInv, TypeInv, CliInv, NEW m, m.body.what \in {"created", "rekeyChild"} => Offers(m),
         OnReply(m) \/ OnOrder(m)
  PROVE  CliInv'
BY InitReplyCli, FinalReplyCli, EapReplyCli, ChildReplyCli, DoneReplyCli, OrderCli, InformationalCli
   DEF OnReply, OnOrder

-----------------------------------------------------------------------------
(* The gateway's records.                                                  *)

\* The bounds and the first IKE SA.
LEMMA Bounds == MaxSas \in Nat /\ 1 \in Sas /\ NoSa \notin Sas /\ \A s \in Sas : s \in Nat /\ s >= 1 /\ s <= MaxSas
BY BoundsAssumption DEF Sas, NoSa

\* The fields of an IKE SA.
LEMMA SaFields ==
  ASSUME GwType, NEW s \in Sas
  PROVE  /\ gwSas[s].state \in SaStates /\ gwSas[s].expect \in Nat /\ gwSas[s].id \in Nat
         /\ gwSas[s].order \in gwSent \cup {NoMessage}
<1>1. gwSas[s] \in GwSa
  BY DEF GwType
<1> QED
  BY <1>1 DEF GwSa

\* A function that maps each IKE SA to such a record keeps the types.
LEMMA SasTyped ==
  ASSUME NEW f, f \in [Sas -> [state : SaStates, expect : Nat, id : Nat, order : gwSent' \cup {NoMessage}]],
         GwType, gwSas' = f, gwCurrent' \in 0 .. MaxSas, gwSpi' \in Nat, gwAlive' \in BOOLEAN,
         NEW n, gwSent' = gwSent \/ gwSent' = gwSent \cup {n},
         n.sa \in 0 .. MaxSas, n.id \in Nat, n.resp \in BOOLEAN
  PROVE  GwType'
BY DEF GwType, GwSa

\* What a record has in its fields after a request of either side.
LEMMA TakenFields ==
  ASSUME NEW O, NEW r \in [state : SaStates, expect : Nat, id : Nat, order : O], NEW st \in SaStates, NEW x,
         x = [r EXCEPT !.expect = @ + 1, !.state = st]
  PROVE  /\ x \in [state : SaStates, expect : Nat, id : Nat, order : O]
         /\ x.expect = r.expect + 1 /\ x.state = st /\ x.id = r.id /\ x.order = r.order
<1>1. r.expect + 1 \in Nat
  OBVIOUS
<1>2. x.expect = r.expect + 1
  OBVIOUS
<1>3. x.state = st
  OBVIOUS
<1>4. x.id = r.id /\ x.order = r.order
  OBVIOUS
<1> QED
  BY <1>1, <1>2, <1>3, <1>4

\* The same for a request of the gateway.
LEMMA OrderedFields ==
  ASSUME NEW O, NEW r \in [state : SaStates, expect : Nat, id : Nat, order : O], NEW st \in SaStates, NEW m \in O,
         NEW x, x = [r EXCEPT !.id = @ + 1, !.order = m, !.state = st]
  PROVE  /\ x \in [state : SaStates, expect : Nat, id : Nat, order : O]
         /\ x.expect = r.expect /\ x.state = st /\ x.id = r.id + 1 /\ x.order = m
<1>1. r.id + 1 \in Nat
  OBVIOUS
<1>2. x.id = r.id + 1
  OBVIOUS
<1>3. x.state = st
  OBVIOUS
<1>4. x.order = m
  OBVIOUS
<1>5. x.expect = r.expect
  OBVIOUS
<1> QED
  BY <1>1, <1>2, <1>3, <1>4, <1>5

\* A request is taken: the next one is expected, the state is st.
LEMMA TakenIs ==
  ASSUME GwType, NEW m, m.sa \in Sas, NEW st \in SaStates, Taken(m, st), gwSent \subseteq gwSent'
  PROVE  /\ gwSas' \in [Sas -> [state : SaStates, expect : Nat, id : Nat, order : gwSent' \cup {NoMessage}]]
         /\ \A s \in Sas : gwSas'[s].id = gwSas[s].id /\ gwSas'[s].order = gwSas[s].order
         /\ \A s \in Sas : s # m.sa => gwSas'[s] = gwSas[s]
         /\ gwSas'[m.sa].expect = gwSas[m.sa].expect + 1 /\ gwSas'[m.sa].state = st
<1>1. gwSas \in [Sas -> GwSa]
  BY DEF GwType
<1>2. \A s \in Sas : s # m.sa => gwSas'[s] = gwSas[s]
  BY <1>1 DEF Taken
<1>3. gwSas'[m.sa] = [gwSas[m.sa] EXCEPT !.expect = @ + 1, !.state = st]
  BY <1>1 DEF Taken
<1>4. gwSas[m.sa] \in [state : SaStates, expect : Nat, id : Nat, order : gwSent' \cup {NoMessage}]
  BY <1>1 DEF GwSa
<1>5. /\ gwSas'[m.sa] \in [state : SaStates, expect : Nat, id : Nat, order : gwSent' \cup {NoMessage}]
      /\ gwSas'[m.sa].expect = gwSas[m.sa].expect + 1 /\ gwSas'[m.sa].state = st
      /\ gwSas'[m.sa].id = gwSas[m.sa].id /\ gwSas'[m.sa].order = gwSas[m.sa].order
  <2> DEFINE O == gwSent' \cup {NoMessage}
  <2> HIDE DEF O
  <2>1. gwSas[m.sa] \in [state : SaStates, expect : Nat, id : Nat, order : O]
    BY <1>4 DEF O
  <2> DEFINE r == gwSas[m.sa]
             x == gwSas'[m.sa]
  <2>2. r \in [state : SaStates, expect : Nat, id : Nat, order : O] /\ x = [r EXCEPT !.expect = @ + 1, !.state = st]
    BY <1>3, <2>1
  <2> HIDE DEF r, x
  <2>3. /\ x \in [state : SaStates, expect : Nat, id : Nat, order : O]
        /\ x.expect = r.expect + 1 /\ x.state = st /\ x.id = r.id /\ x.order = r.order
    BY <2>2, TakenFields
  <2> QED
    BY <2>3 DEF O, r, x
<1>6. \A s \in Sas : gwSas[s] \in [state : SaStates, expect : Nat, id : Nat, order : gwSent' \cup {NoMessage}]
  BY <1>1 DEF GwSa
<1>7. DOMAIN gwSas' = Sas /\ gwSas' = [s \in Sas |-> gwSas'[s]]
  BY <1>1 DEF Taken
<1> QED
  BY <1>2, <1>5, <1>6, <1>7

\* A request of the gateway is sent on an IKE SA that has none under way.
LEMMA OrderedIs ==
  ASSUME GwType, NEW s \in Sas, NEW b, NEW st \in SaStates, Order(s, b, st)
  PROVE  LET m == Message(s, gwSas[s].id, FALSE, b)
         IN  /\ gwSas' \in [Sas -> [state : SaStates, expect : Nat, id : Nat, order : gwSent' \cup {NoMessage}]]
             /\ \A t \in Sas : t # s => gwSas'[t] = gwSas[t]
             /\ gwSas'[s].expect = gwSas[s].expect /\ gwSas'[s].state = st
             /\ gwSas'[s].id = gwSas[s].id + 1 /\ gwSas'[s].order = m
             /\ gwSent' = gwSent \cup {m}
             /\ m.sa = s /\ m.id = gwSas[s].id /\ ~m.resp /\ m.resp \in BOOLEAN /\ m.body = b /\ m # NoMessage
<1> DEFINE m == Message(s, gwSas[s].id, FALSE, b)
<1>m. m.sa = s /\ m.id = gwSas[s].id /\ ~m.resp /\ m.resp \in BOOLEAN /\ m.body = b
  BY DEF Message
<1>n. NoMessage.sa = NoSa
  BY DEF NoMessage
<1>0. gwSas' = [gwSas EXCEPT ![s].id = @ + 1, ![s].order = m, ![s].state = st] /\ gwSent' = gwSent \cup {m}
  BY DEF Order
<1> HIDE DEF m
<1>o. m # NoMessage
  BY <1>m, <1>n, Bounds
<1>1. gwSas \in [Sas -> GwSa]
  BY DEF GwType
<1>2. \A t \in Sas : t # s => gwSas'[t] = gwSas[t]
  BY <1>0, <1>1
<1>3. gwSas'[s] = [gwSas[s] EXCEPT !.id = @ + 1, !.order = m, !.state = st]
  BY <1>0, <1>1
<1>4. gwSas[s] \in [state : SaStates, expect : Nat, id : Nat, order : gwSent' \cup {NoMessage}]
  BY <1>0, <1>1 DEF GwSa
<1>5. /\ gwSas'[s] \in [state : SaStates, expect : Nat, id : Nat, order : gwSent' \cup {NoMessage}]
      /\ gwSas'[s].expect = gwSas[s].expect /\ gwSas'[s].state = st
      /\ gwSas'[s].id = gwSas[s].id + 1 /\ gwSas'[s].order = m
  <2> DEFINE O == gwSent' \cup {NoMessage}
  <2>0. m \in O
    BY <1>0
  <2> HIDE DEF O
  <2>1. gwSas[s] \in [state : SaStates, expect : Nat, id : Nat, order : O]
    BY <1>4 DEF O
  <2> DEFINE r == gwSas[s]
             x == gwSas'[s]
  <2>2. /\ r \in [state : SaStates, expect : Nat, id : Nat, order : O]
        /\ x = [r EXCEPT !.id = @ + 1, !.order = m, !.state = st]
    BY <1>3, <2>1
  <2> HIDE DEF r, x
  <2>3. /\ x \in [state : SaStates, expect : Nat, id : Nat, order : O]
        /\ x.expect = r.expect /\ x.state = st /\ x.id = r.id + 1 /\ x.order = m
    BY <2>0, <2>2, OrderedFields
  <2> QED
    BY <2>3 DEF O, r, x
<1>6. \A t \in Sas : gwSas[t] \in [state : SaStates, expect : Nat, id : Nat, order : gwSent' \cup {NoMessage}]
  BY <1>0, <1>1 DEF GwSa
<1>7. DOMAIN gwSas' = Sas /\ gwSas' = [t \in Sas |-> gwSas'[t]]
  BY <1>0, <1>1
<1>8. gwSas' \in [Sas -> [state : SaStates, expect : Nat, id : Nat, order : gwSent' \cup {NoMessage}]]
  BY <1>2, <1>5, <1>6, <1>7
<1> QED
  BY <1>0, <1>2, <1>5, <1>8, <1>m, <1>o DEF m

\* The gateway's IKE SAs once its request on IKE SA s was answered.
Closed(state) == IF state = "closing" THEN "gone" ELSE state
Cleared(s) == [gwSas EXCEPT ![s].order = NoMessage, ![s].state = IF @ = "closing" THEN "gone" ELSE @]

\* The fields then.
LEMMA ClearedIs ==
  ASSUME GwType, NEW s \in Sas
  PROVE  LET f == Cleared(s)
         IN  /\ f \in [Sas -> GwSa]
             /\ \A t \in Sas : t # s => f[t] = gwSas[t]
             /\ f[s].expect = gwSas[s].expect /\ f[s].id = gwSas[s].id /\ f[s].order = NoMessage
             /\ f[s].state = Closed(gwSas[s].state)
<1> DEFINE O == gwSent \cup {NoMessage}
           f == Cleared(s)
           r == gwSas[s]
           x == f[s]
<1>0. NoMessage \in O
  OBVIOUS
<1>1. gwSas \in [Sas -> [state : SaStates, expect : Nat, id : Nat, order : O]]
  BY DEF GwType, GwSa
<1>a. GwSa = [state : SaStates, expect : Nat, id : Nat, order : O]
  BY DEF GwSa
<1> HIDE DEF O
<1>2. \A t \in Sas : t # s => f[t] = gwSas[t]
  BY <1>1 DEF Cleared
<1>3. x = [r EXCEPT !.order = NoMessage, !.state = IF @ = "closing" THEN "gone" ELSE @]
  BY <1>1 DEF Cleared
<1>4. r \in [state : SaStates, expect : Nat, id : Nat, order : O]
  BY <1>1
<1>5. DOMAIN f = Sas /\ f = [t \in Sas |-> f[t]]
  BY <1>1 DEF Cleared
<1> HIDE DEF r, x
<1>6. x.order = NoMessage
  BY <1>3, <1>4
<1>7. x.expect = r.expect /\ x.id = r.id
  BY <1>3, <1>4
<1>8. x.state = Closed(r.state)
  BY <1>3, <1>4 DEF Closed
<1>9. r.state \in SaStates => Closed(r.state) \in SaStates
  BY DEF Closed, SaStates
<1>10. x \in [state : SaStates, expect : Nat, id : Nat, order : O]
  BY <1>0, <1>3, <1>4, <1>6, <1>7, <1>8, <1>9
<1> HIDE DEF f
<1>11. f \in [Sas -> GwSa]
  BY <1>1, <1>a, <1>2, <1>5, <1>10 DEF x
<1> QED
  BY <1>2, <1>6, <1>7, <1>8, <1>11 DEF f, r, x

\* And an IKE SA that is up.
LEMMA RaisedIs ==
  ASSUME NEW f \in [Sas -> GwSa], NEW s \in Sas
  PROVE  LET g == [f EXCEPT ![s].state = "up"]
         IN  /\ g \in [Sas -> GwSa]
             /\ \A t \in Sas : t # s => g[t] = f[t]
             /\ g[s].expect = f[s].expect /\ g[s].id = f[s].id /\ g[s].order = f[s].order
             /\ g[s].state = "up"
<1> DEFINE O == gwSent \cup {NoMessage}
           g == [f EXCEPT ![s].state = "up"]
           r == f[s]
           x == g[s]
<1>a. GwSa = [state : SaStates, expect : Nat, id : Nat, order : O]
  BY DEF GwSa
<1> HIDE DEF O
<1>1. f \in [Sas -> [state : SaStates, expect : Nat, id : Nat, order : O]]
  BY <1>a
<1>2. \A t \in Sas : t # s => g[t] = f[t]
  BY <1>1
<1>3. x = [r EXCEPT !.state = "up"]
  BY <1>1
<1>4. r \in [state : SaStates, expect : Nat, id : Nat, order : O]
  BY <1>1
<1>5. DOMAIN g = Sas /\ g = [t \in Sas |-> g[t]]
  BY <1>1
<1> HIDE DEF r, x
<1>6. x.expect = r.expect /\ x.id = r.id /\ x.order = r.order
  BY <1>3, <1>4
<1>7. x.state = "up"
  BY <1>3, <1>4
<1>8. x \in [state : SaStates, expect : Nat, id : Nat, order : O]
  BY <1>3, <1>4, <1>6, <1>7 DEF SaStates
<1> HIDE DEF g
<1>9. g \in [Sas -> GwSa]
  BY <1>1, <1>a, <1>2, <1>5, <1>8 DEF x
<1> QED
  BY <1>2, <1>6, <1>7, <1>9 DEF g, r, x

\* The first IKE SA, half open.
LEMMA HalfIs ==
  ASSUME GwType, gwSas' = [gwSas EXCEPT ![1].state = "half", ![1].expect = 1], gwSent \subseteq gwSent'
  PROVE  /\ gwSas' \in [Sas -> [state : SaStates, expect : Nat, id : Nat, order : gwSent' \cup {NoMessage}]]
         /\ \A t \in Sas : t # 1 => gwSas'[t] = gwSas[t]
         /\ gwSas'[1].expect = 1 /\ gwSas'[1].state = "half"
         /\ gwSas'[1].id = gwSas[1].id /\ gwSas'[1].order = gwSas[1].order
<1> DEFINE O == gwSent' \cup {NoMessage}
           r == gwSas[1]
           x == gwSas'[1]
<1>1. gwSas \in [Sas -> [state : SaStates, expect : Nat, id : Nat, order : O]] /\ 1 \in Sas
  BY Bounds DEF GwType, GwSa
<1> HIDE DEF O
<1>2. \A t \in Sas : t # 1 => gwSas'[t] = gwSas[t]
  BY <1>1
<1>3. x = [r EXCEPT !.state = "half", !.expect = 1]
  BY <1>1
<1>4. r \in [state : SaStates, expect : Nat, id : Nat, order : O]
  BY <1>1
<1>5. DOMAIN gwSas' = Sas /\ gwSas' = [t \in Sas |-> gwSas'[t]]
  BY <1>1
<1> HIDE DEF r, x
<1>6. x.id = r.id /\ x.order = r.order
  BY <1>3, <1>4
<1>7. x.state = "half"
  BY <1>3, <1>4
<1>8. x.expect = 1
  BY <1>3, <1>4
<1>9. x \in [state : SaStates, expect : Nat, id : Nat, order : O]
  BY <1>3, <1>4, <1>6, <1>7, <1>8 DEF SaStates
<1>10. gwSas' \in [Sas -> [state : SaStates, expect : Nat, id : Nat, order : O]]
  BY <1>1, <1>2, <1>5, <1>9 DEF x
<1> QED
  BY <1>2, <1>6, <1>7, <1>8, <1>10 DEF O, r, x

-----------------------------------------------------------------------------
(* The gateway's steps keep the invariant of the messages.                 *)

\* What concerns the client alone.
LEMMA ClientSame == ASSUME UNCHANGED vars PROVE /\ UNCHANGED <<stage, sa, next, sas, messageId, peerMessageId, lastResponse>>
                                                /\ UNCHANGED <<children, host, down, spi, left, kid, todo, task, wait, outcome, sent>>
BY DEF vars, saVars, kidVars

\* What was an answer or a request of the gateway still is, with more SPIs.
LEMMA FitsStays ==
  ASSUME gwSpi \in Nat, gwSpi' \in Nat, gwSpi' >= gwSpi, NEW b, NEW r, Fits(b, r)
  PROVE  Fits(b, r)'
BY DEF Fits

\* A request stays one as SPIs are drawn.
LEMMA IsOrderStays ==
  ASSUME gwSpi \in Nat, gwSpi' \in Nat, gwSpi' >= gwSpi, NEW b, IsOrder(b)
  PROVE  IsOrder(b)'
<1>1. 1 .. gwSpi \subseteq 1 .. gwSpi'
  OBVIOUS
<1> QED
  BY <1>1 DEF IsOrder

\* The gateway answers a request of the client.
LEMMA AnsweredGw ==
  ASSUME IInv, KindInv, GwInv, UNCHANGED vars, NEW m \in sent, Expected(m),
         NEW st \in SaStates \ {"none"}, Taken(m, st), NEW b, Reply(m, b), Fits(m.body, b)',
         gwSpi' \in Nat, gwSpi' >= gwSpi, UNCHANGED gwAlive,
         st = "half" => gwSas[m.sa].state = "half",
         gwCurrent' = gwCurrent \/ (gwSas[m.sa].state = "half" /\ st = "up" /\ gwCurrent' = 1),
         b.what \in {"eapRequest", "eapSuccess"} => AuthKind(m) /\ st = "half"
  PROVE  GwInv'
<1> USE DEF GwInv
<1> DEFINE r == Message(m.sa, m.id, TRUE, b)
<1>c. /\ UNCHANGED <<stage, sa, next, sas, messageId, peerMessageId, lastResponse>>
      /\ UNCHANGED <<children, host, down, spi, left, kid, todo, task, wait, outcome, sent>>
  BY ClientSame
<1>r. r.sa = m.sa /\ r.id = m.id /\ r.resp /\ r.resp \in BOOLEAN /\ r.body = b
  BY DEF Message
<1>s. gwSent' = gwSent \cup {r}
  BY DEF Reply
<1> HIDE DEF r
<1>m. /\ m.sa \in Sas /\ ~m.resp /\ m.id = gwSas[m.sa].expect /\ m.id \in Nat
      /\ m.sa <= sa /\ (m.sa = sa => m.id < messageId) /\ sa # NoSa
      /\ gwSas[m.sa].state \in {"half", "up", "closing"}
  BY Bounds DEF Expected, IInv, KeyInv, SentBefore, Numeric, NoSa
<1>n. sa \in Nat /\ next \in Nat /\ sas \in Nat /\ messageId \in Nat /\ peerMessageId \in Nat /\ (next # NoSa => sa < next)
  BY DEF IInv, KeyInv, Numeric, SaOrder
<1>t. /\ gwSas' \in [Sas -> [state : SaStates, expect : Nat, id : Nat, order : gwSent' \cup {NoMessage}]]
      /\ \A s \in Sas : gwSas'[s].id = gwSas[s].id /\ gwSas'[s].order = gwSas[s].order
      /\ \A s \in Sas : s # m.sa => gwSas'[s] = gwSas[s]
      /\ gwSas'[m.sa].expect = gwSas[m.sa].expect + 1 /\ gwSas'[m.sa].state = st
  BY <1>m, <1>s, TakenIs
<1>f. \A s \in Sas : /\ gwSas[s].state \in SaStates /\ gwSas[s].expect \in Nat /\ gwSas[s].id \in Nat
                     /\ gwSas[s].order \in gwSent \cup {NoMessage}
  BY SaFields
<1>e. \A s \in Sas : gwSas'[s].expect \in Nat /\ gwSas'[s].expect >= gwSas[s].expect
  BY <1>t, <1>f
<1>1. GwType'
  <2>1. gwCurrent' \in 0 .. MaxSas
    BY Bounds DEF GwType, Sas
  <2>2. r.sa \in 0 .. MaxSas /\ r.id \in Nat
    BY <1>r, <1>m DEF Sas
  <2> QED
    BY <1>r, <1>s, <1>t, <2>1, <2>2, SasTyped DEF GwType
<1>2. ReplyInv'
  <2>1. ASSUME NEW x \in gwSent', x.resp, x.sa = NoSa PROVE x.body.what \in {"redirected", "refused", "accepted"}
    BY <2>1, <1>s, <1>r, <1>m, Bounds DEF ReplyInv
  <2>2. ASSUME NEW x \in gwSent', x.resp, x.sa # NoSa
        PROVE  /\ x.id < gwSas'[x.sa].expect
               /\ \E q \in sent : q.sa = x.sa /\ q.id = x.id /\ ~q.resp /\ Fits(q.body, x.body)'
    <3>1. CASE x = r
      BY <3>1, <1>r, <1>m, <1>t, <1>f
    <3>2. CASE x # r
      <4>1. x \in gwSent /\ x.sa \in Sas /\ x.id \in Nat
        BY <3>2, <2>2, <1>s DEF GwType, Sas, NoSa
      <4>2. x.id < gwSas[x.sa].expect
        BY <4>1, <2>2 DEF ReplyInv
      <4>3. PICK q \in sent : q.sa = x.sa /\ q.id = x.id /\ ~q.resp /\ Fits(q.body, x.body)
        BY <4>1, <2>2 DEF ReplyInv
      <4>4. Fits(q.body, x.body)'
        BY <1>c, <4>3, FitsStays DEF GwType
      <4> QED
        BY <4>1, <4>2, <4>3, <4>4, <1>e, <1>f
    <3> QED
      BY <3>1, <3>2
  <2>3. ASSUME NEW x \in gwSent', NEW y \in gwSent', x.resp, y.resp, x.sa # NoSa, x.sa = y.sa, x.id = y.id
        PROVE  x = y
    <3>1. ASSUME NEW z \in gwSent, z.resp, z.sa = r.sa, z.id = r.id PROVE FALSE
      <4>1. z.id < gwSas[z.sa].expect
        BY <3>1, <1>r, <1>m, Bounds DEF ReplyInv
      <4> QED
        BY <3>1, <4>1, <1>r, <1>m
    <3> QED
      BY <2>3, <3>1, <1>s, <1>r DEF ReplyInv
  <2> QED
    BY <2>1, <2>2, <2>3, <1>c DEF ReplyInv
<1>3. OrderInv'
  <2>1. ASSUME NEW o \in gwSent', ~o.resp
        PROVE  /\ o.sa \in Sas /\ o.id < gwSas'[o.sa].id /\ IsOrder(o.body)'
               /\ o.body.what = "rekeyIke" => o.sa < MaxSas /\ (host \/ task \in {"close", "done"})
    <3>1. o \in gwSent
      BY <2>1, <1>s, <1>r
    <3>2. IsOrder(o.body)'
      BY <3>1, <2>1, IsOrderStays DEF OrderInv, GwType
    <3> QED
      BY <2>1, <3>1, <3>2, <1>t DEF OrderInv
  <2>2. \A o, p \in gwSent' : ~o.resp /\ ~p.resp /\ o.sa = p.sa /\ o.id = p.id => o = p
    BY <1>s, <1>r DEF OrderInv
  <2>3. \A s \in Sas : gwSas'[s].order # NoMessage =>
          ~gwSas'[s].order.resp /\ gwSas'[s].order.sa = s /\ gwSas'[s].order.id + 1 = gwSas'[s].id
    BY <1>t DEF OrderInv
  <2>4. \A s \in Sas : gwSas'[s].state \in {"none", "half"} => gwSas'[s].id = 0 /\ gwSas'[s].order = NoMessage
    <3>1. \A s \in Sas : gwSas'[s].state \in {"none", "half"} => gwSas[s].state \in {"none", "half"}
      BY <1>t, <1>m
    <3> QED
      BY <3>1, <1>t DEF OrderInv
  <2> QED
    BY <2>1, <2>2, <2>3, <2>4, <1>c DEF OrderInv
<1>4. AnswerInv'
  BY <1>c, <1>s DEF AnswerInv
<1>5. NumberInv'
  BY <1>c DEF NumberInv
<1>q. sa \in Sas
  BY <1>m, <1>n, Bounds DEF IInv, KeyInv, SaOrder, NumberInv, Sas, NoSa
<1>6. CountInv'
  <2>1. gwSas'[sa].state # "none" /\ gwSas'[sa].expect <= messageId
    BY <1>q, <1>m, <1>n, <1>t, <1>f DEF CountInv
  <2> QED
    BY <2>1, <1>c, <1>q, <1>m, <1>t DEF CountInv
<1>7. NextInv'
  <2> SUFFICES ASSUME next # NoSa PROVE NextInv'
    BY <1>c DEF NextInv
  <2>1. next \in Sas /\ m.sa # next /\ gwSas'[next] = gwSas[next]
    BY <1>m, <1>n, <1>t DEF NumberInv, Sas, NoSa
  <2>2. gwCurrent' = gwCurrent
    <3>1. gwCurrent # NoSa
      BY <1>m, <1>n DEF NextInv, NoSa
    <3>2. gwSas[m.sa].state # "half"
      BY <1>m, <3>1 DEF CurrentInv
    <3> QED
      BY <3>2
  <2> QED
    BY <2>1, <2>2, <1>c, <1>q, <1>t DEF NextInv, Handled
<1>8. CurrentInv'
  <2>1. gwCurrent' # gwCurrent => gwCurrent = NoSa /\ gwCurrent' = 1 /\ sa = 1 /\ m.sa = 1 /\ st = "up"
    <3>1. gwSas[m.sa].state = "half" => m.sa = 1 /\ gwCurrent = NoSa
      BY <1>m DEF CurrentInv
    <3> QED
      BY <3>1, <1>m, <1>n DEF CurrentInv, NoSa
  <2>2. gwCurrent' \in {NoSa, sa, next}
    BY <2>1 DEF CurrentInv
  <2>3. sa > 1 => gwCurrent' # NoSa
    BY <2>1, <1>n DEF CurrentInv
  <2>4. gwSas'[1].state \in {"none", "half"} => gwCurrent' = NoSa
    <3>1. gwSas'[1].state \in {"none", "half"} => gwSas[1].state \in {"none", "half"}
      BY <1>t, <1>m, Bounds
    <3> QED
      BY <2>1, <3>1, <1>t, <1>m DEF CurrentInv
  <2>5. \A s \in Sas : s > sas /\ s > 1 => gwSas'[s].state = "none"
    <3>1. m.sa <= sas
      BY <1>m, <1>n, Bounds DEF IInv, KeyInv, SaOrder
    <3> QED
      BY <3>1, <1>n, <1>t, Bounds DEF CurrentInv
  <2>6. \A s \in Sas : gwSas'[s].state = "half" => s = 1
    BY <1>t, <1>m DEF CurrentInv
  <2>7. \A s \in Sas : gwSas'[s].state = "none" => gwSas'[s].expect = 0
    BY <1>t, <1>m DEF CurrentInv
  <2>8. \A s \in Sas : gwSas'[s].order # NoMessage /\ gwSas'[s].order.body.what = "rekeyIke" => gwCurrent' = s
    <3>1. \A s \in Sas : gwSas[s].order # NoMessage /\ gwSas[s].order.body.what = "rekeyIke" => gwCurrent = s
      BY DEF CurrentInv
    <3> QED
      BY <3>1, <2>1, <1>t, Bounds
  <2>9. (\E x \in gwSent' : x.resp /\ x.body.what = "accepted") => gwSas'[1].state # "none"
    <3>1. b.what # "accepted"
      BY DEF Fits
    <3>2. gwSas[1].state # "none" => gwSas'[1].state # "none"
      BY <1>t, Bounds
    <3> QED
      BY <3>1, <3>2, <1>s, <1>r DEF CurrentInv
  <2> QED
    BY <2>2, <2>3, <2>4, <2>5, <2>6, <2>7, <2>8, <2>9, <1>c, <1>m DEF CurrentInv
<1>9. OldInv'
  BY <1>c, <1>t DEF OldInv
<1>10. AuthInv'
  <2>0. 1 \in Sas
    BY Bounds
  <2>i. \A q \in sent : q.id \in Nat
    BY DEF IInv, KeyInv, SentBefore
  <2>1. gwSas'[1].state \notin {"none", "half"} => \A q \in sent : AuthKind(q) => q.id < gwSas'[1].expect
    <3>1. CASE m.sa = 1
      <4> SUFFICES ASSUME NEW q \in sent, AuthKind(q) PROVE q.id < gwSas'[1].expect
        OBVIOUS
      <4>1. ~(m.id < q.id)
        BY <3>1, <1>m DEF AuthInv
      <4> QED
        BY <3>1, <4>1, <2>i, <1>m, <1>t
    <3>2. CASE m.sa # 1
      BY <3>2, <2>0, <1>t DEF AuthInv
    <3> QED
      BY <3>1, <3>2
  <2>2. ASSUME NEW x \in gwSent', x.resp, x.body.what \in {"eapRequest", "eapSuccess"}
        PROVE  x.sa = 1 /\ (x.id + 1 = gwSas'[1].expect => gwSas'[1].state = "half")
    <3>1. CASE x = r
      <4>1. m.sa = 1 /\ st = "half"
        BY <3>1, <2>2, <1>r DEF AuthInv
      <4> QED
        BY <3>1, <4>1, <1>r, <1>t
    <3>2. CASE x # r
      <4>1. x \in gwSent /\ x.sa = 1 /\ x.id \in Nat /\ (x.id + 1 = gwSas[1].expect => gwSas[1].state = "half")
        BY <3>2, <2>2, <1>s DEF AuthInv, GwType
      <4>2. x.id < gwSas[1].expect
        BY <4>1, <2>2 DEF ReplyInv, NoSa
      <4>3. CASE m.sa = 1
        BY <4>1, <4>2, <4>3, <1>t, <1>f, <2>0
      <4>4. CASE m.sa # 1
        BY <4>1, <4>4, <2>0, <1>t
      <4> QED
        BY <4>3, <4>4
    <3> QED
      BY <3>1, <3>2
  <2>3. \A p, q \in sent : ~p.resp /\ p.sa = 1 /\ AuthKind(q) /\ p.id < q.id => p.id < gwSas'[1].expect
    <3>1. \A p, q \in sent : ~p.resp /\ p.sa = 1 /\ AuthKind(q) /\ p.id < q.id => p.id < gwSas[1].expect
      BY DEF AuthInv
    <3> QED
      BY <3>1, <2>0, <2>i, <1>e, <1>f
  <2> QED
    BY <2>1, <2>2, <2>3, <1>c DEF AuthInv, AuthKind
<1> QED
  BY <1>1, <1>2, <1>3, <1>4, <1>5, <1>6, <1>7, <1>8, <1>9, <1>10

\* A request of the gateway has an identifier no response of the client has.
LEMMA Unanswered ==
  ASSUME IInv, GwInv, NEW s \in Sas, NEW x \in sent, x.resp, x.sa = s
  PROVE  x.id < gwSas[s].id /\ x.id \in Nat
<1>1. PICK o \in gwSent : ~o.resp /\ o.sa = x.sa /\ o.id = x.id
  BY DEF GwInv, AnswerInv
<1> QED
  BY <1>1 DEF GwInv, OrderInv, GwType

\* The gateway sends a request of its own.
LEMMA OrderedGw ==
  ASSUME IInv, GwInv, UNCHANGED vars, NEW s \in Sas, NEW b, NEW st \in {"up", "closing"}, Order(s, b, st),
         IsOrder(b)', gwSpi' \in Nat, gwSpi' >= gwSpi,
         b.what = "rekeyIke" => s < MaxSas /\ host /\ gwCurrent = s
  PROVE  GwInv'
<1> USE DEF GwInv
<1> DEFINE m == Message(s, gwSas[s].id, FALSE, b)
<1>c. /\ UNCHANGED <<stage, sa, next, sas, messageId, peerMessageId, lastResponse>>
      /\ UNCHANGED <<children, host, down, spi, left, kid, todo, task, wait, outcome, sent>>
  BY ClientSame
<1>k. st \in SaStates
  BY DEF SaStates
<1>t. /\ gwSas' \in [Sas -> [state : SaStates, expect : Nat, id : Nat, order : gwSent' \cup {NoMessage}]]
      /\ \A t \in Sas : t # s => gwSas'[t] = gwSas[t]
      /\ gwSas'[s].expect = gwSas[s].expect /\ gwSas'[s].state = st
      /\ gwSas'[s].id = gwSas[s].id + 1 /\ gwSas'[s].order = m
      /\ gwSent' = gwSent \cup {m}
      /\ m.sa = s /\ m.id = gwSas[s].id /\ ~m.resp /\ m.resp \in BOOLEAN /\ m.body = b /\ m # NoMessage
  BY <1>k, OrderedIs
<1> HIDE DEF m
<1>u. gwSas[s].state = "up" /\ gwSas[s].order = NoMessage /\ UNCHANGED <<gwCurrent, gwAlive>>
  BY DEF Order
<1>f. \A t \in Sas : /\ gwSas[t].state \in SaStates /\ gwSas[t].expect \in Nat /\ gwSas[t].id \in Nat
                     /\ gwSas[t].order \in gwSent \cup {NoMessage}
  BY SaFields
<1>n. /\ sa \in Nat /\ next \in Nat /\ sas \in Nat /\ messageId \in Nat /\ peerMessageId \in Nat
      /\ sa <= sas /\ next <= sas /\ (next # NoSa => sa < next)
  BY DEF IInv, KeyInv, Numeric, SaOrder
<1>e. \A t \in Sas : gwSas'[t].expect = gwSas[t].expect
  BY <1>t
<1>1. GwType'
  <2>1. m.sa \in 0 .. MaxSas /\ m.id \in Nat
    BY <1>t, <1>f DEF Sas
  <2> QED
    BY <1>t, <1>u, <2>1, SasTyped DEF GwType
<1>2. ReplyInv'
  <2>1. ASSUME NEW x \in gwSent', x.resp PROVE x \in gwSent
    BY <2>1, <1>t
  <2>2. ASSUME NEW x \in gwSent, x.resp, x.sa # NoSa
        PROVE  /\ x.id < gwSas'[x.sa].expect
               /\ \E q \in sent : q.sa = x.sa /\ q.id = x.id /\ ~q.resp /\ Fits(q.body, x.body)'
    <3>1. x.sa \in Sas
      BY <2>2 DEF GwType, Sas, NoSa
    <3>2. PICK q \in sent : q.sa = x.sa /\ q.id = x.id /\ ~q.resp /\ Fits(q.body, x.body)
      BY <2>2 DEF ReplyInv
    <3>3. Fits(q.body, x.body)'
      BY <3>2, FitsStays DEF GwType
    <3> QED
      BY <2>2, <3>1, <3>2, <3>3, <1>e DEF ReplyInv
  <2> QED
    BY <2>1, <2>2, <1>c DEF ReplyInv
<1>3. OrderInv'
  <2>1. ASSUME NEW o \in gwSent', ~o.resp
        PROVE  /\ o.sa \in Sas /\ o.id < gwSas'[o.sa].id /\ IsOrder(o.body)'
               /\ o.body.what = "rekeyIke" => o.sa < MaxSas /\ (host \/ task \in {"close", "done"})
    <3>1. CASE o = m
      BY <3>1, <1>t, <1>f
    <3>2. CASE o # m
      <4>1. o \in gwSent /\ o.sa \in Sas /\ o.id \in Nat /\ o.id < gwSas[o.sa].id
        BY <2>1, <3>2, <1>t DEF OrderInv, GwType
      <4>2. IsOrder(o.body)'
        BY <4>1, <2>1, IsOrderStays DEF OrderInv, GwType
      <4>3. o.id < gwSas'[o.sa].id
        BY <4>1, <1>t, <1>f
      <4> QED
        BY <2>1, <4>1, <4>2, <4>3 DEF OrderInv
    <3> QED
      BY <3>1, <3>2
  <2>2. ASSUME NEW o \in gwSent', NEW p \in gwSent', ~o.resp, ~p.resp, o.sa = p.sa, o.id = p.id PROVE o = p
    <3>1. ASSUME NEW x \in gwSent, ~x.resp, x.sa = s, x.id = m.id PROVE FALSE
      BY <3>1, <1>t, <1>f DEF OrderInv
    <3> QED
      BY <2>2, <3>1, <1>t DEF OrderInv
  <2>3. \A t \in Sas : gwSas'[t].order # NoMessage =>
          ~gwSas'[t].order.resp /\ gwSas'[t].order.sa = t /\ gwSas'[t].order.id + 1 = gwSas'[t].id
    BY <1>t DEF OrderInv
  <2>4. \A t \in Sas : gwSas'[t].state \in {"none", "half"} => gwSas'[t].id = 0 /\ gwSas'[t].order = NoMessage
    BY <1>t DEF OrderInv
  <2> QED
    BY <2>1, <2>2, <2>3, <2>4, <1>c DEF OrderInv
<1>4. AnswerInv'
  BY <1>c, <1>t DEF AnswerInv
<1>5. NumberInv'
  BY <1>c DEF NumberInv
<1>6. CountInv'
  <2> SUFFICES ASSUME sa # NoSa PROVE CountInv'
    BY <1>c DEF CountInv
  <2>q. sa \in Sas
    BY <1>n, Bounds DEF NumberInv, Sas, NoSa
  <2>1. CASE s = sa
    BY <2>1, <1>c, <1>t, <1>u, <1>f, <1>n DEF CountInv
  <2>2. CASE s # sa
    BY <2>q, <2>2, <1>c, <1>t DEF CountInv
  <2> QED
    BY <2>1, <2>2
<1>7. NextInv'
  <2> SUFFICES ASSUME next # NoSa PROVE NextInv'
    BY <1>c DEF NextInv
  <2>q. next \in Sas /\ sa \in Sas /\ sa # next
    BY <1>n, Bounds DEF NumberInv, Sas, NoSa
  <2>1. CASE s = next
    <3>1. gwCurrent = next /\ gwSas[next].id = 0 /\ gwSas[next].expect = 0
      BY <2>1, <1>u DEF NextInv
    <3> QED
      BY <2>1, <3>1, <1>c, <1>t, <1>u DEF NextInv
  <2>2. CASE s = sa
    <3>1. gwCurrent = next /\ gwSas[next].state \in {"up", "closing", "gone"}
      BY <2>2, <1>u DEF NextInv
    <3>2. gwSas'[next] = gwSas[next]
      BY <2>2, <2>q, <1>t
    <3> QED
      BY <3>1, <3>2, <1>c, <1>u DEF NextInv
  <2>3. CASE s # sa /\ s # next
    BY <2>3, <2>q, <1>c, <1>t, <1>u DEF NextInv, Handled
  <2> QED
    BY <2>1, <2>2, <2>3
<1>8. CurrentInv'
  <2>1. \A t \in Sas : t > sas /\ t > 1 => gwSas'[t].state = "none"
    BY <1>t, <1>u DEF CurrentInv
  <2>2. \A t \in Sas : gwSas'[t].state = "half" => t = 1
    BY <1>t DEF CurrentInv
  <2>3. \A t \in Sas : gwSas'[t].state = "none" => gwSas'[t].expect = 0
    BY <1>t DEF CurrentInv
  <2>4. \A t \in Sas : gwSas'[t].order # NoMessage /\ gwSas'[t].order.body.what = "rekeyIke" => gwCurrent = t
    BY <1>t DEF CurrentInv
  <2>5. gwSas'[1].state \in {"none", "half"} <=> gwSas[1].state \in {"none", "half"}
    BY <1>t, <1>u, Bounds
  <2>6. gwSas'[1].state = "none" => gwSas[1].state = "none"
    BY <1>t, Bounds
  <2>7. (\E x \in gwSent' : x.resp /\ x.body.what = "accepted") => gwSas'[1].state # "none"
    BY <2>6, <1>t DEF CurrentInv
  <2> QED
    BY <2>1, <2>2, <2>3, <2>4, <2>5, <2>7, <1>c, <1>u, <1>e, Bounds DEF CurrentInv
<1>9. OldInv'
  <2> SUFFICES ASSUME NEW t \in Sas, NEW x \in sent, t < sa, gwSas'[t].order # NoMessage, x.resp, x.sa = t,
                      x.id = gwSas'[t].order.id
               PROVE  x.body.what = "deleted"
    BY <1>c DEF OldInv
  <2>1. CASE t = s
    <3>1. x.id < gwSas[s].id /\ x.id \in Nat
      BY <2>1, Unanswered
    <3> QED
      BY <2>1, <3>1, <1>t, <1>f
  <2>2. CASE t # s
    BY <2>2, <1>t DEF OldInv
  <2> QED
    BY <2>1, <2>2
<1>10. AuthInv'
  <2>1. gwSas'[1].state = "half" <=> gwSas[1].state = "half"
    BY <1>t, <1>u, Bounds
  <2>2. gwSas'[1].state \notin {"none", "half"} <=> gwSas[1].state \notin {"none", "half"}
    BY <1>t, <1>u, Bounds
  <2>3. gwSas'[1].expect = gwSas[1].expect
    BY <1>e, Bounds
  <2>4. \A r \in gwSent' : r.resp => r \in gwSent
    BY <1>t
  <2> QED
    BY <2>1, <2>2, <2>3, <2>4, <1>c DEF AuthInv, AuthKind
<1> QED
  BY <1>1, <1>2, <1>3, <1>4, <1>5, <1>6, <1>7, <1>8, <1>9, <1>10

\* A response of the client to the request the gateway waits for an answer to.
LEMMA ResponseFacts ==
  ASSUME IInv, GwInv, NEW m \in sent, m.resp, m.sa \in Sas,
         gwSas[m.sa].order # NoMessage, m.id = gwSas[m.sa].order.id
  PROVE  /\ Suits(gwSas[m.sa].order.body, m.body) /\ m.sa <= sa /\ sa \in Sas
         /\ m.sa # sa => m.body.what = "deleted"
         /\ m.sa = sa => Handled(sa)
         /\ m.body.what = "ikeCreated" =>
              /\ m.sa = sa /\ next = sa + 1 /\ m.body.sa = next /\ next \in Sas /\ gwCurrent = sa
              /\ gwSas[next].state = "none"
<1> USE DEF GwInv
<1> DEFINE o == gwSas[m.sa].order
<1>n. /\ sa \in Nat /\ next \in Nat /\ sas \in Nat /\ messageId \in Nat /\ peerMessageId \in Nat
      /\ sa <= sas /\ next <= sas /\ (next # NoSa => sa < next)
  BY DEF IInv, KeyInv, Numeric, SaOrder
<1>f. /\ o \in gwSent /\ gwSas[m.sa].id \in Nat
  BY SaFields
<1>o. ~o.resp /\ o.sa = m.sa /\ o.id + 1 = gwSas[m.sa].id /\ o.id \in Nat
  BY <1>f DEF OrderInv, GwType
<1>m. m.sa <= sa /\ m.id \in Nat /\ (m.sa = sa => m.id < peerMessageId) /\ m.sa \in Nat /\ m.sa # NoSa /\ sa # NoSa
  BY <1>n, Bounds DEF IInv, KeyInv, SentBefore, NoSa
<1>q. sa \in Sas
  BY <1>m, <1>n, Bounds DEF NumberInv, Sas, NoSa
<1>1. Suits(o.body, m.body)
  <2>1. PICK p \in gwSent : ~p.resp /\ p.sa = m.sa /\ p.id = m.id /\ Suits(p.body, m.body)
    BY DEF AnswerInv
  <2>2. p = o
    BY <2>1, <1>f, <1>o DEF OrderInv
  <2> QED
    BY <2>1, <2>2
<1>2. m.sa # sa => m.body.what = "deleted"
  BY <1>m, <1>n DEF OldInv
<1>3. m.sa = sa => Handled(sa)
  BY <1>m, <1>n, <1>o DEF CountInv, Handled
<1>4. ASSUME m.body.what = "ikeCreated"
      PROVE  /\ m.sa = sa /\ next = sa + 1 /\ m.body.sa = next /\ next \in Sas /\ gwCurrent = sa
             /\ gwSas[next].state = "none"
  <2>1. m.sa = sa
    BY <1>2, <1>4
  <2>2. next = sa + 1 /\ m.body.sa = next
    BY <2>1, <1>4 DEF NumberInv
  <2>3. o.body.what = "rekeyIke"
    BY <1>1, <1>4 DEF Suits
  <2>4. gwCurrent = sa
    BY <2>1, <2>3 DEF CurrentInv
  <2>5. next \in Sas
    BY <2>2, <1>n, Bounds DEF NumberInv, Sas, NoSa
  <2>6. gwSas[next].state = "none"
    BY <2>2, <2>4, <1>n DEF NextInv, NoSa
  <2> QED
    BY <2>1, <2>2, <2>4, <2>5, <2>6
<1> QED
  BY <1>1, <1>2, <1>3, <1>4, <1>m, <1>q

\* The records after it.
LEMMA ResponseIs ==
  ASSUME IInv, GwInv, NEW m \in sent, m.resp, m.sa \in Sas,
         gwSas[m.sa].order # NoMessage, m.id = gwSas[m.sa].order.id,
         gwSas' = IF m.body.what = "ikeCreated" THEN [Cleared(m.sa) EXCEPT ![m.body.sa].state = "up"] ELSE Cleared(m.sa)
  PROVE  /\ gwSas' \in [Sas -> GwSa]
         /\ \A t \in Sas : gwSas'[t].expect = gwSas[t].expect /\ gwSas'[t].id = gwSas[t].id
         /\ \A t \in Sas : t # m.sa => gwSas'[t].order = gwSas[t].order
         /\ gwSas'[m.sa].order = NoMessage /\ gwSas'[m.sa].state = Closed(gwSas[m.sa].state)
         /\ \A t \in Sas : t # m.sa /\ gwSas'[t].state # gwSas[t].state =>
              m.body.what = "ikeCreated" /\ t = next /\ gwSas'[t].state = "up"
         /\ m.body.what = "ikeCreated" => gwSas'[next].state = "up"
<1> DEFINE f == Cleared(m.sa)
<1>1. /\ f \in [Sas -> GwSa]
      /\ \A t \in Sas : t # m.sa => f[t] = gwSas[t]
      /\ f[m.sa].expect = gwSas[m.sa].expect /\ f[m.sa].id = gwSas[m.sa].id /\ f[m.sa].order = NoMessage
      /\ f[m.sa].state = Closed(gwSas[m.sa].state)
  BY ClearedIs DEF GwInv
<1>2. m.body.what = "ikeCreated" => m.sa = sa /\ next = sa + 1 /\ m.body.sa = next /\ next \in Sas
  BY ResponseFacts
<1>n. sa \in Nat
  BY DEF IInv, KeyInv, Numeric
<1>g. gwSas' = IF m.body.what = "ikeCreated" THEN [f EXCEPT ![m.body.sa].state = "up"] ELSE f
  OBVIOUS
<1> HIDE DEF f
<1>3. CASE m.body.what = "ikeCreated"
  <2> DEFINE g == [f EXCEPT ![next].state = "up"]
  <2>1. /\ g \in [Sas -> GwSa]
        /\ \A t \in Sas : t # next => g[t] = f[t]
        /\ g[next].expect = f[next].expect /\ g[next].id = f[next].id /\ g[next].order = f[next].order
        /\ g[next].state = "up"
    BY <1>1, <1>2, <1>3, RaisedIs
  <2>2. gwSas' = g
    BY <1>2, <1>3, <1>g
  <2> HIDE DEF g
  <2>3. m.sa # next
    BY <1>2, <1>3, <1>n
  <2> QED
    BY <1>1, <1>2, <1>3, <2>1, <2>2, <2>3
<1>4. CASE m.body.what # "ikeCreated"
  BY <1>1, <1>4, <1>g
<1> QED
  BY <1>3, <1>4

\* The gateway receives it.
LEMMA ResponseGw ==
  ASSUME IInv, GwInv, UNCHANGED vars, NEW m \in sent, m.resp, m.sa \in Sas,
         gwSas[m.sa].order # NoMessage, m.id = gwSas[m.sa].order.id,
         gwSas' = IF m.body.what = "ikeCreated" THEN [Cleared(m.sa) EXCEPT ![m.body.sa].state = "up"] ELSE Cleared(m.sa),
         gwCurrent' = IF m.body.what = "ikeCreated" THEN m.body.sa ELSE gwCurrent,
         UNCHANGED <<gwSpi, gwAlive, gwSent>>
  PROVE  GwInv'
<1> USE DEF GwInv
<1> DEFINE o == gwSas[m.sa].order
<1>c. /\ UNCHANGED <<stage, sa, next, sas, messageId, peerMessageId, lastResponse>>
      /\ UNCHANGED <<children, host, down, spi, left, kid, todo, task, wait, outcome, sent>>
  BY ClientSame
<1>n. /\ sa \in Nat /\ next \in Nat /\ sas \in Nat /\ messageId \in Nat /\ peerMessageId \in Nat
      /\ sa <= sas /\ next <= sas /\ (next # NoSa => sa < next)
  BY DEF IInv, KeyInv, Numeric, SaOrder
<1>m. /\ Suits(o.body, m.body) /\ m.sa <= sa /\ sa \in Sas
      /\ m.sa # sa => m.body.what = "deleted"
      /\ m.sa = sa => Handled(sa)
      /\ m.body.what = "ikeCreated" =>
           /\ m.sa = sa /\ next = sa + 1 /\ m.body.sa = next /\ next \in Sas /\ gwCurrent = sa
           /\ gwSas[next].state = "none"
  BY ResponseFacts
<1>t. /\ gwSas' \in [Sas -> GwSa]
      /\ \A t \in Sas : gwSas'[t].expect = gwSas[t].expect /\ gwSas'[t].id = gwSas[t].id
      /\ \A t \in Sas : t # m.sa => gwSas'[t].order = gwSas[t].order
      /\ gwSas'[m.sa].order = NoMessage /\ gwSas'[m.sa].state = Closed(gwSas[m.sa].state)
      /\ \A t \in Sas : t # m.sa /\ gwSas'[t].state # gwSas[t].state =>
           m.body.what = "ikeCreated" /\ t = next /\ gwSas'[t].state = "up"
      /\ m.body.what = "ikeCreated" => gwSas'[next].state = "up"
  BY ResponseIs
<1>f. \A t \in Sas : /\ gwSas[t].state \in SaStates /\ gwSas[t].expect \in Nat /\ gwSas[t].id \in Nat
                     /\ gwSas[t].order \in gwSent \cup {NoMessage}
  BY SaFields
<1>o. gwSas[m.sa].state \notin {"none", "half"} /\ gwSas'[m.sa].state \notin {"none", "half"}
  BY <1>t DEF OrderInv, Closed
<1>w. \A t \in Sas : gwSas'[t].state \in {"none", "half"} => gwSas'[t].state = gwSas[t].state
  BY <1>o, <1>t
<1>1. GwType'
  <2>1. gwCurrent' \in 0 .. MaxSas
    BY <1>m DEF GwType, Sas
  <2> QED
    BY <2>1, <1>t DEF GwType, GwSa
<1>2. ReplyInv'
  <2>1. \A x \in gwSent : x.sa # NoSa => x.sa \in Sas
    BY DEF GwType, Sas, NoSa
  <2> QED
    BY <2>1, <1>c, <1>t DEF ReplyInv, Fits
<1>3. OrderInv'
  <2>1. \A x \in gwSent : ~x.resp => x.sa \in Sas /\ x.id < gwSas'[x.sa].id
    BY <1>t DEF OrderInv
  <2>2. \A t \in Sas : gwSas'[t].order # NoMessage =>
          ~gwSas'[t].order.resp /\ gwSas'[t].order.sa = t /\ gwSas'[t].order.id + 1 = gwSas'[t].id
    BY <1>t DEF OrderInv
  <2>3. \A t \in Sas : gwSas'[t].state \in {"none", "half"} => gwSas'[t].id = 0 /\ gwSas'[t].order = NoMessage
    BY <1>w, <1>o, <1>t DEF OrderInv
  <2> QED
    BY <2>1, <2>2, <2>3, <1>c DEF OrderInv, IsOrder
<1>4. AnswerInv'
  BY <1>c DEF AnswerInv
<1>5. NumberInv'
  BY <1>c DEF NumberInv
<1>6. CountInv'
  <2>1. gwSas'[sa].state # "none" /\ gwSas'[sa].expect <= messageId
    BY <1>m, <1>o, <1>t, <1>w, <1>n, Bounds DEF CountInv
  <2>2. gwSas'[sa].order = NoMessage => gwSas'[sa].id = peerMessageId
    BY <1>m, <1>t, Bounds DEF CountInv, Handled
  <2>3. gwSas'[sa].order # NoMessage => gwSas'[sa].id \in {peerMessageId, peerMessageId + 1}
    BY <1>m, <1>t, Bounds DEF CountInv
  <2> QED
    BY <2>1, <2>2, <2>3, <1>c DEF CountInv
<1>7. NextInv'
  <2> SUFFICES ASSUME next # NoSa PROVE NextInv'
    BY <1>c DEF NextInv
  <2>q. next \in Sas /\ m.sa # next
    BY <1>m, <1>n, Bounds DEF NumberInv, Sas, NoSa
  <2>1. /\ gwSas'[next].expect = 0
        /\ gwSas'[next].order = NoMessage => gwSas'[next].id = 0
        /\ gwSas'[next].order # NoMessage => gwSas'[next].id = 1
    BY <2>q, <1>t DEF NextInv
  <2>2. CASE m.body.what = "ikeCreated"
    BY <2>1, <2>2, <1>m, <1>t, <1>c DEF NextInv
  <2>3. CASE m.body.what # "ikeCreated"
    <3>1. gwCurrent' = gwCurrent /\ gwSas'[next].state = gwSas[next].state
      BY <2>3, <2>q, <1>t
    <3>2. o.body.what # "rekeyIke"
      BY <2>3, <1>m DEF Suits
    <3>3. CASE m.sa = sa
      BY <2>1, <3>1, <3>2, <3>3, <1>c DEF NextInv
    <3>4. CASE m.sa # sa
      <4>1. gwSas'[sa].order = gwSas[sa].order /\ gwSas'[sa].id = gwSas[sa].id
        BY <3>4, <1>m, <1>t
      <4> QED
        BY <2>1, <3>1, <4>1, <1>c DEF NextInv, Handled
    <3> QED
      BY <3>3, <3>4
  <2> QED
    BY <2>2, <2>3
<1>8. CurrentInv'
  <2>0. m.body.what = "ikeCreated" => next # NoSa
    BY <1>m, <1>n DEF NoSa
  <2>1. gwCurrent' \in {NoSa, sa, next} /\ (sa > 1 => gwCurrent' # NoSa)
    BY <1>m, <2>0 DEF CurrentInv
  <2>2. gwSas'[1].state \in {"none", "half"} => gwCurrent' = NoSa
    <3>1. gwSas'[1].state \in {"none", "half"} => gwCurrent = NoSa
      BY <1>w, Bounds DEF CurrentInv
    <3> QED
      BY <3>1, <1>m, Bounds
  <2>3. \A t \in Sas : t > sas /\ t > 1 => gwSas'[t].state = "none"
    <3> SUFFICES ASSUME NEW t \in Sas, t > sas, t > 1 PROVE gwSas'[t].state = "none"
      OBVIOUS
    <3>1. t # m.sa /\ t # next
      BY <1>m, <1>n, Bounds
    <3> QED
      BY <3>1, <1>t DEF CurrentInv
  <2>4. \A t \in Sas : gwSas'[t].state = "half" => t = 1
    BY <1>w DEF CurrentInv
  <2>5. \A t \in Sas : gwSas'[t].state = "none" => gwSas'[t].expect = 0
    BY <1>w, <1>t DEF CurrentInv
  <2>6. \A t \in Sas : gwSas'[t].order # NoMessage /\ gwSas'[t].order.body.what = "rekeyIke" => gwCurrent' = t
    <3> SUFFICES ASSUME NEW t \in Sas, gwSas'[t].order # NoMessage, gwSas'[t].order.body.what = "rekeyIke"
                 PROVE  gwCurrent' = t
      OBVIOUS
    <3>1. t # m.sa /\ gwCurrent = t
      BY <1>t DEF CurrentInv
    <3> QED
      BY <3>1, <1>m
  <2>7. (\E x \in gwSent : x.resp /\ x.body.what = "accepted") => gwSas'[1].state # "none"
    BY <1>w, Bounds DEF CurrentInv
  <2> QED
    BY <2>1, <2>2, <2>3, <2>4, <2>5, <2>6, <2>7, <1>c, <1>m, Bounds DEF CurrentInv
<1>9. OldInv'
  BY <1>c, <1>t DEF OldInv
<1>10. AuthInv'
  <2>1. gwSas'[1].expect = gwSas[1].expect
    BY <1>t, Bounds
  <2>2. gwSas'[1].state \notin {"none", "half"} => gwSas[1].state \notin {"none", "half"}
    <3>1. CASE m.sa = 1
      BY <3>1, <1>o
    <3>2. CASE m.sa # 1
      BY <3>2, <1>t, <1>m, <1>n, Bounds
    <3> QED
      BY <3>1, <3>2
  <2>3. gwSas[1].state = "half" => gwSas'[1].state = "half"
    BY <1>t, <1>o, <1>m, <1>n, Bounds
  <2> QED
    BY <2>1, <2>2, <2>3, <1>c DEF AuthInv, AuthKind
<1> QED
  BY <1>1, <1>2, <1>3, <1>4, <1>5, <1>6, <1>7, <1>8, <1>9, <1>10

\* The gateway answers an attempt at IKE_SA_INIT.
LEMMA InitGw ==
  ASSUME IInv, KindInv, GwInv, UNCHANGED vars, NEW m \in sent, m.body.what = "init", gwSas[1].state = "none",
         UNCHANGED <<gwCurrent, gwSpi, gwAlive>>, NEW b, Reply(m, b), b.what \in {"redirected", "refused", "accepted"},
         \/ b.what # "accepted" /\ UNCHANGED gwSas
         \/ gwSas' = [gwSas EXCEPT ![1].state = "half", ![1].expect = 1]
  PROVE  GwInv'
<1> USE DEF GwInv
<1> DEFINE r == Message(m.sa, m.id, TRUE, b)
<1>c. /\ UNCHANGED <<stage, sa, next, sas, messageId, peerMessageId, lastResponse>>
      /\ UNCHANGED <<children, host, down, spi, left, kid, todo, task, wait, outcome, sent>>
  BY ClientSame
<1>r. r.sa = m.sa /\ r.id = m.id /\ r.resp /\ r.resp \in BOOLEAN /\ r.body = b
  BY DEF Message
<1>s. gwSent' = gwSent \cup {r}
  BY DEF Reply
<1> HIDE DEF r
<1>m. m.sa = NoSa /\ m.id \in Nat
  BY DEF KindInv, IInv, KeyInv, SentBefore
<1>n. /\ sa \in Nat /\ next \in Nat /\ sas \in Nat /\ messageId \in Nat /\ peerMessageId \in Nat
      /\ sa <= sas /\ next <= sas /\ (next # NoSa => sa < next)
  BY DEF IInv, KeyInv, Numeric, SaOrder
<1>f. \A t \in Sas : /\ gwSas[t].state \in SaStates /\ gwSas[t].expect \in Nat /\ gwSas[t].id \in Nat
                     /\ gwSas[t].order \in gwSent \cup {NoMessage}
  BY SaFields
<1>z. sa = NoSa /\ next = NoSa /\ gwCurrent = NoSa
  <2>1. gwCurrent = NoSa
    BY DEF CurrentInv
  <2>2. ~(sa > 1)
    BY <2>1 DEF CurrentInv
  <2>3. sa # 1
    BY DEF CountInv, NoSa
  <2> QED
    BY <2>1, <2>2, <2>3, <1>n DEF NumberInv, NoSa
<1>h. gwSas[1].id = 0 /\ gwSas[1].order = NoMessage /\ gwSas[1].expect = 0
  BY Bounds DEF OrderInv, CurrentInv
<1>t. /\ gwSas' \in [Sas -> [state : SaStates, expect : Nat, id : Nat, order : gwSent' \cup {NoMessage}]]
      /\ \A t \in Sas : t # 1 => gwSas'[t] = gwSas[t]
      /\ gwSas'[1].id = 0 /\ gwSas'[1].order = NoMessage /\ gwSas'[1].state \in {"none", "half"}
      /\ gwSas'[1].expect \in {0, 1} /\ (gwSas'[1].state = "none" => gwSas'[1].expect = 0 /\ b.what # "accepted")
  <2>1. CASE UNCHANGED gwSas /\ b.what # "accepted"
    BY <2>1, <1>h, <1>s DEF GwType, GwSa
  <2>2. CASE gwSas' = [gwSas EXCEPT ![1].state = "half", ![1].expect = 1]
    BY <2>2, <1>h, <1>s, HalfIs
  <2> QED
    BY <2>1, <2>2
<1>1. GwType'
  <2>1. r.sa \in 0 .. MaxSas /\ r.id \in Nat
    BY <1>r, <1>m, Bounds DEF NoSa
  <2> QED
    BY <1>r, <1>s, <1>t, <2>1, SasTyped DEF GwType
<1>x. \A x \in gwSent : x.resp => x.sa = NoSa
  BY <1>z, <1>n DEF ReplyInv, IInv, KeyInv, SentBefore, NoSa
<1>2. ReplyInv'
  BY <1>x, <1>s, <1>r, <1>m DEF ReplyInv
<1>3. OrderInv'
  <2>1. \A x \in gwSent' : ~x.resp => x \in gwSent
    BY <1>s, <1>r
  <2>2. \A t \in Sas : gwSas'[t].id = gwSas[t].id /\ gwSas'[t].order = gwSas[t].order
    BY <1>t, <1>h
  <2>3. \A t \in Sas : gwSas'[t].state \in {"none", "half"} => gwSas'[t].id = 0 /\ gwSas'[t].order = NoMessage
    BY <1>t DEF OrderInv
  <2> QED
    BY <2>1, <2>2, <2>3, <1>c DEF OrderInv, IsOrder
<1>4. AnswerInv'
  BY <1>c, <1>s DEF AnswerInv
<1>5. NumberInv' /\ CountInv' /\ NextInv'
  BY <1>c, <1>z DEF NumberInv, CountInv, NextInv
<1>8. CurrentInv'
  <2>1. \A t \in Sas : t > sas /\ t > 1 => gwSas'[t].state = "none"
    BY <1>t DEF CurrentInv
  <2>2. \A t \in Sas : gwSas'[t].state = "half" => t = 1
    BY <1>t DEF CurrentInv
  <2>3. \A t \in Sas : gwSas'[t].state = "none" => gwSas'[t].expect = 0
    BY <1>t DEF CurrentInv
  <2>4. \A t \in Sas : gwSas'[t].order # NoMessage /\ gwSas'[t].order.body.what = "rekeyIke" => gwCurrent = t
    BY <1>t DEF CurrentInv
  <2>5. (\E x \in gwSent' : x.resp /\ x.body.what = "accepted") => gwSas'[1].state # "none"
    <3>1. ~\E x \in gwSent : x.resp /\ x.body.what = "accepted"
      BY DEF CurrentInv
    <3> QED
      BY <3>1, <1>s, <1>r, <1>t
  <2> QED
    BY <2>1, <2>2, <2>3, <2>4, <2>5, <1>c, <1>z, <1>t, <1>n DEF CurrentInv, NoSa
<1>9. OldInv'
  BY <1>c, <1>z, Bounds DEF OldInv, NoSa
<1>10. AuthInv'
  <2>1. \A q \in sent : q.sa # 1
    BY <1>z DEF IInv, KeyInv, SentBefore, NoSa
  <2>2. \A q \in sent : ~AuthKind(q)
    BY <2>1 DEF AuthInv
  <2>3. \A x \in gwSent' : x.resp => x.body.what \notin {"eapRequest", "eapSuccess"}
    BY <1>x, <1>s, <1>r DEF AuthInv, NoSa
  <2> QED
    BY <2>2, <2>3, <1>c, <1>t DEF AuthInv, AuthKind
<1> QED
  BY <1>1, <1>2, <1>3, <1>4, <1>5, <1>8, <1>9, <1>10

\* The networks of the first CHILD SA.
LEMMA FirstNetsIs == FirstNets \in SUBSET Networks
<1>1. Wanted \in Seq(Networks)
  BY WantedAssumption
<1>2. Wanted # <<>> => Head(Wanted) \in Networks
  BY <1>1
<1> QED
  BY <1>2 DEF FirstNets

\* Only the first IKE SA, half open, gets requests of IKE_AUTH.
LEMMA AuthIsHalf ==
  ASSUME GwInv, NEW m \in sent, Expected(m), m.body.what \in {"auth", "eap", "final"}
  PROVE  m.sa = 1 /\ gwSas[1].state = "half" /\ gwCurrent = NoSa
<1>1. AuthKind(m)
  BY DEF Expected, AuthKind
<1>2. m.sa = 1
  BY <1>1 DEF GwInv, AuthInv
<1>3. m.id = gwSas[1].expect /\ gwSas[1].state # "none" /\ gwSas[1].expect \in Nat
  BY <1>2, Bounds, SaFields DEF Expected, GwInv
<1>4. ~(m.id < gwSas[1].expect)
  BY <1>3
<1>5. gwSas[1].state = "half"
  BY <1>1, <1>3, <1>4 DEF GwInv, AuthInv
<1> QED
  BY <1>2, <1>5 DEF GwInv, CurrentInv

\* The gateway's steps.
LEMMA GatewayGw ==
  ASSUME IInv, CliInv, GwInv, KidType, Gateway
  PROVE  GwInv'
<1> USE DEF CliInv
<1>v. UNCHANGED vars
  BY DEF Gateway
<1>g. gwSpi \in Nat /\ gwSpi + 1 \in Nat /\ gwSpi + 1 >= gwSpi /\ gwSpi >= gwSpi
  BY DEF GwInv, GwType
<1>st. {"half", "up", "closing", "gone"} \subseteq SaStates \ {"none"}
  BY DEF SaStates
<1>1. CASE GwOnInit
  <2>1. PICK m \in sent :
          /\ m.body.what = "init" /\ gwSas[1].state = "none" /\ UNCHANGED <<gwCurrent, gwSpi, gwAlive>>
          /\ \/ Reply(m, [what |-> "redirected", of |-> m.body.left]) /\ UNCHANGED gwSas
             \/ Reply(m, Body("refused")) /\ UNCHANGED gwSas
             \/ Reply(m, Body("accepted")) /\ gwSas' = [gwSas EXCEPT ![1].state = "half", ![1].expect = 1]
    BY <1>1 DEF GwOnInit
  <2>2. CASE Reply(m, [what |-> "redirected", of |-> m.body.left]) /\ UNCHANGED gwSas
    <3> DEFINE b == [what |-> "redirected", of |-> m.body.left]
    <3>1. b.what = "redirected" /\ Reply(m, b)
      BY <2>2
    <3> HIDE DEF b
    <3> QED
      BY <2>1, <2>2, <3>1, <1>v, InitGw
  <2>3. CASE Reply(m, Body("refused")) /\ UNCHANGED gwSas
    <3> DEFINE b == Body("refused")
    <3>1. b.what = "refused" /\ Reply(m, b)
      BY <2>3 DEF Body
    <3> HIDE DEF b
    <3> QED
      BY <2>1, <2>3, <3>1, <1>v, InitGw
  <2>4. CASE Reply(m, Body("accepted")) /\ gwSas' = [gwSas EXCEPT ![1].state = "half", ![1].expect = 1]
    <3> DEFINE b == Body("accepted")
    <3>1. b.what = "accepted" /\ Reply(m, b)
      BY <2>4 DEF Body
    <3> HIDE DEF b
    <3> QED
      BY <2>1, <2>4, <3>1, <1>v, InitGw
  <2> QED
    BY <2>1, <2>2, <2>3, <2>4
<1>2. CASE GwOnAuth
  <2>1. PICK m \in sent :
          /\ Expected(m) /\ m.body.what \in {"auth", "eap", "final"} /\ UNCHANGED gwAlive
          /\ \/ Reply(m, Body("refused")) /\ Taken(m, "gone") /\ UNCHANGED <<gwCurrent, gwSpi>>
             \/ /\ Reply(m, Body("eapRequest")) \/ Reply(m, Body("eapSuccess"))
                /\ Taken(m, "half") /\ UNCHANGED <<gwCurrent, gwSpi>>
             \/ /\ Taken(m, "up") /\ gwCurrent' = 1
                /\ \/ Reply(m, Body("authOnly")) /\ UNCHANGED gwSpi
                   \/ \E nets \in SUBSET FirstNets :
                        /\ Reply(m, [what |-> "created", out |-> gwSpi + 1, nets |-> nets])
                        /\ gwSpi' = gwSpi + 1
    BY <1>2 DEF GwOnAuth
  <2>h. m.sa = 1 /\ gwSas[m.sa].state = "half" /\ AuthKind(m)
    BY <2>1, AuthIsHalf DEF AuthKind, Expected
  <2>2. ASSUME NEW w \in {"refused", "eapRequest", "eapSuccess", "authOnly"}, Reply(m, Body(w)), UNCHANGED gwSpi,
               NEW st \in {"gone", "half", "up"}, Taken(m, st), gwCurrent' = gwCurrent \/ (st = "up" /\ gwCurrent' = 1),
               w \in {"eapRequest", "eapSuccess"} => st = "half"
        PROVE  GwInv'
    <3> DEFINE b == Body(w)
    <3>1. b.what = w /\ Reply(m, b)
      BY <2>2 DEF Body
    <3> HIDE DEF b
    <3>2. Fits(m.body, b)'
      BY <1>v, <2>1, <2>2, <3>1 DEF Fits
    <3> QED
      BY <1>v, <1>g, <1>st, <2>1, <2>h, <2>2, <3>1, <3>2, AnsweredGw
  <2>3. ASSUME NEW nets \in SUBSET FirstNets, Reply(m, [what |-> "created", out |-> gwSpi + 1, nets |-> nets]),
               gwSpi' = gwSpi + 1, Taken(m, "up"), gwCurrent' = 1
        PROVE  GwInv'
    <3>0. PICK b : b = [what |-> "created", out |-> gwSpi + 1, nets |-> nets]
      OBVIOUS
    <3>1. b.what = "created" /\ b.out = gwSpi + 1 /\ b.nets \subseteq FirstNets /\ Reply(m, b)
      BY <2>3, <3>0
    <3>2. Fits(m.body, b)'
      BY <1>v, <1>g, <2>1, <2>3, <3>1 DEF Fits
    <3> QED
      BY <1>v, <1>g, <1>st, <2>1, <2>h, <2>3, <3>1, <3>2, AnsweredGw
  <2> QED
    BY <2>1, <2>2, <2>3
<1>3. CASE GwOnChild
  <2>1. PICK m \in sent :
          /\ Expected(m) /\ m.body.what = "child" /\ Taken(m, gwSas[m.sa].state) /\ UNCHANGED <<gwCurrent, gwAlive>>
          /\ \/ Reply(m, Body("refused")) /\ UNCHANGED gwSpi
             \/ Reply(m, Body("redirected")) /\ UNCHANGED gwSpi
             \/ Reply(m, Body("notFound")) /\ UNCHANGED gwSpi
             \/ \E nets \in SUBSET m.body.nets :
                  /\ gwSpi' = gwSpi + 1
                  /\ Reply(m, [what |-> "created", out |-> gwSpi + 1, nets |-> nets])
    BY <1>3 DEF GwOnChild
  <2>s. gwSas[m.sa].state \in SaStates \ {"none"}
    BY <2>1, <1>st DEF Expected
  <2>2. ASSUME NEW w \in {"refused", "redirected", "notFound"}, Reply(m, Body(w)), UNCHANGED gwSpi PROVE GwInv'
    <3> DEFINE b == Body(w)
    <3>1. b.what = w /\ Reply(m, b)
      BY <2>2 DEF Body
    <3> HIDE DEF b
    <3>2. Fits(m.body, b)'
      BY <1>v, <2>1, <2>2, <3>1 DEF Fits
    <3> QED
      BY <1>v, <1>g, <2>s, <2>1, <2>2, <3>1, <3>2, AnsweredGw
  <2>3. ASSUME NEW nets \in SUBSET m.body.nets, Reply(m, [what |-> "created", out |-> gwSpi + 1, nets |-> nets]),
               gwSpi' = gwSpi + 1
        PROVE  GwInv'
    <3>0. PICK b : b = [what |-> "created", out |-> gwSpi + 1, nets |-> nets]
      OBVIOUS
    <3>1. b.what = "created" /\ b.out = gwSpi + 1 /\ b.nets \subseteq m.body.nets /\ Reply(m, b)
      BY <2>3, <3>0
    <3>2. Fits(m.body, b)'
      BY <1>v, <1>g, <2>1, <2>3, <3>1 DEF Fits
    <3> QED
      BY <1>v, <1>g, <2>s, <2>1, <2>3, <3>1, <3>2, AnsweredGw
  <2> QED
    BY <2>1, <2>2, <2>3
<1>4. CASE GwOnInformational
  <2>1. PICK m \in sent :
          /\ Expected(m) /\ m.body.what \in {"dpd", "deleteChild", "deleteIke"} /\ Reply(m, Body("done"))
          /\ Taken(m, IF m.body.what = "deleteIke" THEN "gone" ELSE gwSas[m.sa].state)
          /\ UNCHANGED <<gwCurrent, gwSpi, gwAlive>>
    BY <1>4 DEF GwOnInformational
  <2> DEFINE st == IF m.body.what = "deleteIke" THEN "gone" ELSE gwSas[m.sa].state
             b == Body("done")
  <2>2. st \in SaStates \ {"none"} /\ Taken(m, st) /\ (st = "half" => gwSas[m.sa].state = "half")
    BY <2>1, <1>st DEF Expected
  <2>3. b.what = "done" /\ Reply(m, b)
    BY <2>1 DEF Body
  <2> HIDE DEF st, b
  <2>4. Fits(m.body, b)'
    BY <1>v, <2>1, <2>3 DEF Fits
  <2> QED
    BY <1>v, <1>g, <2>1, <2>2, <2>3, <2>4, AnsweredGw
<1>5. ASSUME NEW s \in Sas, NEW ike \in BOOLEAN, NEW outs, outs \subseteq 1 .. gwSpi, ike => outs = {},
             NEW st \in {"up", "closing"}, Order(s, Info(ike, outs), st), UNCHANGED gwSpi
      PROVE  GwInv'
  <2> DEFINE b == Info(ike, outs)
  <2>1. b.what = "info" /\ b.ike = ike /\ b.esp = (outs # {}) /\ b.outs = outs /\ Order(s, b, st)
    BY <1>5 DEF Info
  <2> HIDE DEF b
  <2>2. IsOrder(b)'
    BY <1>5, <2>1 DEF IsOrder
  <2> QED
    BY <1>v, <1>g, <1>5, <2>1, <2>2, OrderedGw
<1>6. ASSUME NEW s \in Sas, NEW w \in {"other", "rekeyIke"}, Order(s, Body(w), "up"), UNCHANGED gwSpi,
             w = "rekeyIke" => s < MaxSas /\ host /\ gwCurrent = s
      PROVE  GwInv'
  <2> DEFINE b == Body(w)
  <2>1. b.what = w /\ Order(s, b, "up")
    BY <1>6 DEF Body
  <2> HIDE DEF b
  <2>2. IsOrder(b)'
    BY <1>6, <2>1 DEF IsOrder
  <2> QED
    BY <1>v, <1>g, <1>6, <2>1, <2>2, OrderedGw
<1>7. CASE GwProbe
  <2>1. PICK s \in Sas : Order(s, Info(FALSE, {}), "up") /\ UNCHANGED gwSpi
    BY <1>7 DEF GwProbe
  <2> DEFINE no == FALSE
             none == {}
  <2>2. no \in BOOLEAN /\ ~no /\ none \subseteq 1 .. gwSpi /\ Order(s, Info(no, none), "up")
    BY <2>1
  <2> HIDE DEF no, none
  <2> QED
    BY <2>1, <2>2, <1>5
<1>8. CASE GwAdditional
  BY <1>6, <1>8 DEF GwAdditional
<1>q. gwCurrent # NoSa => gwCurrent \in Sas
  BY DEF GwInv, GwType, Sas, NoSa
<1>r. CASE GwDeleteChild
  <2>1. PICK s \in Sas, c \in gwKids : Order(s, Info(FALSE, {c.out}), "up") /\ UNCHANGED gwSpi
    BY <1>r DEF GwDeleteChild
  <2>2. PICK no \in BOOLEAN, outs \in {{c.out}} : ~no /\ Order(s, Info(no, outs), "up")
    BY <2>1
  <2>3. outs \subseteq 1 .. gwSpi
    BY <2>2 DEF KidType
  <2> QED
    BY <2>1, <2>2, <2>3, <1>5
<1>9. CASE GwRekeyChild
  <2>1. PICK c \in gwKids :
          /\ gwCurrent # NoSa /\ gwSpi' = gwSpi + 1
          /\ Order(gwCurrent, [what |-> "rekeyChild", old |-> c.out, out |-> gwSpi + 1, nets |-> c.nets], "up")
    BY <1>9 DEF GwRekeyChild
  <2>2. PICK b : b = [what |-> "rekeyChild", old |-> c.out, out |-> gwSpi + 1, nets |-> c.nets]
    OBVIOUS
  <2>3. b.what = "rekeyChild" /\ b.out = gwSpi + 1 /\ b.nets = c.nets
    BY <2>2
  <2>4. IsOrder(b)'
    BY <1>g, <2>1, <2>3 DEF IsOrder, KidType
  <2>5. PICK s \in Sas : s = gwCurrent
    BY <2>1, <1>q
  <2> QED
    BY <1>v, <1>g, <2>1, <2>2, <2>3, <2>4, <2>5, OrderedGw
<1>10. CASE GwRekeyIke
  <2>1. PICK s \in Sas : s = gwCurrent
    BY <1>10, <1>q DEF GwRekeyIke
  <2> QED
    BY <1>6, <1>10, <2>1 DEF GwRekeyIke
<1>11. CASE GwDeleteIke
  <2>1. PICK s \in Sas : Order(s, Info(TRUE, {}), "closing") /\ UNCHANGED gwSpi
    BY <1>11 DEF GwDeleteIke
  <2> DEFINE yes == TRUE
             none == {}
  <2>2. yes \in BOOLEAN /\ none = {} /\ none \subseteq 1 .. gwSpi /\ Order(s, Info(yes, none), "closing")
    BY <2>1
  <2> HIDE DEF yes, none
  <2> QED
    BY <2>1, <2>2, <1>5
<1>12. CASE GwOnResponse
  <2>1. PICK m \in sent :
          /\ m.resp /\ m.sa \in Sas /\ gwSas[m.sa].order # NoMessage /\ m.id = gwSas[m.sa].order.id
          /\ gwSas' = IF m.body.what = "ikeCreated" THEN [Cleared(m.sa) EXCEPT ![m.body.sa].state = "up"]
                      ELSE Cleared(m.sa)
          /\ gwCurrent' = IF m.body.what = "ikeCreated" THEN m.body.sa ELSE gwCurrent
          /\ UNCHANGED <<gwSpi, gwAlive, gwSent>>
    BY <1>12 DEF GwOnResponse, Cleared
  <2> QED
    BY <1>v, <2>1, ResponseGw
<1>13. CASE GwCrash
  <2>1. UNCHANGED <<gwSas, gwCurrent, gwSpi, gwSent>> /\ gwAlive' \in BOOLEAN
    BY <1>13 DEF GwCrash
  <2>2. GwType' /\ OrderInv' /\ ReplyInv'
    BY <1>v, <2>1, ClientSame DEF GwInv, GwType, GwSa, OrderInv, IsOrder, ReplyInv, Fits
  <2>3. AnswerInv' /\ NumberInv' /\ CountInv' /\ NextInv' /\ CurrentInv' /\ OldInv' /\ AuthInv'
    BY <1>v, <2>1, ClientSame DEF GwInv, AnswerInv, NumberInv, CountInv, NextInv, CurrentInv, OldInv, AuthInv, Handled, AuthKind
  <2> QED
    BY <2>2, <2>3 DEF GwInv
<1> QED
  BY <1>1, <1>2, <1>3, <1>4, <1>7, <1>8, <1>r, <1>9, <1>10, <1>11, <1>12, <1>13 DEF Gateway

\* The gateway's CHILD SAs keep their types.
LEMMA GatewayKids ==
  ASSUME IInv, CliInv, GwInv, KidType, Gateway
  PROVE  KidType'
<1> USE DEF CliInv
<1>g. gwSpi \in Nat /\ gwSpi + 1 \in Nat
  BY DEF GwInv, GwType
<1>1. CASE gwKids' \subseteq gwKids /\ gwSpi' \in {gwSpi, gwSpi + 1}
  BY <1>1, <1>g DEF KidType
<1>2. ASSUME NEW c, gwKids' \subseteq gwKids \cup {c}, gwSpi' = gwSpi + 1, c.out = gwSpi + 1, c.nets \in SUBSET Networks
      PROVE  KidType'
  BY <1>2, <1>g DEF KidType
<1>3. CASE GwOnAuth
  <2>1. \/ UNCHANGED <<gwKids, gwSpi>>
        \/ \E nets \in SUBSET FirstNets :
             gwSpi' = gwSpi + 1 /\ gwKids' = {[in |-> 1, out |-> gwSpi + 1, nets |-> nets]}
    BY <1>3 DEF GwOnAuth
  <2>2. ASSUME NEW nets \in SUBSET FirstNets,
               gwSpi' = gwSpi + 1, gwKids' = {[in |-> 1, out |-> gwSpi + 1, nets |-> nets]}
        PROVE  KidType'
    <3>1. PICK c : c = [in |-> 1, out |-> gwSpi + 1, nets |-> nets]
      OBVIOUS
    <3>2. c.out = gwSpi + 1 /\ c.nets \in SUBSET Networks /\ gwKids' = {c}
      BY <2>2, <3>1, FirstNetsIs
    <3> QED
      BY <1>2, <2>2, <3>2
  <2> QED
    BY <1>1, <2>1, <2>2
<1>4. CASE GwOnChild
  <2>1. PICK m \in sent :
          /\ Expected(m) /\ m.body.what = "child"
          /\ \/ UNCHANGED <<gwKids, gwSpi>>
             \/ \E nets \in SUBSET m.body.nets :
                  /\ gwSpi' = gwSpi + 1
                  /\ gwKids' = gwKids \cup {[in |-> m.body.in, out |-> gwSpi + 1, nets |-> nets]}
    BY <1>4 DEF GwOnChild
  <2>2. m.body.nets \in SUBSET Networks
    BY <2>1 DEF KindInv, Expected
  <2>3. ASSUME NEW nets \in SUBSET m.body.nets,
               gwSpi' = gwSpi + 1, gwKids' = gwKids \cup {[in |-> m.body.in, out |-> gwSpi + 1, nets |-> nets]}
        PROVE  KidType'
    <3>1. PICK c : c = [in |-> m.body.in, out |-> gwSpi + 1, nets |-> nets]
      OBVIOUS
    <3>2. c.out = gwSpi + 1 /\ c.nets \in SUBSET Networks /\ gwKids' = gwKids \cup {c}
      BY <2>2, <2>3, <3>1
    <3> QED
      BY <1>2, <2>3, <3>2
  <2> QED
    BY <1>1, <2>1, <2>3
<1>5. CASE GwOnResponse
  <2>1. PICK m \in sent :
          /\ m.resp /\ m.sa \in Sas /\ gwSas[m.sa].order # NoMessage /\ m.id = gwSas[m.sa].order.id
          /\ gwKids' \subseteq gwKids \cup (IF m.body.what = "childCreated"
               THEN {[in |-> m.body.in, out |-> gwSas[m.sa].order.body.out, nets |-> gwSas[m.sa].order.body.nets]}
               ELSE {})
          /\ UNCHANGED gwSpi
    BY <1>5 DEF GwOnResponse
  <2>2. CASE m.body.what # "childCreated"
    BY <1>1, <2>1, <2>2
  <2>3. CASE m.body.what = "childCreated"
    <3> DEFINE o == gwSas[m.sa].order
               c == [in |-> m.body.in, out |-> o.body.out, nets |-> o.body.nets]
    <3>1. Suits(o.body, m.body)
      BY <2>1, ResponseFacts
    <3>2. o \in gwSent /\ ~o.resp /\ o.body.what = "rekeyChild"
      BY <2>1, <2>3, <3>1, SaFields DEF Suits, GwInv, OrderInv
    <3>3. IsOrder(o.body)
      BY <3>2 DEF GwInv, OrderInv
    <3>4. c.out \in 1 .. gwSpi /\ c.nets \in SUBSET Networks
      BY <3>2, <3>3 DEF IsOrder
    <3>5. gwKids' \subseteq gwKids \cup {c}
      BY <2>1, <2>3
    <3> HIDE DEF c
    <3> QED
      BY <2>1, <3>4, <3>5 DEF KidType
  <2> QED
    BY <2>2, <2>3
<1>6. CASE GwOnInformational
  <2>1. gwKids' \subseteq gwKids /\ UNCHANGED gwSpi
    BY <1>6 DEF GwOnInformational
  <2> QED
    BY <1>1, <2>1
<1>7. CASE GwOnInit \/ GwProbe \/ GwAdditional \/ GwDeleteChild \/ GwRekeyChild \/ GwRekeyIke \/ GwDeleteIke \/ GwCrash
  <2>1. gwKids' \subseteq gwKids /\ gwSpi' \in {gwSpi, gwSpi + 1}
    BY <1>7 DEF GwOnInit, GwProbe, GwAdditional, GwDeleteChild, GwRekeyChild, GwRekeyIke, GwDeleteIke, GwCrash
  <2> QED
    BY <1>1, <2>1
<1> QED
  BY <1>3, <1>4, <1>5, <1>6, <1>7 DEF Gateway

-----------------------------------------------------------------------------
(* The client's steps keep the invariant of the messages.                  *)

Ending == host \/ task \in {"close", "done"}
Onwards == Ending => Ending'

\* The gateway's variables by themselves.
LEMMA GatewaySame == ASSUME UNCHANGED gwVars PROVE UNCHANGED <<gwSas, gwCurrent, gwKids, gwSpi, gwAlive, gwSent>>
BY DEF gwVars

\* A step in which the client sends nothing or a request of its own.
LEMMA QuietGw ==
  ASSUME IInv, GwInv, UNCHANGED gwVars, UNCHANGED <<sa, next, sas, peerMessageId>>, Onwards,
         messageId' \in Nat, sa # NoSa => messageId' >= messageId,
         NEW n, sent' = sent \/ sent' = sent \cup {n}, ~n.resp, n.sa = sa, sa # NoSa => n.id = messageId,
         AuthKind(n) => sa = 1 /\ gwSas[1].state = "half" /\ gwSas[1].expect = messageId
  PROVE  GwInv'
<1> USE DEF GwInv
<1>c. UNCHANGED <<gwSas, gwCurrent, gwKids, gwSpi, gwAlive, gwSent>>
  BY GatewaySame
<1>n. /\ sa \in Nat /\ next \in Nat /\ sas \in Nat /\ messageId \in Nat /\ peerMessageId \in Nat
      /\ sa <= sas /\ next <= sas /\ (next # NoSa => sa < next)
  BY DEF IInv, KeyInv, Numeric, SaOrder
<1>s. sent \subseteq sent' /\ \A q \in sent' : q.resp => q \in sent
  OBVIOUS
<1>1. GwType'
  BY <1>c DEF GwType, GwSa
<1>2. ReplyInv'
  BY <1>c, <1>s DEF ReplyInv, Fits
<1>3. OrderInv'
  BY <1>c DEF OrderInv, IsOrder, Onwards, Ending
<1>4. AnswerInv'
  BY <1>c, <1>s DEF AnswerInv
<1>5. NumberInv'
  BY <1>s DEF NumberInv, Onwards, Ending
<1>6. CountInv'
  <2> SUFFICES ASSUME sa # NoSa PROVE CountInv'
    BY DEF CountInv
  <2>1. sa \in Sas
    BY <1>n, Bounds DEF NumberInv, Sas, NoSa
  <2>2. gwSas[sa].expect \in Nat
    BY <2>1, SaFields
  <2> QED
    BY <1>c, <1>n, <2>2 DEF CountInv
<1>7. NextInv'
  BY <1>c DEF NextInv, Handled
<1>8. CurrentInv'
  BY <1>c DEF CurrentInv
<1>9. OldInv'
  BY <1>c, <1>s DEF OldInv
<1>10. AuthInv'
  <2>0. gwSas[1].expect \in Nat
    BY Bounds, SaFields
  <2>1. \A q \in sent : q.id \in Nat /\ (~q.resp /\ q.sa = sa /\ sa # NoSa => q.id < messageId)
    BY DEF IInv, KeyInv, SentBefore
  <2>2. \A q \in sent' : AuthKind(q) => q.sa = 1
    BY DEF AuthInv
  <2>3. gwSas[1].state \notin {"none", "half"} => \A q \in sent' : AuthKind(q) => q.id < gwSas[1].expect
    BY DEF AuthInv
  <2>4. ASSUME NEW p \in sent', NEW q \in sent', ~p.resp, p.sa = 1, AuthKind(q), p.id < q.id
        PROVE  p.id < gwSas[1].expect
    <3>1. CASE p \in sent /\ q \in sent
      BY <2>4, <3>1 DEF AuthInv
    <3>2. CASE p \in sent /\ q \notin sent
      <4>1. q = n
        BY <3>2
      <4> QED
        BY <2>1, <2>4, <3>2, <4>1 DEF NoSa
    <3>3. CASE p \notin sent
      <4>1. p = n /\ sa = 1 /\ n.id = messageId
        BY <2>4, <3>3 DEF NoSa
      <4>2. q # n
        BY <2>4, <4>1, <1>n
      <4>3. q \in sent /\ q.sa = 1 /\ ~q.resp
        BY <2>2, <2>4, <4>2 DEF AuthKind
      <4> QED
        BY <2>1, <2>4, <4>1, <4>3, <1>n DEF NoSa
    <3> QED
      BY <3>1, <3>2, <3>3
  <2>5. \A r \in gwSent : r.resp /\ r.body.what \in {"eapRequest", "eapSuccess"} =>
          r.sa = 1 /\ (r.id + 1 = gwSas[1].expect => gwSas[1].state = "half")
    BY DEF AuthInv
  <2> QED
    BY <1>c, <2>2, <2>3, <2>4, <2>5 DEF AuthInv, AuthKind
<1> QED
  BY <1>1, <1>2, <1>3, <1>4, <1>5, <1>6, <1>7, <1>8, <1>9, <1>10

\* The client has keys from now on.
LEMMA FirstSaGw ==
  ASSUME IInv, KindInv, GwInv, UNCHANGED gwVars, Onwards, NEW b, FirstSa, b = wait'.body,
         b.what = "auth", \E r \in gwSent : r.resp /\ r.body.what = "accepted", task' \notin {"close", "done"}
  PROVE  GwInv'
<1> USE DEF GwInv
<1> DEFINE n == Message(1, messageId, FALSE, b)
<1>c. UNCHANGED <<gwSas, gwCurrent, gwKids, gwSpi, gwAlive, gwSent>>
  BY GatewaySame
<1>0. n.sa = 1 /\ n.id = messageId /\ ~n.resp /\ n.body = b
  BY DEF Message
<1>s. /\ sa = NoSa /\ next = NoSa /\ sa' = 1 /\ sas' = 1 /\ next' = NoSa /\ peerMessageId' = peerMessageId
      /\ messageId' = messageId + 1 /\ messageId \in Nat /\ sent' = sent \cup {n}
  BY DEF FirstSa, IInv, KeyInv, Numeric
<1> HIDE DEF n
<1>q. \A q \in sent : q.id \in Nat /\ q.sa # 1 /\ ~q.resp
  BY <1>s DEF IInv, KeyInv, SentBefore, KindInv, NoSa
<1>h. gwSas[1].state = "half" /\ gwSas[1].expect <= 1 /\ gwSas[1].expect \in Nat /\ gwSas[1].id = 0
      /\ gwSas[1].order = NoMessage /\ gwCurrent = NoSa /\ peerMessageId = 0 /\ 1 \in Sas
  <2>1. gwSas[1].state # "none" /\ gwSas[1].state \in {"none", "half"} /\ gwSas[1].expect <= 1 /\ gwCurrent = NoSa
    BY <1>s DEF CurrentInv
  <2> QED
    BY <2>1, <1>s, Bounds, SaFields DEF OrderInv, NumberInv
<1>1. GwType'
  BY <1>c DEF GwType, GwSa
<1>2. ReplyInv'
  BY <1>c, <1>s DEF ReplyInv, Fits
<1>3. OrderInv'
  BY <1>c DEF OrderInv, IsOrder, Onwards, Ending
<1>4. AnswerInv'
  BY <1>c, <1>s, <1>0 DEF AnswerInv
<1>5. NumberInv'
  <2>1. 1 <= MaxSas
    BY Bounds
  <2>2. \A r \in sent' : ~r.resp
    BY <1>s, <1>q, <1>0
  <2> QED
    BY <2>1, <2>2, <1>s DEF NumberInv, NoSa
<1>6. CountInv'
  BY <1>c, <1>s, <1>h DEF CountInv, NoSa
<1>7. NextInv'
  BY <1>s DEF NextInv
<1>8. CurrentInv'
  <2>1. \A s \in Sas : s > 1 => gwSas[s].state = "none"
    <3>1. sas = 0
      BY <1>s DEF NumberInv, NoSa
    <3> QED
      BY <3>1, Bounds DEF CurrentInv
  <2> QED
    BY <2>1, <1>c, <1>s, <1>h DEF CurrentInv, NoSa
<1>9. OldInv'
  BY <1>s, Bounds DEF OldInv
<1>10. AuthInv'
  <2>1. \A q \in sent' : AuthKind(q) => q = n
    BY <1>s, <1>q DEF AuthInv
  <2>2. \A q \in sent' : q.id \in Nat
    BY <1>s, <1>q, <1>0
  <2>3. ASSUME NEW p \in sent', NEW q \in sent', ~p.resp, p.sa = 1, AuthKind(q), p.id < q.id PROVE FALSE
    BY <2>1, <2>2, <2>3, <1>s, <1>q
  <2>4. \A q \in sent' : AuthKind(q) => q.sa = 1
    BY <2>1, <1>0
  <2> QED
    BY <2>3, <2>4, <1>c, <1>h DEF AuthInv, AuthKind
<1> QED
  BY <1>1, <1>2, <1>3, <1>4, <1>5, <1>6, <1>7, <1>8, <1>9, <1>10

\* A new request of the gateway is the one it has under way.
LEMMA NewIsLast ==
  ASSUME IInv, GwInv, NEW m \in gwSent, IsNew(m)
  PROVE  /\ sa \in Sas /\ gwSas[sa].order = m /\ m # NoMessage /\ gwSas[sa].id = peerMessageId + 1
         /\ m.id = peerMessageId /\ m.sa = sa /\ ~m.resp /\ IsOrder(m.body)
<1> USE DEF GwInv
<1>n. /\ sa \in Nat /\ next \in Nat /\ sas \in Nat /\ messageId \in Nat /\ peerMessageId \in Nat /\ sa <= sas
  BY DEF IInv, KeyInv, Numeric, SaOrder
<1>1. sa # NoSa /\ ~m.resp /\ m.sa = sa /\ m.id = peerMessageId
  BY DEF IsNew, Heard
<1>2. sa \in Sas
  BY <1>1 DEF OrderInv
<1>3. gwSas[sa].id \in Nat /\ m.id < gwSas[sa].id /\ IsOrder(m.body)
  BY <1>1, <1>2, SaFields DEF OrderInv
<1>4. gwSas[sa].order # NoMessage /\ gwSas[sa].id = peerMessageId + 1
  BY <1>1, <1>3, <1>n DEF CountInv
<1>5. gwSas[sa].order \in gwSent
  BY <1>2, <1>4, SaFields
<1>6. ~gwSas[sa].order.resp /\ gwSas[sa].order.sa = sa /\ gwSas[sa].order.id + 1 = gwSas[sa].id /\ gwSas[sa].order.id \in Nat
  BY <1>2, <1>4, <1>5 DEF OrderInv, GwType
<1>7. gwSas[sa].order.id = m.id
  BY <1>1, <1>4, <1>6, <1>n
<1>8. gwSas[sa].order = m
  BY <1>1, <1>5, <1>6, <1>7 DEF OrderInv
<1> QED
  BY <1>1, <1>2, <1>3, <1>4, <1>8

\* While a request of the gateway is new, the rekeyed IKE SA has what the old
\* one had.
LEMMA NewThenCurrent ==
  ASSUME IInv, GwInv, NEW m \in gwSent, IsNew(m)
  PROVE  /\ next # NoSa => gwCurrent = next /\ gwSas[next].state \in {"up", "closing", "gone"} /\ next \in Sas
         /\ m.body.what = "rekeyIke" => next = NoSa /\ gwCurrent = sa /\ sa < MaxSas /\ Ending /\ sas = sa
<1>n. /\ sa \in Nat /\ next \in Nat /\ sas \in Nat /\ peerMessageId \in Nat /\ sa <= sas /\ next <= sas
      /\ (next # NoSa => sa < next)
  BY DEF IInv, KeyInv, Numeric, SaOrder
<1>1. gwSas[sa].order = m /\ m # NoMessage /\ gwSas[sa].id = peerMessageId + 1 /\ sa \in Sas /\ ~m.resp /\ m.sa = sa
  BY NewIsLast
<1>2. ~Handled(sa)
  BY <1>1, <1>n DEF Handled
<1>3. next # NoSa => gwCurrent = next /\ gwSas[next].state \in {"up", "closing", "gone"} /\ next \in Sas
  BY <1>2, <1>n, Bounds DEF GwInv, NextInv, NumberInv, Sas, NoSa
<1>4. ASSUME m.body.what = "rekeyIke" PROVE next = NoSa /\ gwCurrent = sa /\ sa < MaxSas /\ Ending /\ sas = sa
  <2>1. gwCurrent = sa
    BY <1>1, <1>4 DEF GwInv, CurrentInv
  <2>2. next = NoSa
    BY <2>1, <1>3, <1>n
  <2>3. sa < MaxSas /\ Ending
    BY <1>1, <1>4 DEF GwInv, OrderInv, Ending
  <2> QED
    BY <2>1, <2>2, <2>3, <1>n DEF GwInv, NumberInv, NoSa
<1> QED
  BY <1>3, <1>4

\* The client answers a request of the gateway and goes on with this IKE SA.
LEMMA RespondGw ==
  ASSUME IInv, GwInv, UNCHANGED gwVars, NEW m \in gwSent, IsNew(m), Onwards, UNCHANGED <<sa, messageId>>,
         peerMessageId' = peerMessageId + 1,
         NEW n, sent' = sent \cup {n}, n.resp, n.sa = sa, n.id = m.id, Suits(m.body, n.body),
         \/ n.body.what # "ikeCreated" /\ UNCHANGED <<next, sas>>
         \/ n.body.what = "ikeCreated" /\ n.body.sa = sas + 1 /\ sas' = sas + 1 /\ next' = sas + 1
  PROVE  GwInv'
<1> USE DEF GwInv
<1>c. UNCHANGED <<gwSas, gwCurrent, gwKids, gwSpi, gwAlive, gwSent>>
  BY GatewaySame
<1>n. /\ sa \in Nat /\ next \in Nat /\ sas \in Nat /\ messageId \in Nat /\ peerMessageId \in Nat
      /\ sa <= sas /\ next <= sas /\ (next # NoSa => sa < next)
  BY DEF IInv, KeyInv, Numeric, SaOrder
<1>m. /\ sa \in Sas /\ gwSas[sa].order = m /\ m # NoMessage /\ gwSas[sa].id = peerMessageId + 1
      /\ m.id = peerMessageId /\ m.sa = sa /\ ~m.resp /\ sa # NoSa
  BY NewIsLast, Bounds
<1>t. /\ next # NoSa => gwCurrent = next /\ gwSas[next].state \in {"up", "closing", "gone"} /\ next \in Sas
      /\ m.body.what = "rekeyIke" => next = NoSa /\ gwCurrent = sa /\ sa < MaxSas /\ Ending /\ sas = sa
  BY NewThenCurrent
<1>k. n.body.what = "ikeCreated" <=> m.body.what = "rekeyIke"
  BY DEF Suits
<1>1. GwType'
  BY <1>c DEF GwType, GwSa
<1>2. ReplyInv'
  BY <1>c DEF ReplyInv, Fits
<1>3. OrderInv'
  BY <1>c DEF OrderInv, IsOrder, Onwards, Ending
<1>4. AnswerInv'
  BY <1>c, <1>m DEF AnswerInv
<1>5. NumberInv'
  <2>1. CASE n.body.what # "ikeCreated"
    BY <2>1, <1>m DEF NumberInv, Onwards, Ending
  <2>2. CASE n.body.what = "ikeCreated"
    <3>1. next = NoSa /\ sas = sa /\ sas' = sa + 1 /\ next' = sa + 1 /\ n.body.sa = sa + 1 /\ sa < MaxSas /\ Ending'
      BY <2>2, <1>k, <1>t DEF Onwards
    <3>2. sas' <= MaxSas
      BY <3>1, <1>n, Bounds
    <3>3. \A r \in sent' : r.resp /\ r.body.what = "ikeCreated" => r.body.sa = r.sa + 1
      BY <3>1 DEF NumberInv
    <3> QED
      BY <3>1, <3>2, <3>3, <1>m DEF NumberInv, Ending
  <2> QED
    BY <2>1, <2>2
<1>6. CountInv'
  BY <1>c, <1>m, <1>n DEF CountInv
<1>7. NextInv'
  <2>1. CASE n.body.what # "ikeCreated"
    BY <2>1, <1>c, <1>t DEF NextInv
  <2>2. CASE n.body.what = "ikeCreated"
    <3>1. next' = sa + 1 /\ sas = sa /\ gwCurrent = sa /\ sa + 1 \in Sas /\ sa + 1 > sas /\ sa + 1 > 1
      BY <2>2, <1>k, <1>t, <1>m, <1>n, Bounds DEF Sas
    <3>2. gwSas[sa + 1].state = "none"
      BY <3>1 DEF CurrentInv
    <3>3. gwSas[sa + 1].expect = 0 /\ gwSas[sa + 1].id = 0 /\ gwSas[sa + 1].order = NoMessage
      BY <3>1, <3>2 DEF CurrentInv, OrderInv
    <3>4. gwSas[sa].order.body.what = "rekeyIke" /\ gwSas[sa].id = peerMessageId'
      BY <2>2, <1>k, <1>m
    <3> QED
      BY <3>1, <3>2, <3>3, <3>4, <1>c, <1>m DEF NextInv, Handled
  <2> QED
    BY <2>1, <2>2
<1>8. CurrentInv'
  <2>1. gwCurrent \in {NoSa, sa, next'}
    BY <1>k, <1>t DEF CurrentInv
  <2>2. sas' >= sas /\ sas' \in Nat
    BY <1>n
  <2>3. \A s \in Sas : s > sas' /\ s > 1 => gwSas[s].state = "none"
    BY <2>2, <1>n, Bounds DEF CurrentInv
  <2> QED
    BY <2>1, <2>3, <1>c DEF CurrentInv
<1>9. OldInv'
  BY <1>c, <1>n DEF OldInv
<1>10. AuthInv'
  <2>1. \A q \in sent' : ~q.resp => q \in sent
    OBVIOUS
  <2> QED
    BY <2>1, <1>c DEF AuthInv, AuthKind
<1> QED
  BY <1>1, <1>2, <1>3, <1>4, <1>5, <1>6, <1>7, <1>8, <1>9, <1>10

\* The client answers the request that ends an IKE SA and the rekeyed one
\* takes over.
LEMMA SwitchGw ==
  ASSUME IInv, GwInv, UNCHANGED gwVars, NEW m \in gwSent, IsNew(m), Onwards, next # NoSa,
         sa' = next, next' = NoSa, messageId' = 0, peerMessageId' = 0, sas' = sas,
         NEW n, sent' = sent \cup {n}, n.resp, n.sa = sa, n.id = m.id, Suits(m.body, n.body),
         n.body.what = "deleted"
  PROVE  GwInv'
<1> USE DEF GwInv
<1>c. UNCHANGED <<gwSas, gwCurrent, gwKids, gwSpi, gwAlive, gwSent>>
  BY GatewaySame
<1>n. /\ sa \in Nat /\ next \in Nat /\ sas \in Nat /\ messageId \in Nat /\ peerMessageId \in Nat
      /\ sa <= sas /\ next <= sas /\ sa < next
  BY DEF IInv, KeyInv, Numeric, SaOrder
<1>m. /\ sa \in Sas /\ gwSas[sa].order = m /\ m # NoMessage /\ gwSas[sa].id = peerMessageId + 1
      /\ m.id = peerMessageId /\ m.sa = sa /\ ~m.resp /\ sa # NoSa
  BY NewIsLast, Bounds
<1>t. gwCurrent = next /\ gwSas[next].state \in {"up", "closing", "gone"} /\ next \in Sas
  BY NewThenCurrent
<1>b. \A q \in sent : q.sa \in Nat /\ q.sa <= sa /\ (q.resp /\ q.sa = sa => q.id < peerMessageId) /\ q.id \in Nat
  BY <1>m DEF IInv, KeyInv, SentBefore
<1>1. GwType'
  BY <1>c DEF GwType, GwSa
<1>2. ReplyInv'
  BY <1>c DEF ReplyInv, Fits
<1>3. OrderInv'
  BY <1>c DEF OrderInv, IsOrder, Onwards, Ending
<1>4. AnswerInv'
  BY <1>c, <1>m DEF AnswerInv
<1>5. NumberInv'
  <2>1. next = sa + 1 /\ sas = next /\ sas <= MaxSas
    BY DEF NumberInv
  <2>2. \A r \in sent' : r.resp /\ r.body.what = "ikeCreated" => r \in sent /\ r.body.sa = r.sa + 1 /\ r.sa # next
    BY <1>b, <1>n DEF NumberInv
  <2> QED
    BY <2>1, <2>2, <1>n DEF NumberInv, Onwards, Ending, NoSa
<1>6. CountInv'
  BY <1>c, <1>t DEF CountInv, NextInv
<1>7. NextInv'
  BY DEF NextInv
<1>8. CurrentInv'
  BY <1>c, <1>t, <1>n DEF CurrentInv
<1>9. OldInv'
  <2> SUFFICES ASSUME NEW s \in Sas, NEW x \in sent', s < next, gwSas[s].order # NoMessage, x.resp, x.sa = s,
                      x.id = gwSas[s].order.id
               PROVE  x.body.what = "deleted"
    BY <1>c DEF OldInv
  <2>1. CASE x = n
    BY <2>1
  <2>2. CASE x # n
    <3>1. x \in sent
      BY <2>2
    <3>2. s # sa
      BY <3>1, <1>b, <1>m, <1>n
    <3>3. s < sa
      BY <3>1, <3>2, <1>b, <1>n
    <3> QED
      BY <3>1, <3>3 DEF OldInv
  <2> QED
    BY <2>1, <2>2
<1>10. AuthInv'
  <2>1. \A q \in sent' : ~q.resp => q \in sent
    OBVIOUS
  <2> QED
    BY <2>1, <1>c DEF AuthInv, AuthKind
<1> QED
  BY <1>1, <1>2, <1>3, <1>4, <1>5, <1>6, <1>7, <1>8, <1>9, <1>10

\* A step that sends nothing.
LEMMA SilentGw ==
  ASSUME IInv, GwInv, UNCHANGED gwVars, UNCHANGED <<sa, next, sas, peerMessageId, messageId, sent>>, Onwards
  PROVE  GwInv'
<1>0. messageId \in Nat
  BY DEF IInv, KeyInv, Numeric
<1>1. PICK n : n = Message(sa, messageId, FALSE, Body("dpd"))
  OBVIOUS
<1>2. n.sa = sa /\ n.id = messageId /\ ~n.resp /\ ~AuthKind(n)
  BY <1>1 DEF Message, Body, AuthKind
<1> QED
  BY <1>0, <1>2, QuietGw

\* A request on the current IKE SA, not of IKE_AUTH.
LEMMA RequestGw ==
  ASSUME IInv, GwInv, UNCHANGED gwVars, UNCHANGED saVars, Onwards, NEW i \in Nat, sa # NoSa => i = messageId,
         NEW t, NEW b, b.what \notin {"auth", "eap", "final"}, Request(sa, i, t, b)
  PROVE  GwInv'
<1>0. messageId \in Nat
  BY DEF IInv, KeyInv, Numeric
<1>1. PICK n : n = Message(sa, i, FALSE, b)
  OBVIOUS
<1>2. n.sa = sa /\ n.id = i /\ ~n.resp /\ ~AuthKind(n)
  BY <1>1 DEF Message, AuthKind
<1>3. sent' = sent \cup {n} /\ messageId' = i + 1
  BY <1>1 DEF Request
<1>4. UNCHANGED <<sa, next, sas, peerMessageId>> /\ messageId' \in Nat /\ (sa # NoSa => messageId' >= messageId)
  BY <1>0, <1>3 DEF saVars
<1> QED
  BY <1>2, <1>3, <1>4, QuietGw

\* The end of the session.
LEMMA TeardownGw ==
  ASSUME IInv, GwInv, UNCHANGED gwVars, UNCHANGED saVars, NEW o, NEW st, NEW d, NEW kids, Teardown(o, st, d, kids)
  PROVE  GwInv'
<1>0. messageId \in Nat
  BY DEF IInv, KeyInv, Numeric
<1>1. task' \in {"close", "done"} /\ Onwards
  BY DEF Teardown, Request, Done, Onwards, Ending
<1>2. CASE st = "Established" /\ d = "none"
  <2>1. PICK b : b = Body("deleteIke")
    OBVIOUS
  <2>2. b.what = "deleteIke" /\ Request(sa, messageId, "close", b)
    BY <1>2, <2>1 DEF Teardown, Body
  <2> QED
    BY <1>0, <1>1, <2>2, RequestGw
<1>3. CASE ~(st = "Established" /\ d = "none")
  <2>1. UNCHANGED <<messageId, sent>>
    BY <1>3 DEF Teardown
  <2> QED
    BY <1>1, <2>1, SilentGw DEF saVars
<1> QED
  BY <1>2, <1>3

\* The next CHILD SA of the setup.
LEMMA NextChildGw ==
  ASSUME IInv, GwInv, UNCHANGED gwVars, UNCHANGED saVars, NEW kids, NextChild(kids), task \notin {"close", "done"}
  PROVE  GwInv'
<1>0. messageId \in Nat
  BY DEF IInv, KeyInv, Numeric
<1>1. ASSUME NEW old, NEW nets, CreateChild(old, nets), UNCHANGED host PROVE GwInv'
  <2>1. PICK b : b = ChildRequest(spi + 1, old, nets, GroupRetries)
    OBVIOUS
  <2>2. b.what = "child" /\ Request(sa, messageId, "child", b)
    BY <1>1, <2>1 DEF CreateChild, ChildRequest
  <2>3. Onwards
    BY <1>1 DEF Onwards, Ending
  <2> QED
    BY <1>0, <2>2, <2>3, RequestGw
<1>2. CASE Uncovered(todo, kids) # <<>>
  BY <1>1, <1>2 DEF NextChild
<1>3. CASE Uncovered(todo, kids) = <<>>
  <2>1. BringUp(kids)
    BY <1>3 DEF NextChild
  <2>2. CASE Fail("Established", kids)
    BY <2>2, TeardownGw DEF Fail
  <2>3. CASE ~Fail("Established", kids)
    <3>1. host' = TRUE /\ UNCHANGED <<messageId, sent>>
      BY <2>1, <2>3 DEF BringUp
    <3> QED
      BY <3>1, SilentGw DEF saVars, Onwards, Ending
  <2> QED
    BY <2>2, <2>3
<1> QED
  BY <1>2, <1>3

\* The client receives a response.
LEMMA ReplyGw ==
  ASSUME IInv, CliInv, GwInv, UNCHANGED gwVars, NEW m \in gwSent, OnReply(m)
  PROVE  GwInv'
<1> USE DEF CliInv
<1>0. messageId \in Nat /\ 0 \in Nat
  BY DEF IInv, KeyInv, Numeric
<1>1. CASE OnInitReply(m)
  <2>0. task = "init" /\ sa = NoSa /\ next = NoSa
    BY <1>1 DEF OnInitReply, IInv, ControlInv, SetUp
  <2>1. CASE InitRequest(left - 1) /\ UNCHANGED <<sa, sas, host>>
    <3>1. PICK b : b = [what |-> "init", left |-> left - 1]
      OBVIOUS
    <3>2. b.what = "init" /\ Request(sa, 0, "init", b)
      BY <2>0, <2>1, <3>1 DEF InitRequest
    <3>3. UNCHANGED saVars /\ Onwards
      BY <1>1, <2>0, <2>1 DEF OnInitReply, saVars, Onwards, Ending
    <3> QED
      BY <1>0, <2>0, <3>2, <3>3, RequestGw
  <2>2. CASE Fail(stage, children) /\ UNCHANGED <<sa, sas>>
    <3>1. UNCHANGED saVars
      BY <1>1, <2>2 DEF OnInitReply, saVars
    <3> QED
      BY <2>2, <3>1, TeardownGw DEF Fail
  <2>3. CASE m.body.what = "accepted" /\ sa' = 1 /\ sas' = 1 /\ Request(1, messageId, "auth", AuthRequest) /\ UNCHANGED host
    <3>1. PICK b : b = Body("auth")
      OBVIOUS
    <3>2. b.what = "auth" /\ b = wait'.body /\ task' = "auth"
      BY <2>3, <3>1, RequestIs DEF Body, AuthRequest
    <3>3. FirstSa /\ m.resp /\ Onwards
      BY <1>1, <2>0, <2>3, <3>2, RequestIs DEF OnInitReply, Answers, FirstSa, Onwards, Ending
    <3> QED
      BY <2>3, <3>2, <3>3, FirstSaGw
  <2> QED
    BY <1>1, <2>1, <2>2, <2>3 DEF OnInitReply
<1>2. CASE OnFinalReply(m)
  <2>1. UNCHANGED saVars /\ task \notin {"close", "done"}
    BY <1>2 DEF OnFinalReply
  <2> QED
    BY <1>2, <2>1, NextChildGw, TeardownGw DEF OnFinalReply, Fail
<1>3. CASE OnEapReply(m)
  <2>1. UNCHANGED saVars /\ task \in {"auth", "eap"} /\ m.resp /\ m.id = wait.id /\ m.sa = sa
    BY <1>3 DEF OnEapReply, Answers
  <2>2. ASSUME NEW t \in {"eap", "final"}, Request(sa, messageId, t, Body(t)), UNCHANGED host,
               m.body.what \in {"eapRequest", "eapSuccess"}
        PROVE  GwInv'
    <3>1. PICK n : n = Message(sa, messageId, FALSE, Body(t))
      OBVIOUS
    <3>2. n.sa = sa /\ n.id = messageId /\ ~n.resp /\ sent' = sent \cup {n} /\ messageId' = messageId + 1
      BY <2>2, <3>1 DEF Message, Request
    <3>3. m.sa = 1 /\ sa = 1 /\ (m.id + 1 = gwSas[1].expect => gwSas[1].state = "half") /\ m.id \in Nat
      BY <2>1, <2>2 DEF GwInv, AuthInv, GwType
    <3>4. m.id < gwSas[1].expect /\ gwSas[1].expect <= messageId /\ gwSas[1].expect \in Nat
      BY <2>1, <3>3, Bounds, SaFields DEF GwInv, ReplyInv, CountInv, NoSa
    <3>5. wait.sa = sa /\ messageId = m.id + 1
      <4>1. messageId # 0
        BY <1>0, <3>3, <3>4
      <4>2. task \in Asking
        BY <2>1 DEF Asking
      <4> QED
        BY <2>1, <4>1, <4>2 DEF AskedInv
    <3>6. gwSas[1].expect = messageId /\ gwSas[1].state = "half"
      BY <3>3, <3>4, <3>5
    <3>7. UNCHANGED <<sa, next, sas, peerMessageId>> /\ Onwards /\ messageId' \in Nat /\ messageId' >= messageId
      BY <1>0, <2>1, <2>2, <3>2 DEF saVars, Onwards, Ending
    <3> QED
      BY <3>2, <3>3, <3>6, <3>7, QuietGw
  <2>3. CASE Fail(stage, children)
    BY <2>1, <2>3, TeardownGw DEF Fail
  <2> QED
    BY <1>3, <2>2, <2>3 DEF OnEapReply
<1>4. CASE OnChildReply(m)
  <2>1. UNCHANGED saVars /\ task = "child"
    BY <1>4 DEF OnChildReply
  <2>2. CASE NextChild(<<NewChild(kid.in, m.body)>> \o children)
    BY <2>1, <2>2, NextChildGw
  <2>3. CASE Fail(stage, children)
    BY <2>1, <2>3, TeardownGw DEF Fail
  <2>4. CASE UNCHANGED <<host, messageId, sent>>
    BY <2>1, <2>4, SilentGw DEF saVars, Onwards, Ending
  <2>5. ASSUME NEW t, NEW b, b.what \in {"child", "deleteChild"}, Request(sa, messageId, t, b), UNCHANGED host
        PROVE  GwInv'
    <3>1. Onwards
      BY <2>1, <2>5 DEF Onwards, Ending
    <3> QED
      BY <1>0, <2>1, <2>5, <3>1, RequestGw
  <2>6. CASE Request(sa, messageId, "child", ChildRequest(kid.in, kid.old, kid.nets, left - 1)) /\ UNCHANGED host
    <3>1. PICK b : b = ChildRequest(kid.in, kid.old, kid.nets, left - 1)
      OBVIOUS
    <3>2. b.what = "child"
      BY <3>1 DEF ChildRequest
    <3> QED
      BY <2>5, <2>6, <3>1, <3>2
  <2>7. CASE Request(sa, messageId, "delete", [what |-> "deleteChild", in |-> kid.old]) /\ UNCHANGED host
    <3>1. PICK b : b = [what |-> "deleteChild", in |-> kid.old]
      OBVIOUS
    <3>2. b.what = "deleteChild"
      BY <3>1
    <3> QED
      BY <2>5, <2>7, <3>1, <3>2
  <2> QED
    BY <1>4, <2>2, <2>3, <2>4, <2>6, <2>7 DEF OnChildReply
<1>5. CASE OnPlainReply(m)
  BY <1>5, SilentGw DEF OnPlainReply, saVars, Onwards, Ending
<1>6. CASE OnCloseReply(m)
  BY <1>6, SilentGw DEF OnCloseReply, Done, saVars, Onwards, Ending
<1> QED
  BY <1>1, <1>2, <1>3, <1>4, <1>5, <1>6 DEF OnReply

\* The client receives a request.
LEMMA OrderGw ==
  ASSUME IInv, CliInv, GwInv, UNCHANGED gwVars, NEW m \in gwSent, OnOrder(m)
  PROVE  GwInv'
<1>1. CASE OnRetransmission(m)
  <2>1. sent' = sent
    BY <1>1 DEF OnRetransmission, IInv, KeyInv, LastSent
  <2> QED
    BY <1>1, <2>1, SilentGw DEF OnRetransmission, saVars, Onwards, Ending
<1>2. ASSUME IsNew(m), NEW b, Respond(m, b), UNCHANGED <<sa, messageId, host, task>>, Suits(m.body, b),
             \/ b.what # "ikeCreated" /\ UNCHANGED <<next, sas>>
             \/ b.what = "ikeCreated" /\ b.sa = sas + 1 /\ sas' = sas + 1 /\ next' = sas + 1
      PROVE  GwInv'
  <2>1. PICK n : n = Message(sa, m.id, TRUE, b)
    OBVIOUS
  <2>2. n.resp /\ n.sa = sa /\ n.id = m.id /\ n.body = b /\ sent' = sent \cup {n} /\ peerMessageId' = peerMessageId + 1
    BY <1>2, <2>1 DEF Respond, Message
  <2> QED
    BY <1>2, <2>2, RespondGw DEF Onwards, Ending
<1>3. CASE OnRefused(m)
  <2>1. PICK b : b = Body("refused")
    OBVIOUS
  <2>2. b.what = "refused" /\ Suits(m.body, b)
    BY <1>3, <2>1 DEF OnRefused, Body, Suits
  <2> QED
    BY <1>2, <1>3, <2>1, <2>2 DEF OnRefused
<1>4. CASE OnIkeRekey(m)
  <2>1. PICK b : b = [what |-> "ikeCreated", sa |-> sas + 1]
    OBVIOUS
  <2>2. b.what = "ikeCreated" /\ b.sa = sas + 1 /\ Suits(m.body, b)
    BY <1>4, <2>1 DEF OnIkeRekey, Suits
  <2> QED
    BY <1>2, <1>4, <2>1, <2>2 DEF OnIkeRekey
<1>5. CASE OnChildRekey(m)
  <2>1. PICK b : b \in {Body("notFound"), [what |-> "childCreated", in |-> spi + 1]} /\ Respond(m, b)
    BY <1>5 DEF OnChildRekey
  <2>2. b.what \in {"notFound", "childCreated"}
    BY <2>1 DEF Body
  <2>3. Suits(m.body, b)
    BY <1>5, <2>2 DEF OnChildRekey, Suits
  <2> QED
    BY <1>2, <1>5, <2>1, <2>2, <2>3 DEF OnChildRekey
<1>6. CASE OnInformational(m)
  <2>1. PICK b : b = [what |-> "deleted", ins |-> {children[k].in : k \in Dropped(children, m.body.outs)}]
    OBVIOUS
  <2>2. PICK n : n = Message(sa, m.id, TRUE, b)
    OBVIOUS
  <2>3. n.resp /\ n.sa = sa /\ n.id = m.id /\ n.body = b /\ b.what = "deleted"
    BY <2>1, <2>2 DEF Message
  <2>4. /\ IsNew(m) /\ m.body.what = "info" /\ sent' = sent \cup {n} /\ sas' = sas
        /\ \/ SwitchIke /\ next # NoSa /\ UNCHANGED <<host, task>>
           \/ /\ peerMessageId' = peerMessageId + 1 /\ UNCHANGED <<sa, next, messageId>>
              /\ UNCHANGED <<host, task>> \/ Done
    BY <1>6, <2>1, <2>2 DEF OnInformational
  <2>5. Suits(m.body, n.body) /\ Onwards
    BY <2>3, <2>4 DEF Suits, Onwards, Ending, Done
  <2>6. CASE SwitchIke /\ next # NoSa
    BY <2>3, <2>4, <2>5, <2>6, SwitchGw DEF SwitchIke
  <2>7. CASE peerMessageId' = peerMessageId + 1 /\ UNCHANGED <<sa, next, messageId>>
    BY <2>3, <2>4, <2>5, <2>7, RespondGw
  <2> QED
    BY <2>4, <2>6, <2>7
<1> QED
  BY <1>1, <1>3, <1>4, <1>5, <1>6 DEF OnOrder

\* What the client does by itself.
LEMMA LocalGw ==
  ASSUME IInv, CliInv, GwInv, UNCHANGED gwVars, Local
  PROVE  GwInv'
<1>0. messageId \in Nat /\ 0 \in Nat
  BY DEF IInv, KeyInv, Numeric
<1>1. CASE Establish
  <2>1. UNCHANGED saVars /\ task = "start" /\ sa = NoSa
    BY <1>1 DEF Establish, IInv, ControlInv, SetUp
  <2>2. CASE InitRequest(InitRetries) /\ UNCHANGED host
    <3>1. PICK b : b = [what |-> "init", left |-> InitRetries]
      OBVIOUS
    <3>2. b.what = "init" /\ Request(sa, 0, "init", b) /\ Onwards
      BY <2>1, <2>2, <3>1 DEF InitRequest, Onwards, Ending
    <3> QED
      BY <1>0, <2>1, <3>2, RequestGw
  <2>3. CASE Fail(stage, children)
    BY <2>1, <2>3, TeardownGw DEF Fail
  <2> QED
    BY <1>1, <2>2, <2>3 DEF Establish
<1>2. CASE Retransmit
  BY <1>2, SilentGw DEF Retransmit, saVars, Onwards, Ending
<1>3. CASE GiveUp
  <2>1. UNCHANGED saVars
    BY <1>3 DEF GiveUp
  <2>2. CASE Done /\ UNCHANGED <<messageId, sent>>
    BY <2>1, <2>2, SilentGw DEF Done, saVars, Onwards, Ending
  <2>3. ASSUME NEW o, NEW st, NEW d, NEW kids, Teardown(o, st, d, kids) PROVE GwInv'
    BY <2>1, <2>3, TeardownGw
  <2>4. \/ Done /\ UNCHANGED <<messageId, sent>>
        \/ Teardown(IF host THEN "Down" ELSE "Error", stage, "silent", children)
        \/ Teardown("Error", stage, down, children)
    BY <1>3 DEF GiveUp, Fail
  <2> QED
    BY <2>2, <2>3, <2>4
<1>4. CASE IoError
  <2>1. UNCHANGED saVars
    BY <1>4 DEF IoError
  <2>2. CASE Done /\ UNCHANGED <<messageId, sent>>
    BY <2>1, <2>2, SilentGw DEF Done, saVars, Onwards, Ending
  <2> QED
    BY <1>4, <2>1, <2>2, TeardownGw DEF IoError, Fail
<1>5. CASE Cancel
  BY <1>5, TeardownGw DEF Cancel
<1>6. CASE StartDpd
  <2>1. PICK b : b = Body("dpd")
    OBVIOUS
  <2>2. b.what = "dpd" /\ Request(sa, messageId, "dpd", b) /\ Onwards /\ UNCHANGED saVars
    BY <1>6, <2>1 DEF StartDpd, Body, Onwards, Ending
  <2> QED
    BY <1>0, <2>2, RequestGw
<1>7. ASSUME NEW k \in DOMAIN children, StartRekey(k) PROVE GwInv'
  <2>1. PICK b : b = ChildRequest(spi + 1, children[k].in, children[k].nets, GroupRetries)
    OBVIOUS
  <2>2. b.what = "child" /\ Request(sa, messageId, "child", b) /\ Onwards /\ UNCHANGED saVars
    BY <1>7, <2>1 DEF StartRekey, CreateChild, ChildRequest, Onwards, Ending
  <2> QED
    BY <1>0, <2>2, RequestGw
<1> QED
  BY <1>1, <1>2, <1>3, <1>4, <1>5, <1>6, <1>7 DEF Local

-----------------------------------------------------------------------------
(* The invariant of the messages.                                          *)

TunnelInv == IInv /\ TypeInv /\ CliInv /\ GwInv /\ KidType

\* What a CHILD SA takes from a message of the gateway has the right types.
LEMMA GatewayOffers ==
  ASSUME CliInv, GwInv, NEW m \in gwSent, m.body.what \in {"created", "rekeyChild"}
  PROVE  Offers(m)
<1>g. gwSpi \in Nat /\ 1 .. gwSpi \subseteq Nat
  BY DEF GwInv, GwType
<1>1. CASE m.resp
  <2>1. m.sa # NoSa
    BY <1>1 DEF GwInv, ReplyInv
  <2>2. PICK q \in sent : ~q.resp /\ Fits(q.body, m.body)
    BY <1>1, <2>1 DEF GwInv, ReplyInv
  <2>3. q.body.what = "child" => q.body.nets \in SUBSET Networks
    BY <2>2 DEF CliInv, KindInv
  <2> QED
    BY <1>g, <2>2, <2>3, FirstNetsIs DEF Fits, Offers
<1>2. CASE ~m.resp
  <2>1. IsOrder(m.body)
    BY <1>2 DEF GwInv, OrderInv
  <2> QED
    BY <1>g, <2>1 DEF IsOrder, Offers
<1> QED
  BY <1>1, <1>2

\* The steps of the client are its own and those on messages of the gateway.
LEMMA StepIs ==
  ASSUME TunnelNext
  PROVE  \/ Gateway
         \/ UNCHANGED gwVars /\ \E m \in gwSent : OnReply(m) \/ OnOrder(m)
         \/ UNCHANGED gwVars /\ Local
         \/ UNCHANGED <<vars, gwVars>>
<1>1. CASE ClientTimer \/ ClientStart \/ ClientStop
  BY <1>1 DEF ClientTimer, ClientStart, ClientStop, Local
<1>2. CASE ClientDpd \/ ClientRekey
  BY <1>2 DEF ClientDpd, ClientRekey, Bounded, Local
<1> QED
  BY <1>1, <1>2 DEF TunnelNext, Receive, ReceiveOther

\* A step that leaves the client alone.
LEMMA CliStays ==
  ASSUME CliInv, UNCHANGED vars
  PROVE  CliInv'
<1>c. /\ UNCHANGED <<stage, sa, next, sas, messageId, peerMessageId, lastResponse>>
      /\ UNCHANGED <<children, host, down, spi, left, kid, todo, task, wait, outcome, sent>>
  BY ClientSame
<1>1. KeyedInv' /\ AskedInv' /\ KindInv' /\ ToldInv' /\ SetupInv'
  BY <1>c DEF CliInv, KeyedInv, AskedInv, KindInv, ToldInv, SetupInv
<1>2. BodyInv'
  BY <1>c DEF CliInv, BodyInv
<1>3. SpiInv'
  BY <1>c, SpiSame DEF CliInv, Onward
<1> QED
  BY <1>1, <1>2, <1>3 DEF CliInv

\* A step that changes nothing here.
LEMMA StutterTunnel ==
  ASSUME TunnelInv, UNCHANGED <<vars, gwVars>>
  PROVE  TunnelInv'
<1>c. /\ UNCHANGED <<stage, sa, next, sas, messageId, peerMessageId, lastResponse>>
      /\ UNCHANGED <<children, host, down, spi, left, kid, todo, task, wait, outcome, sent>>
      /\ UNCHANGED <<gwSas, gwCurrent, gwKids, gwSpi, gwAlive, gwSent>>
  BY ClientSame, GatewaySame
<1>1. IInv'
  BY StepKeeps DEF TunnelInv
<1>2. TypeInv'
  BY <1>c DEF TunnelInv, TypeInv, KidsType, WaitType, AskType, TaskType
<1>3. CliInv'
  BY CliStays DEF TunnelInv
<1>4. GwInv'
  BY <1>c, SilentGw DEF TunnelInv, Onwards, Ending
<1>5. KidType'
  BY <1>c DEF TunnelInv, KidType
<1> QED
  BY <1>1, <1>2, <1>3, <1>4, <1>5 DEF TunnelInv

\* A step of the gateway.
LEMMA GatewayTunnel ==
  ASSUME TunnelInv, Gateway
  PROVE  TunnelInv'
<1>v. UNCHANGED vars
  BY DEF Gateway
<1>c. /\ UNCHANGED <<stage, sa, next, sas, messageId, peerMessageId, lastResponse>>
      /\ UNCHANGED <<children, host, down, spi, left, kid, todo, task, wait, outcome, sent>>
  BY <1>v, ClientSame
<1>1. IInv'
  BY <1>v, StepKeeps DEF TunnelInv
<1>2. TypeInv'
  BY <1>c DEF TunnelInv, TypeInv, KidsType, WaitType, AskType, TaskType
<1>3. CliInv'
  BY <1>v, CliStays DEF TunnelInv
<1>4. GwInv' /\ KidType'
  BY GatewayGw, GatewayKids DEF TunnelInv
<1> QED
  BY <1>1, <1>2, <1>3, <1>4 DEF TunnelInv

\* A step of the client.
LEMMA ClientTunnel ==
  ASSUME TunnelInv, UNCHANGED gwVars, Local \/ \E m \in gwSent : OnReply(m) \/ OnOrder(m)
  PROVE  TunnelInv'
<1> USE DEF TunnelInv
<1>1. KidType'
  BY GatewaySame DEF KidType
<1>2. Numeric
  BY DEF IInv, KeyInv
<1>3. CASE Local
  BY <1>1, <1>2, <1>3, LocalKeeps, LocalTypes, LocalCli, LocalGw
<1>4. ASSUME NEW m \in gwSent, OnReply(m) \/ OnOrder(m) PROVE TunnelInv'
  <2>1. m.body.what \in {"created", "rekeyChild"} => Offers(m)
    BY GatewayOffers
  <2>2. IInv'
    <3>1. CASE OnCloseReply(m)
      BY <3>1, CloseKeeps DEF OnCloseReply, Same
    <3> QED
      BY <1>4, <3>1, InitReplyKeeps, FinalReplyKeeps, EapReplyKeeps, ChildReplyKeeps, PlainReplyKeeps,
         RetransmissionKeeps, RefusedKeeps, IkeRekeyKeeps, ChildRekeyKeeps, InformationalKeeps DEF OnReply, OnOrder
  <2>3. TypeInv'
    BY <1>2, <1>4, <2>1, SetupReplyTypes, ChildReplyTypes, DoneTypes, OrderTypes DEF OnReply
  <2>4. CliInv'
    BY <1>4, <2>1, ReceiveCli
  <2>5. GwInv'
    BY <1>4, ReplyGw, OrderGw
  <2> QED
    BY <1>1, <2>2, <2>3, <2>4, <2>5
<1> QED
  BY <1>3, <1>4

\* The invariant holds initially.
LEMMA InitTunnel == TunnelInit => TunnelInv
<1> SUFFICES ASSUME TunnelInit PROVE TunnelInv
  OBVIOUS
<1>0. Init /\ GwInit
  BY DEF TunnelInit
<1>1. IInv /\ TypeInv /\ CliInv
  BY <1>0, InitEstablishes, InitTypes, InitCli
<1>2. \A s \in Sas : gwSas[s] = NewSa
  BY <1>0 DEF GwInit
<1>3. NewSa.state = "none" /\ NewSa.expect = 0 /\ NewSa.id = 0 /\ NewSa.order = NoMessage
  BY DEF NewSa
<1>4. GwType
  <2>1. NewSa \in GwSa
    BY DEF NewSa, GwSa, SaStates
  <2> QED
    BY <1>0, <2>1, Bounds DEF GwInit, GwType, NoSa
<1>5. ReplyInv /\ OrderInv /\ AnswerInv
  BY <1>0, <1>2, <1>3 DEF GwInit, Init, ReplyInv, OrderInv, AnswerInv
<1>6. NumberInv /\ CountInv /\ NextInv /\ OldInv /\ AuthInv
  BY <1>0, Bounds, <1>2, <1>3 DEF GwInit, Init, NumberInv, CountInv, NextInv, OldInv, AuthInv, NoSa
<1>7. CurrentInv
  BY <1>0, <1>2, <1>3, Bounds DEF GwInit, Init, CurrentInv, NoSa
<1>8. KidType
  BY <1>0 DEF GwInit, KidType
<1> QED
  BY <1>1, <1>4, <1>5, <1>6, <1>7, <1>8 DEF GwInv, TunnelInv

\* What is on the wire, and how far the two sides are with each other's
\* requests, whatever is lost, repeated or reordered.
THEOREM TunnelInvariant == TunnelSpec => []TunnelInv
<1>1. TunnelInit => TunnelInv
  BY InitTunnel
<1>2. TunnelInv /\ [TunnelNext]_allVars => TunnelInv'
  <2> SUFFICES ASSUME TunnelInv, [TunnelNext]_allVars PROVE TunnelInv'
    OBVIOUS
  <2>1. CASE TunnelNext
    BY <2>1, StepIs, GatewayTunnel, ClientTunnel, StutterTunnel
  <2>2. CASE UNCHANGED allVars
    BY <2>2, StutterTunnel DEF allVars
  <2> QED
    BY <2>1, <2>2
<1> QED
  BY <1>1, <1>2, PTL DEF TunnelSpec

\* A session that was never rekeyed and ends by itself has told the gateway:
\* teardown reaches every end that is not the gateway's own or its silence.
THEOREM GatewayTold == TunnelSpec => []ToldOfEnd
<1>1. TunnelInv => ToldOfEnd
  <2> SUFFICES ASSUME TunnelInv, task = "done", stage = "Established", down = "none", sas = 1
               PROVE  \E m \in sent : m.body.what = "deleteIke" /\ m.sa = 1
    BY DEF ToldOfEnd
  <2>1. PICK m \in sent : m.body.what = "deleteIke" /\ ~m.resp
    BY DEF TunnelInv, CliInv, ToldInv
  <2>2. m.sa # NoSa
    BY <2>1 DEF TunnelInv, CliInv, KindInv
  <2>3. m.sa \in Nat /\ m.sa <= sa /\ sa <= 1 /\ sa \in Nat
    BY DEF TunnelInv, IInv, KeyInv, SentBefore, SaOrder, Numeric
  <2>4. m.sa = 1
    BY <2>2, <2>3 DEF NoSa
  <2> QED
    BY <2>1, <2>4
<1> QED
  BY <1>1, TunnelInvariant, PTL

-----------------------------------------------------------------------------
(* The IKE SA of a session that is alive.                                  *)

\* A response to the request under way: nothing has come in between.
LEMMA ReplyInTime ==
  ASSUME TunnelInv, NEW m \in gwSent, task \in Asking, Answers(m)
  PROVE  /\ wait.sa = sa /\ messageId = wait.id + 1 /\ m.resp /\ m.sa = sa /\ m.id = wait.id
         /\ sa # NoSa => sa \in Sas /\ gwSas[sa].expect = messageId
<1>n. sa \in Nat /\ messageId \in Nat /\ sa <= sas /\ sas \in Nat
  BY DEF TunnelInv, IInv, KeyInv, Numeric, SaOrder
<1>w. wait.sa \in Nat /\ wait.id \in Nat
  BY DEF TunnelInv, TypeInv, WaitType
<1>m. m.resp /\ m.sa = sa /\ m.id = wait.id
  BY DEF Answers
<1>1. ASSUME sa # NoSa PROVE sa \in Sas /\ m.id < gwSas[sa].expect /\ gwSas[sa].expect <= messageId /\ gwSas[sa].expect \in Nat
  <2>1. sa \in Sas
    BY <1>1, <1>n, Bounds DEF TunnelInv, GwInv, NumberInv, Sas, NoSa
  <2> QED
    BY <1>1, <1>m, <2>1, SaFields DEF TunnelInv, GwInv, ReplyInv, CountInv
<1>2. wait.sa = sa
  BY <1>n, <1>w, <1>m, <1>1 DEF TunnelInv, CliInv, AskedInv, NoSa
<1>3. messageId = wait.id + 1
  BY <1>2 DEF TunnelInv, CliInv, AskedInv
<1> QED
  BY <1>1, <1>2, <1>3, <1>m, <1>w, <1>n

\* A request that was just sent has no response yet.
LEMMA NoReplyYet ==
  ASSUME TunnelInv, NEW r \in gwSent, r.resp, r.sa # NoSa
  PROVE  r.sa <= sa /\ r.sa \in Nat /\ (r.sa = sa => r.id < messageId /\ r.id \in Nat)
<1>1. PICK q \in sent : q.sa = r.sa /\ q.id = r.id /\ ~q.resp
  BY DEF TunnelInv, GwInv, ReplyInv
<1> QED
  BY <1>1 DEF TunnelInv, IInv, KeyInv, SentBefore

\* What the gateway expects of a session that is alive is the request under way.
LEMMA LiveExpected ==
  ASSUME TunnelInv, Live, PaceInv, NEW m \in sent, Expected(m)
  PROVE  /\ m.sa = sa /\ sa \in Sas /\ task \in Asking \ {"init"} /\ m.id = wait.id /\ m.body = wait.body /\ ~m.resp
         /\ gwSas[sa].expect = wait.id /\ messageId = wait.id + 1
         /\ \A r \in gwSent : ~Answer(r)
<1>n. sa \in Nat /\ messageId \in Nat
  BY DEF TunnelInv, IInv, KeyInv, Numeric
<1>w. wait.sa \in Nat /\ wait.id \in Nat
  BY DEF TunnelInv, TypeInv, WaitType
<1>m. /\ m.sa \in Sas /\ ~m.resp /\ m.id = gwSas[m.sa].expect /\ m.id \in Nat /\ m.sa \in Nat /\ m.sa # NoSa
      /\ m.sa <= sa /\ sa # NoSa /\ (m.sa = sa => m.id < messageId)
  BY Bounds DEF Expected, TunnelInv, IInv, KeyInv, SentBefore, Numeric, NoSa
<1>1. m.sa = sa
  BY <1>m, <1>n DEF PaceInv
<1>2. task \in Asking /\ wait.sa = sa
  BY <1>1, <1>m, <1>n DEF PaceInv, Live
<1>3. messageId = wait.id + 1
  BY <1>2 DEF TunnelInv, CliInv, AskedInv
<1>4. m.id = wait.id
  BY <1>1, <1>2, <1>3, <1>m, <1>w DEF PaceInv
<1>5. task # "init"
  BY <1>m DEF TunnelInv, IInv, ControlInv, SetUp
<1>6. m.body = wait.body
  <2> DEFINE n == Message(wait.sa, wait.id, FALSE, wait.body)
  <2>1. n \in sent
    BY <1>2 DEF TunnelInv, CliInv, AskedInv
  <2>2. n.sa = wait.sa /\ n.id = wait.id /\ n.resp = FALSE /\ n.body = wait.body
    BY DEF Message
  <2> HIDE DEF n
  <2>3. m.resp = n.resp
    BY <2>1, <2>2, <1>m DEF TunnelInv, IInv, KeyInv, SentBefore
  <2>4. m = n
    BY <1>1, <1>2, <1>4, <1>m, <2>1, <2>2, <2>3 DEF TunnelInv, IInv, KeyInv, NonceUnique, Encrypted, Nonce
  <2> QED
    BY <2>2, <2>4
<1>7. \A r \in gwSent : ~Answer(r)
  <2> SUFFICES ASSUME NEW r \in gwSent, Answer(r) PROVE FALSE
    OBVIOUS
  <2>1. r.resp /\ r.sa = sa /\ r.id = wait.id /\ r.id < gwSas[sa].expect
    BY <1>m DEF Answer, TunnelInv, GwInv, ReplyInv
  <2> QED
    BY <2>1, <1>1, <1>4, <1>m, <1>w
<1> QED
  BY <1>1, <1>2, <1>3, <1>4, <1>5, <1>6, <1>7, <1>m

Orders == GwProbe \/ GwAdditional \/ GwDeleteChild \/ GwRekeyChild \/ GwRekeyIke \/ GwDeleteIke

\* The requests of the gateway: the one that closes an IKE SA is its DELETE.
LEMMA OrdersAre ==
  ASSUME TunnelInv, Orders
  PROVE  \E s \in Sas : \E b, st :
           /\ st \in {"up", "closing"} /\ Order(s, b, st)
           /\ st = "closing" => b.what = "info" /\ b.ike
<1>c. gwCurrent # NoSa => gwCurrent \in Sas
  BY DEF TunnelInv, GwInv, GwType, Sas, NoSa
<1>1. CASE GwProbe
  <2>1. PICK s \in Sas : Order(s, Info(FALSE, {}), "up")
    BY <1>1 DEF GwProbe
  <2>2. PICK b : Order(s, b, "up")
    BY <2>1
  <2> QED
    BY <2>2
<1>2. CASE GwAdditional
  <2>1. PICK s \in Sas : Order(s, Body("other"), "up")
    BY <1>2 DEF GwAdditional
  <2>2. PICK b : b = Body("other")
    OBVIOUS
  <2>3. b.what = "other"
    BY <2>2 DEF Body
  <2> QED
    BY <2>1, <2>2, <2>3
<1>3. CASE GwDeleteChild
  <2>1. PICK s \in Sas, c \in gwKids : Order(s, Info(FALSE, {c.out}), "up")
    BY <1>3 DEF GwDeleteChild
  <2>2. PICK b : Order(s, b, "up")
    BY <2>1
  <2> QED
    BY <2>2
<1>4. CASE GwRekeyChild
  <2>1. PICK b : b.what = "rekeyChild" /\ Order(gwCurrent, b, "up") /\ gwCurrent # NoSa
    BY <1>4 DEF GwRekeyChild
  <2> QED
    BY <2>1, <1>c
<1>5. CASE GwRekeyIke
  <2>1. PICK b : b = Body("rekeyIke")
    OBVIOUS
  <2>2. b.what = "rekeyIke"
    BY <2>1 DEF Body
  <2> QED
    BY <1>5, <2>1, <2>2, <1>c DEF GwRekeyIke
<1>6. CASE GwDeleteIke
  <2>1. PICK s \in Sas : Order(s, Info(TRUE, {}), "closing")
    BY <1>6 DEF GwDeleteIke
  <2>2. PICK b : b = Info(TRUE, {})
    OBVIOUS
  <2>3. b.what = "info" /\ b.ike = TRUE
    BY <2>2 DEF Info
  <2> QED
    BY <2>1, <2>2, <2>3
<1> QED
  BY <1>1, <1>2, <1>3, <1>4, <1>5, <1>6 DEF Orders

\* The first request on an IKE SA that is half open is not that of another.
LEMMA GatewayHalf ==
  ASSUME TunnelInv, HalfInv, Gateway
  PROVE  HalfInv'
<1> USE DEF HalfInv
<1>0. 1 \in Sas /\ gwSas \in [Sas -> GwSa] /\ gwSas[1].expect \in Nat /\ GwType
  BY Bounds, SaFields DEF TunnelInv, GwInv, GwType
<1>1. CASE GwOnInit
  <2>1. UNCHANGED gwSas \/ gwSas' = [gwSas EXCEPT ![1].state = "half", ![1].expect = 1]
    BY <1>1 DEF GwOnInit
  <2>2. gwSent \subseteq gwSent'
    BY <1>1 DEF GwOnInit, Reply
  <2>3. CASE gwSas' = [gwSas EXCEPT ![1].state = "half", ![1].expect = 1]
    BY <1>0, <2>2, <2>3, HalfIs
  <2> QED
    BY <2>1, <2>3
<1>2. ASSUME NEW m, m.sa \in Sas, NEW st \in SaStates, Taken(m, st), gwSent \subseteq gwSent' PROVE HalfInv'
  BY <1>0, <1>2, TakenIs
<1>3. CASE GwOnAuth \/ GwOnChild \/ GwOnInformational
  <2>1. PICK m, st : Expected(m) /\ st \in SaStates /\ Taken(m, st)
    BY <1>3, SaFields, <1>0 DEF GwOnAuth, GwOnChild, GwOnInformational, Expected, SaStates
  <2>2. gwSent \subseteq gwSent'
    BY <1>3 DEF GwOnAuth, GwOnChild, GwOnInformational, Reply
  <2> QED
    BY <1>2, <2>1, <2>2 DEF Expected
<1>5. CASE Orders
  <2>1. PICK s \in Sas : \E b, st : st \in {"up", "closing"} /\ Order(s, b, st)
    BY <1>5, OrdersAre
  <2>2. PICK b, st : st \in {"up", "closing"} /\ Order(s, b, st)
    BY <2>1
  <2>3. st \in SaStates
    BY <2>2 DEF SaStates
  <2> DEFINE m == Message(s, gwSas[s].id, FALSE, b)
  <2>4. /\ gwSas' \in [Sas -> [state : SaStates, expect : Nat, id : Nat, order : gwSent' \cup {NoMessage}]]
        /\ \A t \in Sas : t # s => gwSas'[t] = gwSas[t]
        /\ gwSas'[s].expect = gwSas[s].expect /\ gwSas'[s].state = st
        /\ gwSas'[s].id = gwSas[s].id + 1 /\ gwSas'[s].order = m
        /\ gwSent' = gwSent \cup {m}
        /\ m.sa = s /\ m.id = gwSas[s].id /\ ~m.resp /\ m.resp \in BOOLEAN /\ m.body = b /\ m # NoMessage
    BY <1>0, <2>2, <2>3, OrderedIs
  <2> HIDE DEF m
  <2> QED
    BY <1>0, <2>2, <2>4
<1>6. CASE GwOnResponse
  <2>1. PICK m \in sent :
          /\ m.resp /\ m.sa \in Sas /\ gwSas[m.sa].order # NoMessage /\ m.id = gwSas[m.sa].order.id
          /\ gwSas' = IF m.body.what = "ikeCreated" THEN [Cleared(m.sa) EXCEPT ![m.body.sa].state = "up"]
                      ELSE Cleared(m.sa)
    BY <1>6 DEF GwOnResponse, Cleared
  <2>2. /\ \A t \in Sas : gwSas'[t].expect = gwSas[t].expect
        /\ gwSas'[m.sa].state = Closed(gwSas[m.sa].state)
        /\ \A t \in Sas : t # m.sa /\ gwSas'[t].state # gwSas[t].state => gwSas'[t].state = "up"
    BY <2>1, ResponseIs DEF TunnelInv
  <2> QED
    BY <1>0, <2>2 DEF Closed
<1>7. CASE GwCrash
  BY <1>7 DEF GwCrash
<1> QED
  BY <1>1, <1>3, <1>5, <1>6, <1>7 DEF Gateway, Orders

\* The numbers of the client, and the IKE SAs they stand for.
LEMMA Sizes ==
  ASSUME TunnelInv
  PROVE  /\ sa \in Nat /\ next \in Nat /\ sas \in Nat /\ messageId \in Nat /\ peerMessageId \in Nat
         /\ wait.sa \in Nat /\ wait.id \in Nat
         /\ sa # NoSa => sa \in Sas
         /\ next # NoSa => next \in Sas /\ sa \in Sas /\ sa # NoSa /\ sa < next /\ next = sa + 1 /\ next # 1
<1>1. sa \in Nat /\ next \in Nat /\ sas \in Nat /\ messageId \in Nat /\ peerMessageId \in Nat /\ sa <= sas
  BY DEF TunnelInv, IInv, KeyInv, Numeric, SaOrder
<1>2. wait.sa \in Nat /\ wait.id \in Nat
  BY DEF TunnelInv, TypeInv, WaitType
<1> QED
  BY <1>1, <1>2, Bounds DEF TunnelInv, GwInv, NumberInv, Sas, NoSa

\* The gateway answers the request under way.
LEMMA TakenLive ==
  ASSUME TunnelInv, PaceInv, StateInv, Live, UNCHANGED vars, NEW m \in sent, Expected(m),
         NEW st \in SaStates, Taken(m, st), NEW b, Reply(m, b),
         \/ Agreed /\ st = gwSas[m.sa].state /\ gwCurrent' = gwCurrent
         \/ ~Agreed /\ (b.what = "created" => st = "up" /\ gwCurrent' # NoSa)
  PROVE  PaceInv' /\ StateInv'
<1>c. UNCHANGED <<sa, next, messageId, peerMessageId, task, wait, sent>>
  BY ClientSame
<1>m. /\ m.sa = sa /\ sa \in Sas /\ task \in Asking \ {"init"} /\ m.id = wait.id /\ gwSas[sa].expect = wait.id
      /\ \A r \in gwSent : ~Answer(r)
  BY LiveExpected
<1> DEFINE n == Message(m.sa, m.id, TRUE, b)
<1>r. gwSent' = gwSent \cup {n} /\ n.body = b
  BY DEF Reply, Message
<1> HIDE DEF n
<1>t. /\ \A s \in Sas : gwSas'[s].id = gwSas[s].id /\ gwSas'[s].order = gwSas[s].order
      /\ \A s \in Sas : s # m.sa => gwSas'[s] = gwSas[s]
      /\ gwSas'[m.sa].expect = gwSas[m.sa].expect + 1 /\ gwSas'[m.sa].state = st
  BY <1>m, <1>r, TakenIs DEF TunnelInv, GwInv, GwType
<1>f. \A s \in Sas : gwSas[s].expect \in Nat
  BY SaFields DEF TunnelInv, GwInv
<1>1. PaceInv'
  <2>1. \A q \in sent : ~q.resp /\ q.sa # NoSa /\ q.sa < sa => q.sa \in Sas /\ q.sa # sa
    BY Sizes, Bounds DEF TunnelInv, IInv, KeyInv, SentBefore, GwInv, NumberInv, Sas, NoSa
  <2> QED
    BY <1>c, <1>m, <1>t, <1>f, <2>1, Sizes DEF PaceInv
<1>2. ASSUME Agreed' PROVE (gwSas[sa].state \in {"up", "closing"} /\ Announced(sa, peerMessageId) /\ gwCurrent # NoSa)'
  <2>1. CASE Agreed
    BY <1>c, <1>m, <1>t, <2>1 DEF StateInv, Announced
  <2>2. CASE ~Agreed
    <3>1. \E r \in gwSent' : Answer(r)' /\ r.body.what = "created"
      BY <1>2, <1>c, <2>2 DEF Agreed
    <3>2. b.what = "created"
      BY <3>1, <1>c, <1>m, <1>r DEF Answer
    <3> QED
      BY <1>c, <1>m, <1>t, <2>2, <3>2 DEF Announced
  <2> QED
    BY <2>1, <2>2
<1>3. ASSUME next # NoSa PROVE (gwSas[next].state \in {"none", "up", "closing"} /\ Announced(next, 0))'
  <2>1. next \in Sas /\ next # sa
    BY <1>3, Sizes
  <2> QED
    BY <1>c, <1>m, <1>t, <1>3, <2>1 DEF StateInv, Announced
<1>4. (sa # NoSa /\ gwSas[sa].order # NoMessage /\ Handled(sa) /\ gwSas[sa].order.body.what = "info"
         => ~gwSas[sa].order.body.ike)'
  BY <1>c, <1>m, <1>t DEF StateInv, Handled
<1> QED
  BY <1>1, <1>2, <1>3, <1>4, <1>c DEF StateInv

\* The gateway sends a request.
LEMMA OrderedLive ==
  ASSUME TunnelInv, PaceInv, StateInv, UNCHANGED vars, NEW s \in Sas, NEW b, NEW st \in {"up", "closing"},
         Order(s, b, st), st = "closing" => b.what = "info" /\ b.ike
  PROVE  PaceInv' /\ StateInv'
<1>c. UNCHANGED <<sa, next, messageId, peerMessageId, task, wait, sent>>
  BY ClientSame
<1>k. st \in SaStates /\ GwType
  BY DEF SaStates, TunnelInv, GwInv
<1> DEFINE m == Message(s, gwSas[s].id, FALSE, b)
<1>t. /\ gwSas' \in [Sas -> [state : SaStates, expect : Nat, id : Nat, order : gwSent' \cup {NoMessage}]]
      /\ \A t \in Sas : t # s => gwSas'[t] = gwSas[t]
      /\ gwSas'[s].expect = gwSas[s].expect /\ gwSas'[s].state = st
      /\ gwSas'[s].id = gwSas[s].id + 1 /\ gwSas'[s].order = m
      /\ gwSent' = gwSent \cup {m}
      /\ m.sa = s /\ m.id = gwSas[s].id /\ ~m.resp /\ m.resp \in BOOLEAN /\ m.body = b /\ m # NoMessage
  BY <1>k, OrderedIs
<1> HIDE DEF m
<1>u. gwSas[s].state = "up" /\ gwSas[s].order = NoMessage /\ UNCHANGED gwCurrent
  BY DEF Order
<1>f. \A t \in Sas : gwSas[t].expect \in Nat /\ gwSas[t].id \in Nat /\ gwSas'[t].expect = gwSas[t].expect
  BY <1>t, SaFields DEF TunnelInv, GwInv
<1>1. PaceInv'
  <2>1. \A q \in sent : ~q.resp /\ q.sa # NoSa /\ q.sa < sa => q.sa \in Sas
    BY Sizes, Bounds DEF TunnelInv, IInv, KeyInv, SentBefore, GwInv, NumberInv, Sas, NoSa
  <2> QED
    BY <1>c, <1>f, <2>1, Sizes DEF PaceInv
<1>2. ASSUME Agreed' PROVE (gwSas[sa].state \in {"up", "closing"} /\ Announced(sa, peerMessageId) /\ gwCurrent # NoSa)'
  <2>1. Agreed
    BY <1>2, <1>c, <1>t DEF Agreed, Answer
  <2>2. sa \in Sas /\ sa # NoSa
    <3>1. task \notin {"start", "init"} /\ stage # "Init"
      BY <2>1 DEF Agreed, TunnelInv, CliInv, KeyedInv, IInv, ControlInv, Committed
    <3> QED
      BY <3>1, Sizes DEF TunnelInv, CliInv, KeyedInv
  <2>3. CASE s # sa
    BY <1>c, <1>t, <1>u, <2>1, <2>2, <2>3 DEF StateInv, Announced
  <2>4. CASE s = sa
    <3>1. gwSas[sa].id = peerMessageId
      BY <1>u, <2>2, <2>4 DEF TunnelInv, GwInv, CountInv
    <3> QED
      BY <1>c, <1>t, <1>u, <2>1, <2>2, <2>4, <3>1 DEF StateInv, Announced
  <2> QED
    BY <2>3, <2>4
<1>3. ASSUME next # NoSa PROVE (gwSas[next].state \in {"none", "up", "closing"} /\ Announced(next, 0))'
  <2>1. next \in Sas
    BY <1>3, Sizes
  <2>2. CASE s # next
    BY <1>c, <1>t, <1>3, <2>1, <2>2 DEF StateInv, Announced
  <2>3. CASE s = next
    <3>1. gwSas[next].id = 0
      BY <1>u, <1>3, <2>3 DEF TunnelInv, GwInv, NextInv
    <3> QED
      BY <1>c, <1>t, <2>3, <3>1 DEF Announced
  <2> QED
    BY <2>2, <2>3
<1>4. (sa # NoSa /\ gwSas[sa].order # NoMessage /\ Handled(sa) /\ gwSas[sa].order.body.what = "info"
         => ~gwSas[sa].order.body.ike)'
  <2>1. CASE sa = NoSa
    BY <2>1, <1>c
  <2>2. CASE sa # NoSa /\ sa # s
    BY <2>2, <1>c, <1>t, Sizes DEF StateInv, Handled
  <2>3. CASE sa # NoSa /\ sa = s
    <3>1. gwSas[sa].id = peerMessageId
      BY <1>u, <2>3 DEF TunnelInv, GwInv, CountInv
    <3> QED
      BY <3>1, <2>3, <1>c, <1>t, <1>f, Sizes DEF Handled
  <2> QED
    BY <2>1, <2>2, <2>3
<1> QED
  BY <1>1, <1>2, <1>3, <1>4, <1>c DEF StateInv

\* The gateway takes a response.
LEMMA ResponseLive ==
  ASSUME TunnelInv, PaceInv, StateInv, UNCHANGED vars, NEW m \in sent, m.resp, m.sa \in Sas,
         gwSas[m.sa].order # NoMessage, m.id = gwSas[m.sa].order.id,
         gwSas' = IF m.body.what = "ikeCreated" THEN [Cleared(m.sa) EXCEPT ![m.body.sa].state = "up"] ELSE Cleared(m.sa),
         gwCurrent' = IF m.body.what = "ikeCreated" THEN m.body.sa ELSE gwCurrent,
         UNCHANGED gwSent
  PROVE  PaceInv' /\ StateInv'
<1>c. UNCHANGED <<sa, next, messageId, peerMessageId, task, wait, sent>>
  BY ClientSame
<1>a. /\ m.sa <= sa /\ sa \in Sas /\ sa # NoSa
      /\ m.sa = sa => Handled(sa)
      /\ m.body.what = "ikeCreated" => m.body.sa = next /\ next \in Sas
  BY ResponseFacts, Bounds DEF TunnelInv
<1>t. /\ \A t \in Sas : gwSas'[t].expect = gwSas[t].expect /\ gwSas'[t].id = gwSas[t].id
      /\ \A t \in Sas : t # m.sa => gwSas'[t].order = gwSas[t].order
      /\ gwSas'[m.sa].order = NoMessage /\ gwSas'[m.sa].state = Closed(gwSas[m.sa].state)
      /\ \A t \in Sas : t # m.sa /\ gwSas'[t].state # gwSas[t].state => t = next /\ gwSas'[t].state = "up"
  BY ResponseIs DEF TunnelInv
<1>1. PaceInv'
  <2>1. \A q \in sent : ~q.resp /\ q.sa # NoSa /\ q.sa < sa => q.sa \in Sas
    BY Sizes, Bounds DEF TunnelInv, IInv, KeyInv, SentBefore, GwInv, NumberInv, Sas, NoSa
  <2> QED
    BY <1>c, <1>a, <1>t, <2>1 DEF PaceInv
<1>2. ASSUME Agreed' PROVE (gwSas[sa].state \in {"up", "closing"} /\ Announced(sa, peerMessageId) /\ gwCurrent # NoSa)'
  <2>1. Agreed
    BY <1>2, <1>c DEF Agreed, Answer
  <2>2. gwCurrent' # NoSa
    BY <1>a, <2>1, Bounds DEF StateInv
  <2>3. CASE m.sa # sa
    <3>1. gwSas'[sa].state = gwSas[sa].state
      BY <1>a, <1>t, <2>3, Sizes
    <3>2. gwSas'[sa].order = gwSas[sa].order /\ gwSas'[sa].id = gwSas[sa].id
      BY <1>a, <1>t, <2>3
    <3>3. gwSas[sa].state \in {"up", "closing"} /\ Announced(sa, peerMessageId)
      BY <2>1 DEF StateInv
    <3> QED
      BY <1>c, <2>2, <3>1, <3>2, <3>3 DEF Announced
  <2>4. CASE m.sa = sa
    <3>1. gwSas[sa].state = "up"
      BY <1>a, <2>1, <2>4, Sizes DEF StateInv, Announced, Handled
    <3> QED
      BY <1>c, <1>t, <2>2, <2>4, <3>1 DEF Closed, Announced
  <2> QED
    BY <2>3, <2>4
<1>3. ASSUME next # NoSa PROVE (gwSas[next].state \in {"none", "up", "closing"} /\ Announced(next, 0))'
  <2>1. next \in Sas /\ next # m.sa
    BY <1>3, <1>a, Sizes, Bounds
  <2> QED
    BY <1>c, <1>t, <1>3, <2>1 DEF StateInv, Announced
<1>4. (sa # NoSa /\ gwSas[sa].order # NoMessage /\ Handled(sa) /\ gwSas[sa].order.body.what = "info"
         => ~gwSas[sa].order.body.ike)'
  BY <1>c, <1>a, <1>t DEF StateInv, Handled
<1> QED
  BY <1>1, <1>2, <1>3, <1>4, <1>c DEF StateInv

\* The gateway answers IKE_SA_INIT.
LEMMA InitLive ==
  ASSUME TunnelInv, PaceInv, StateInv, UNCHANGED vars, UNCHANGED gwCurrent,
         NEW m \in sent, m.body.what = "init", gwSas[1].state = "none",
         NEW b, Reply(m, b), b.what \in {"redirected", "refused", "accepted"},
         UNCHANGED gwSas \/ gwSas' = [gwSas EXCEPT ![1].state = "half", ![1].expect = 1]
  PROVE  PaceInv' /\ StateInv'
<1>c. UNCHANGED <<sa, next, messageId, peerMessageId, task, wait, sent>>
  BY ClientSame
<1> DEFINE n == Message(m.sa, m.id, TRUE, b)
<1>r. gwSent' = gwSent \cup {n} /\ n.body = b
  BY DEF Reply, Message
<1> HIDE DEF n
<1>s. GwType /\ 1 \in Sas /\ \A t \in Sas : gwSas[t].expect \in Nat
  BY Bounds, SaFields DEF TunnelInv, GwInv
<1>t. /\ \A t \in Sas : t # 1 => gwSas'[t] = gwSas[t]
      /\ gwSas'[1].expect >= gwSas[1].expect
  <2>1. CASE UNCHANGED gwSas
    BY <2>1, <1>s
  <2>2. CASE gwSas' = [gwSas EXCEPT ![1].state = "half", ![1].expect = 1]
    <3>1. (\A t \in Sas : t # 1 => gwSas'[t] = gwSas[t]) /\ gwSas'[1].expect = 1
      BY <2>2, <1>s, <1>r, HalfIs
    <3>2. gwSas[1].expect = 0
      BY <1>s DEF TunnelInv, GwInv, CurrentInv
    <3> QED
      BY <3>1, <3>2
  <2> QED
    BY <2>1, <2>2
<1>1. sa # NoSa => sa \in Sas /\ sa # 1
  BY Sizes DEF TunnelInv, GwInv, CountInv
<1>e. \A t \in Sas : gwSas'[t].expect >= gwSas[t].expect /\ gwSas'[t].expect \in Nat
  <2>1. gwSas'[1].expect \in Nat
    BY <1>s, <1>r, HalfIs
  <2> QED
    BY <2>1, <1>s, <1>t
<1>2. PaceInv'
  <2>1. \A q \in sent : ~q.resp /\ q.sa # NoSa /\ q.sa < sa => q.sa \in Sas /\ q.id \in Nat
    BY Sizes, Bounds DEF TunnelInv, IInv, KeyInv, SentBefore, GwInv, NumberInv, Sas, NoSa
  <2>2. ASSUME NEW q \in sent, ~q.resp, q.sa # NoSa, q.sa < sa PROVE q.id < gwSas'[q.sa].expect
    BY <2>1, <2>2, <1>e, <1>s DEF PaceInv
  <2> QED
    BY <1>c, <1>1, <1>t, <2>2 DEF PaceInv
<1>3. Agreed' => Agreed
  BY <1>c, <1>r DEF Agreed, Answer
<1>4. Agreed => sa # NoSa
  BY DEF Agreed, TunnelInv, CliInv, KeyedInv, IInv, ControlInv, Committed
<1>5. StateInv'
  BY <1>c, <1>1, <1>t, <1>3, <1>4, Sizes DEF StateInv, Announced, Handled
<1> QED
  BY <1>2, <1>5

\* A step of the gateway.
LEMMA GatewayLive ==
  ASSUME TunnelInv, LiveInv, Gateway
  PROVE  LiveInv'
<1>v. UNCHANGED vars
  BY DEF Gateway
<1>c. UNCHANGED <<sa, task, wait>>
  BY <1>v, ClientSame
<1>h. HalfInv'
  BY GatewayHalf DEF LiveInv
<1> SUFFICES ASSUME Live' PROVE PaceInv' /\ StateInv'
  BY <1>h DEF LiveInv
<1>0. gwAlive' /\ ~GwCrash
  BY DEF Live, GwCrash
<1>l. Live /\ PaceInv /\ StateInv
  <2>1. gwAlive
    BY <1>0 DEF Gateway, GwOnInit, GwOnAuth, GwOnChild, GwOnInformational, GwProbe, GwAdditional, GwDeleteChild,
       GwRekeyChild, GwRekeyIke, GwDeleteIke, GwOnResponse, Order, Expected
  <2> QED
    BY <2>1, <1>c DEF Live, LiveInv
<1>s. GwType /\ \A s \in Sas : gwSas[s].state \in SaStates
  BY SaFields DEF TunnelInv, GwInv
<1>1. CASE GwOnInit
  <2>1. PICK m \in sent :
          /\ m.body.what = "init" /\ gwSas[1].state = "none" /\ UNCHANGED gwCurrent
          /\ \/ Reply(m, [what |-> "redirected", of |-> m.body.left]) /\ UNCHANGED gwSas
             \/ Reply(m, Body("refused")) /\ UNCHANGED gwSas
             \/ Reply(m, Body("accepted")) /\ gwSas' = [gwSas EXCEPT ![1].state = "half", ![1].expect = 1]
    BY <1>1 DEF GwOnInit
  <2>2. PICK b : /\ b \in {[what |-> "redirected", of |-> m.body.left], Body("refused"), Body("accepted")}
                 /\ Reply(m, b)
    BY <2>1
  <2>3. b.what \in {"redirected", "refused", "accepted"}
    BY <2>2 DEF Body
  <2>4. UNCHANGED gwSas \/ gwSas' = [gwSas EXCEPT ![1].state = "half", ![1].expect = 1]
    BY <2>1
  <2> QED
    BY <1>v, <1>l, <2>1, <2>2, <2>3, <2>4, InitLive
<1>b. ASSUME NEW m \in sent, Expected(m)
      PROVE  /\ m.body.what \in {"auth", "eap", "final"} <=> task \in {"auth", "eap", "final"}
             /\ m.body.what # "deleteIke" /\ task \in Asking \ {"init"} /\ \A r \in gwSent : ~Answer(r)
  <2>1. task \in Asking \ {"init"} /\ m.body = wait.body /\ \A r \in gwSent : ~Answer(r)
    BY <1>b, <1>l, LiveExpected
  <2>2. task = "child" => wait.body.what = "child"
    BY DEF TunnelInv, CliInv, BodyInv, ChildRequest
  <2>3. task = "delete" => wait.body.what = "deleteChild"
    BY DEF TunnelInv, CliInv, BodyInv
  <2>4. task \in {"auth", "eap", "final", "dpd"} => wait.body.what = task
    BY DEF TunnelInv, CliInv, BodyInv, Body
  <2> QED
    BY <2>1, <2>2, <2>3, <2>4 DEF Asking
<1>2. CASE GwOnAuth
  <2>1. PICK m \in sent : \E b, st :
          /\ Expected(m) /\ m.body.what \in {"auth", "eap", "final"} /\ Reply(m, b)
          /\ st \in {"gone", "half", "up"} /\ Taken(m, st)
          /\ b.what = "created" => st = "up" /\ gwCurrent' = 1
    <3>1. ASSUME NEW w \in {"refused", "eapRequest", "eapSuccess", "authOnly"} PROVE Body(w).what # "created"
      BY DEF Body
    <3>2. PICK m \in sent :
          /\ Expected(m) /\ m.body.what \in {"auth", "eap", "final"}
          /\ \/ Reply(m, Body("refused")) /\ Taken(m, "gone")
             \/ (Reply(m, Body("eapRequest")) \/ Reply(m, Body("eapSuccess"))) /\ Taken(m, "half")
             \/ Taken(m, "up") /\ Reply(m, Body("authOnly"))
             \/ Taken(m, "up") /\ gwCurrent' = 1 /\ \E b : Reply(m, b)
      BY <1>2 DEF GwOnAuth
    <3> QED
      BY <3>1, <3>2
  <2>2. PICK b, st :
          /\ Expected(m) /\ m.body.what \in {"auth", "eap", "final"} /\ Reply(m, b)
          /\ st \in {"gone", "half", "up"} /\ Taken(m, st)
          /\ b.what = "created" => st = "up" /\ gwCurrent' = 1
    BY <2>1
  <2>3. st \in SaStates
    BY <2>2 DEF SaStates
  <2>4. ~Agreed
    BY <2>2, <1>b DEF Agreed
  <2> QED
    BY <1>v, <1>l, <2>2, <2>3, <2>4, TakenLive DEF NoSa
<1>3. CASE GwOnChild \/ GwOnInformational
  <2>1. PICK m \in sent : \E b :
          /\ Expected(m) /\ m.body.what \in {"child", "dpd", "deleteChild", "deleteIke"} /\ Reply(m, b)
          /\ m.body.what # "deleteIke" => Taken(m, gwSas[m.sa].state)
          /\ UNCHANGED gwCurrent
    BY <1>3 DEF GwOnChild, GwOnInformational
  <2>2. PICK b :
          /\ Expected(m) /\ m.body.what \in {"child", "dpd", "deleteChild", "deleteIke"} /\ Reply(m, b)
          /\ m.body.what # "deleteIke" => Taken(m, gwSas[m.sa].state)
          /\ UNCHANGED gwCurrent
    BY <2>1
  <2>3. Agreed /\ m.body.what # "deleteIke"
    BY <2>2, <1>b DEF Agreed, Asking
  <2>4. PICK st \in SaStates : st = gwSas[m.sa].state
    BY <2>2, <1>s DEF Expected
  <2> QED
    BY <1>v, <1>l, <2>2, <2>3, <2>4, TakenLive
<1>4. CASE Orders
  <2>1. PICK s \in Sas : \E b, st : /\ st \in {"up", "closing"} /\ Order(s, b, st)
                                    /\ st = "closing" => b.what = "info" /\ b.ike
    BY <1>4, OrdersAre
  <2>2. PICK b, st : /\ st \in {"up", "closing"} /\ Order(s, b, st)
                     /\ st = "closing" => b.what = "info" /\ b.ike
    BY <2>1
  <2> QED
    BY <1>v, <1>l, <2>2, OrderedLive
<1>5. CASE GwOnResponse
  <2>1. PICK m \in sent :
          /\ m.resp /\ m.sa \in Sas /\ gwSas[m.sa].order # NoMessage /\ m.id = gwSas[m.sa].order.id
          /\ gwSas' = IF m.body.what = "ikeCreated" THEN [Cleared(m.sa) EXCEPT ![m.body.sa].state = "up"]
                      ELSE Cleared(m.sa)
          /\ gwCurrent' = IF m.body.what = "ikeCreated" THEN m.body.sa ELSE gwCurrent
          /\ UNCHANGED gwSent
    BY <1>5 DEF GwOnResponse, Cleared
  <2> QED
    BY <1>v, <1>l, <2>1, ResponseLive
<1> QED
  BY <1>0, <1>1, <1>2, <1>3, <1>4, <1>5 DEF Gateway, Orders

\* A client that moves on from what the gateway has answered: to a request, or
\* back to its loop.
LEMMA OnwardLive ==
  ASSUME TunnelInv, PaceInv, StateInv, UNCHANGED gwVars, UNCHANGED saVars, sa # NoSa, gwSas[sa].expect >= messageId,
         \/ task' = "watch" /\ UNCHANGED <<messageId, sent>>
         \/ task' # "watch" /\ \E b : Request(sa, messageId, task', b),
         task' \in (Asking \ {"init"}) \cup {"watch"}, task' \in {"watch", "child", "delete", "dpd"} => Agreed
  PROVE  PaceInv' /\ StateInv'
<1>c. UNCHANGED <<gwSas, gwCurrent, gwSent, sa, next, peerMessageId>>
  BY GatewaySame DEF saVars
<1>n. sa \in Nat /\ messageId \in Nat
  BY Sizes
<1>1. CASE task' = "watch" /\ UNCHANGED <<messageId, sent>>
  <2>1. PaceInv'
    BY <1>1, <1>c DEF PaceInv, Asking
  <2>2. StateInv'
    BY <1>1, <1>c DEF StateInv, Announced, Handled
  <2> QED
    BY <2>1, <2>2
<1>2. CASE task' # "watch" /\ \E b : Request(sa, messageId, task', b)
  <2>0. task' # "watch"
    BY <1>2
  <2>1. PICK b : Request(sa, messageId, task', b)
    BY <1>2
  <2> DEFINE q == Message(sa, messageId, FALSE, b)
  <2>2. wait'.id = messageId /\ sent' = sent \cup {q} /\ messageId' = messageId + 1 /\ q.sa = sa
    BY <2>1 DEF Request, Message
  <2> HIDE DEF q
  <2>3. PaceInv'
    <3>1. task' \in Asking \/ task' = "watch"
      OBVIOUS
    <3>2. task' # "watch"
      BY <2>0
    <3> QED
      BY <1>c, <1>n, <2>2, <3>1, <3>2 DEF PaceInv
  <2>4. Agreed' => Agreed
    <3> SUFFICES ASSUME Agreed', task' \in {"auth", "final"} PROVE FALSE
      BY DEF Agreed
    <3>1. PICK r \in gwSent : r.resp /\ r.sa = sa /\ r.id = messageId
      BY <1>c, <2>2 DEF Agreed, Answer
    <3> QED
      BY <3>1, <1>n, NoReplyYet
  <2>5. StateInv'
    BY <1>c, <2>4 DEF StateInv, Announced, Handled
  <2> QED
    BY <2>3, <2>5
<1> QED
  BY <1>1, <1>2

\* The end of the session is not alive.
LEMMA TeardownDead ==
  ASSUME NEW o, NEW st, NEW d, NEW kids, Teardown(o, st, d, kids)
  PROVE  ~Live'
BY DEF Teardown, Request, Done, Live, Asking

\* The next CHILD SA of the setup.
LEMMA NextChildLive ==
  ASSUME TunnelInv, PaceInv, StateInv, UNCHANGED gwVars, UNCHANGED saVars, sa # NoSa, gwSas[sa].expect >= messageId,
         Agreed, NEW kids, NextChild(kids), Live'
  PROVE  PaceInv' /\ StateInv'
<1>1. CASE Uncovered(todo, kids) # <<>>
  <2>1. task' = "child" /\ \E b : Request(sa, messageId, "child", b)
    BY <1>1 DEF NextChild, CreateChild, Request
  <2> QED
    BY <2>1, OnwardLive DEF Asking
<1>2. CASE Uncovered(todo, kids) = <<>>
  <2>1. BringUp(kids)
    BY <1>2 DEF NextChild
  <2>2. ~Fail("Established", kids)
    BY TeardownDead DEF Fail
  <2>3. task' = "watch" /\ UNCHANGED <<messageId, sent>>
    BY <2>1, <2>2 DEF BringUp, Watch
  <2> QED
    BY <2>3, OnwardLive
<1> QED
  BY <1>1, <1>2

\* An attempt of IKE_SA_INIT.
LEMMA AttemptLive ==
  ASSUME TunnelInv, UNCHANGED gwVars, sa = NoSa, next = NoSa, sa' = sa, next' = next, NEW n, InitRequest(n)
  PROVE  PaceInv' /\ StateInv'
<1>c. UNCHANGED <<gwSas, gwCurrent, gwSent, sa, next>>
  BY GatewaySame
<1> DEFINE q == Message(NoSa, 0, FALSE, [what |-> "init", left |-> n])
<1>1. task' = "init" /\ messageId' = 1 /\ sent' = sent \cup {q} /\ q.sa = NoSa
  BY DEF InitRequest, Request, Message
<1> HIDE DEF q
<1>2. \A m \in sent' : m.sa = NoSa
  BY <1>1 DEF TunnelInv, IInv, KeyInv, SentBefore, NoSa
<1>3. PaceInv'
  BY <1>c, <1>1, <1>2 DEF PaceInv
<1>4. StateInv'
  BY <1>c, <1>1 DEF StateInv, Agreed
<1> QED
  BY <1>3, <1>4

\* The client receives a response.
LEMMA ReplyLive ==
  ASSUME TunnelInv, LiveInv, UNCHANGED gwVars, NEW m \in gwSent, OnReply(m), Live'
  PROVE  PaceInv' /\ StateInv'
<1>c. UNCHANGED <<gwSas, gwCurrent, gwAlive, gwSent>>
  BY GatewaySame
<1>0. ~OnCloseReply(m)
  BY DEF OnCloseReply, Done, Live, Asking
<1>a. task \in Asking /\ Answers(m)
  BY <1>0 DEF OnReply, OnInitReply, OnFinalReply, OnEapReply, OnChildReply, OnPlainReply, Asking
<1>b. /\ wait.sa = sa /\ messageId = wait.id + 1 /\ m.resp /\ m.sa = sa /\ m.id = wait.id
      /\ sa # NoSa => sa \in Sas /\ gwSas[sa].expect = messageId
  BY <1>a, ReplyInTime
<1>l. Live /\ PaceInv /\ StateInv
  BY <1>a, <1>b, <1>c DEF Live, LiveInv
<1>n. sa \in Nat /\ messageId \in Nat /\ (sa # NoSa => gwSas[sa].expect >= messageId)
  BY <1>b, Sizes
<1>1. CASE OnInitReply(m)
  <2>0. task = "init" /\ sa = NoSa /\ next = NoSa /\ next' = NoSa
    BY <1>1 DEF OnInitReply, TunnelInv, IInv, ControlInv, SetUp
  <2>1. CASE InitRequest(left - 1) /\ UNCHANGED sa
    BY <2>0, <2>1, AttemptLive
  <2>2. CASE Fail(stage, children)
    BY <2>2, TeardownDead DEF Fail
  <2>3. CASE m.body.what = "accepted" /\ sa' = 1 /\ Request(1, messageId, "auth", AuthRequest)
    <3>0. messageId = 1
      BY <1>l, <2>0 DEF PaceInv
    <3> DEFINE q == Message(1, messageId, FALSE, AuthRequest)
    <3>1. task' = "auth" /\ wait'.id = 1 /\ sent' = sent \cup {q} /\ q.sa = 1
      BY <2>3, <3>0 DEF Request, Message
    <3> HIDE DEF q
    <3>2. gwSas[1].state = "half" /\ gwSas[1].expect >= 1
      BY <1>b, <2>0, <2>3 DEF TunnelInv, GwInv, CurrentInv, LiveInv, HalfInv
    <3>3. \A x \in sent' : x.sa \in Nat /\ ~(x.sa # NoSa /\ x.sa < 1)
      BY <3>1 DEF TunnelInv, IInv, KeyInv, SentBefore, NoSa
    <3>4. PaceInv'
      BY <1>c, <2>3, <3>1, <3>2, <3>3 DEF PaceInv, Asking
    <3>5. ~Agreed'
      <4> SUFFICES ASSUME NEW r \in gwSent, r.resp, r.sa = 1 PROVE FALSE
        BY <1>c, <2>3, <3>1 DEF Agreed, Answer
      <4> QED
        BY <2>0, NoReplyYet DEF NoSa
    <3>6. gwSas[1].order = NoMessage
      BY <3>2, Bounds DEF TunnelInv, GwInv, OrderInv
    <3>7. StateInv'
      BY <1>c, <2>0, <2>3, <3>5, <3>6 DEF StateInv
    <3> QED
      BY <3>4, <3>7
  <2> QED
    BY <1>1, <2>1, <2>2, <2>3 DEF OnInitReply
<1>s. task # "init" => sa # NoSa
  BY <1>a DEF Asking, TunnelInv, CliInv, KeyedInv, IInv, ControlInv, Committed
<1>2. CASE OnFinalReply(m)
  <2>1. UNCHANGED saVars /\ task \in {"auth", "final"} /\ sa # NoSa
    BY <1>2, <1>s DEF OnFinalReply
  <2>2. CASE m.body.what = "created"
    <3>1. Agreed
      BY <1>b, <2>1, <2>2 DEF Agreed, Answer
    <3>2. \E kids : NextChild(kids)
      BY <1>2, <2>2 DEF OnFinalReply
    <3> QED
      BY <1>l, <1>n, <2>1, <3>1, <3>2, NextChildLive
  <2>3. CASE m.body.what # "created"
    <3>1. \E st, kids : Fail(st, kids)
      BY <1>2, <2>3 DEF OnFinalReply
    <3> QED
      BY <3>1, TeardownDead DEF Fail
  <2> QED
    BY <2>2, <2>3
<1>3. CASE OnEapReply(m)
  <2>1. UNCHANGED saVars /\ sa # NoSa
    BY <1>3, <1>s DEF OnEapReply
  <2>2. CASE Fail(stage, children)
    BY <2>2, TeardownDead DEF Fail
  <2>3. CASE task' \in {"eap", "final"} /\ \E b : Request(sa, messageId, task', b)
    BY <1>l, <1>n, <2>1, <2>3, OnwardLive DEF Asking
  <2> QED
    BY <1>3, <2>2, <2>3 DEF OnEapReply, Request
<1>4. CASE OnChildReply(m)
  <2>1. UNCHANGED saVars /\ task = "child" /\ sa # NoSa
    BY <1>4, <1>s DEF OnChildReply
  <2>2. Agreed
    BY <2>1 DEF Agreed
  <2>3. CASE \E kids : NextChild(kids)
    BY <1>l, <1>n, <2>1, <2>2, <2>3, NextChildLive
  <2>4. CASE Fail(stage, children)
    BY <2>4, TeardownDead DEF Fail
  <2>5. CASE Watch /\ UNCHANGED <<messageId, sent>>
    BY <1>l, <1>n, <2>1, <2>2, <2>5, OnwardLive DEF Watch
  <2>6. CASE task' \in {"child", "delete"} /\ \E b : Request(sa, messageId, task', b)
    BY <1>l, <1>n, <2>1, <2>2, <2>6, OnwardLive DEF Asking
  <2> QED
    BY <1>4, <2>3, <2>4, <2>5, <2>6 DEF OnChildReply, Request
<1>5. CASE OnPlainReply(m)
  <2>1. UNCHANGED <<saVars, messageId, sent>> /\ task' = "watch" /\ Agreed /\ sa # NoSa
    BY <1>5, <1>s DEF OnPlainReply, Watch, Agreed
  <2> QED
    BY <1>l, <1>n, <2>1, OnwardLive
<1> QED
  BY <1>0, <1>1, <1>2, <1>3, <1>4, <1>5 DEF OnReply

\* The client answers a request that ends nothing.
LEMMA RespondLive ==
  ASSUME TunnelInv, PaceInv, StateInv, UNCHANGED gwVars, NEW m \in gwSent, IsNew(m),
         UNCHANGED <<sa, messageId, task, wait>>, peerMessageId' = peerMessageId + 1,
         NEW n, sent' = sent \cup {n}, n.resp, m.body.what = "info" => ~m.body.ike,
         next' = next \/ (m.body.what = "rekeyIke" /\ next' = sas + 1)
  PROVE  PaceInv' /\ StateInv'
<1>c. UNCHANGED <<gwSas, gwCurrent, gwSent>>
  BY GatewaySame
<1>m. sa \in Sas /\ gwSas[sa].order = m /\ gwSas[sa].id = peerMessageId + 1
  BY NewIsLast DEF TunnelInv
<1>1. PaceInv'
  BY <1>c DEF PaceInv
<1>2. Agreed' => Agreed
  BY <1>c DEF Agreed, Answer
<1>3. ASSUME Agreed' PROVE (gwSas[sa].state \in {"up", "closing"} /\ Announced(sa, peerMessageId) /\ gwCurrent # NoSa)'
  BY <1>c, <1>m, <1>2, <1>3 DEF StateInv, Announced
<1>4. ASSUME next' # NoSa PROVE (gwSas[next].state \in {"none", "up", "closing"} /\ Announced(next, 0))'
  <2>1. CASE next' = next
    BY <1>c, <1>4, <2>1 DEF StateInv, Announced
  <2>2. CASE m.body.what = "rekeyIke" /\ next' = sas + 1
    <3>1. sa < MaxSas /\ sas = sa /\ sa >= 1 /\ sa \in Nat
      BY <1>m, <2>2, NewThenCurrent, Bounds DEF TunnelInv
    <3>2. next' \in Sas /\ next' > sas /\ next' > 1
      BY <3>1, <2>2, Bounds DEF Sas
    <3>3. gwSas[next'].state = "none"
      BY <3>2 DEF TunnelInv, GwInv, CurrentInv
    <3> QED
      BY <1>c, <3>3 DEF Announced
  <2> QED
    BY <2>1, <2>2
<1>5. (sa # NoSa /\ gwSas[sa].order # NoMessage /\ Handled(sa) /\ gwSas[sa].order.body.what = "info"
         => ~gwSas[sa].order.body.ike)'
  BY <1>c, <1>m
<1> QED
  BY <1>1, <1>3, <1>4, <1>5 DEF StateInv

\* The rekeyed IKE SA takes over.
LEMMA SwitchLive ==
  ASSUME TunnelInv, LiveInv, UNCHANGED gwVars, NEW m \in gwSent, IsNew(m), next # NoSa, SwitchIke,
         UNCHANGED <<task, wait>>, NEW n, sent' = sent \cup {n}, n.resp, Live'
  PROVE  task = "watch" /\ Live /\ PaceInv' /\ StateInv'
<1>c. UNCHANGED <<gwSas, gwCurrent, gwAlive, gwSent>>
  BY GatewaySame
<1>n. /\ sa \in Nat /\ next \in Nat /\ messageId \in Nat /\ next \in Sas /\ sa \in Sas /\ sa # NoSa /\ sa < next
      /\ wait.sa \in Nat
  BY Sizes
<1>s. sa' = next /\ next' = NoSa /\ messageId' = 0 /\ peerMessageId' = 0
  BY DEF SwitchIke
<1>1. task = "watch"
  <2>1. task \in Asking => wait.sa = next
    BY <1>s DEF Live
  <2>2. task \in Asking => wait.sa <= sa
    BY <1>n DEF TunnelInv, CliInv, AskedInv
  <2> QED
    BY <1>n, <2>1, <2>2 DEF Live
<1>l. Live /\ PaceInv /\ StateInv
  BY <1>1, <1>c DEF Live, LiveInv, Asking
<1>t. gwCurrent = next /\ gwSas[next].state \in {"up", "closing", "gone"}
  BY NewThenCurrent DEF TunnelInv
<1>2. PaceInv'
  <2>1. gwSas[sa].expect >= messageId /\ gwSas[next].expect = 0 /\ gwSas[sa].expect \in Nat
    BY <1>1, <1>l, <1>n, SaFields DEF PaceInv, Asking, TunnelInv, GwInv, NextInv
  <2>2. ASSUME NEW q \in sent, ~q.resp, q.sa # NoSa PROVE q.id < gwSas[q.sa].expect
    <3>1. q.sa \in Nat /\ q.id \in Nat /\ q.sa <= sa /\ (q.sa = sa => q.id < messageId)
      BY <1>n, <2>2 DEF TunnelInv, IInv, KeyInv, SentBefore
    <3> QED
      BY <1>l, <1>n, <2>1, <2>2, <3>1 DEF PaceInv
  <2>3. \A q \in sent' : ~q.resp => q \in sent
    OBVIOUS
  <2> QED
    BY <1>1, <1>c, <1>s, <2>1, <2>2, <2>3 DEF PaceInv, Asking
<1>3. (gwSas[sa].state \in {"up", "closing"} /\ Announced(sa, peerMessageId) /\ gwCurrent # NoSa)'
  BY <1>c, <1>s, <1>l, <1>t DEF StateInv, Announced
<1>4. gwSas[next].order # NoMessage => gwSas[next].id # 0
  BY DEF TunnelInv, GwInv, NextInv
<1>5. StateInv'
  BY <1>c, <1>s, <1>3, <1>4 DEF StateInv, Handled
<1> QED
  BY <1>1, <1>l, <1>2, <1>5

\* The client receives a request.
LEMMA OrderLive ==
  ASSUME TunnelInv, LiveInv, UNCHANGED gwVars, NEW m \in gwSent, OnOrder(m), Live'
  PROVE  PaceInv' /\ StateInv'
<1>c. UNCHANGED <<gwSas, gwCurrent, gwAlive, gwSent>>
  BY GatewaySame
<1>1. CASE OnRetransmission(m)
  <2>1. sent' = sent
    BY <1>1 DEF OnRetransmission, TunnelInv, IInv, KeyInv, LastSent
  <2>2. UNCHANGED <<sa, next, messageId, peerMessageId, task, wait>>
    BY <1>1 DEF OnRetransmission, saVars
  <2>3. PaceInv /\ StateInv
    BY <1>c, <2>2 DEF Live, LiveInv
  <2> QED
    BY <1>c, <2>1, <2>2, <2>3 DEF PaceInv, StateInv, Announced, Agreed, Answer, Handled
<1>2. ASSUME IsNew(m), UNCHANGED <<sa, messageId, task, wait>>, peerMessageId' = peerMessageId + 1,
             NEW b, sent' = sent \cup {Message(sa, m.id, TRUE, b)}, m.body.what = "info" => ~m.body.ike,
             next' = next \/ (m.body.what = "rekeyIke" /\ next' = sas + 1)
      PROVE  PaceInv' /\ StateInv'
  <2>1. PICK n : n = Message(sa, m.id, TRUE, b)
    OBVIOUS
  <2>2. n.resp
    BY <2>1 DEF Message
  <2>3. PaceInv /\ StateInv
    BY <1>c, <1>2 DEF Live, LiveInv
  <2> QED
    BY <1>2, <2>1, <2>2, <2>3, RespondLive
<1>3. CASE OnRefused(m) \/ OnIkeRekey(m) \/ OnChildRekey(m)
  <2>1. /\ IsNew(m) /\ UNCHANGED <<sa, messageId, task, wait>> /\ m.body.what # "info"
        /\ \E b : Respond(m, b)
        /\ next' = next \/ (m.body.what = "rekeyIke" /\ next' = sas + 1)
    BY <1>3 DEF OnRefused, OnIkeRekey, OnChildRekey
  <2> QED
    BY <1>2, <2>1 DEF Respond
<1>4. CASE OnInformational(m)
  <2>1. PICK b : b = [what |-> "deleted", ins |-> {children[k].in : k \in Dropped(children, m.body.outs)}]
    OBVIOUS
  <2>2. PICK n : n = Message(sa, m.id, TRUE, b)
    OBVIOUS
  <2>3. n.resp
    BY <2>1, <2>2 DEF Message
  <2> DEFINE kids == Kept(children, m.body.outs)
  <2>4. /\ IsNew(m) /\ m.body.what = "info" /\ sent' = sent \cup {n}
        /\ \/ SwitchIke /\ next # NoSa /\ UNCHANGED <<task, wait>>
           \/ /\ peerMessageId' = peerMessageId + 1 /\ UNCHANGED <<sa, next, messageId>>
              /\ (UNCHANGED <<task, wait>> /\ ~EndsIke(m, kids)) \/ Done
    BY <1>4, <2>1, <2>2 DEF OnInformational
  <2> HIDE DEF kids
  <2>5. ~Done
    BY DEF Done, Live, Asking
  <2>6. CASE SwitchIke /\ next # NoSa /\ UNCHANGED <<task, wait>>
    BY <2>3, <2>4, <2>6, SwitchLive
  <2>7. CASE peerMessageId' = peerMessageId + 1 /\ UNCHANGED <<sa, next, messageId, task, wait>> /\ ~EndsIke(m, kids)
    <3>1. ~m.body.ike
      BY <2>7 DEF EndsIke
    <3> QED
      BY <1>2, <2>2, <2>4, <2>7, <3>1
  <2> QED
    BY <2>4, <2>5, <2>6, <2>7
<1> QED
  BY <1>1, <1>3, <1>4 DEF OnOrder

\* What the client does by itself.
LEMMA LocalLive ==
  ASSUME TunnelInv, LiveInv, UNCHANGED gwVars, Local, Live'
  PROVE  PaceInv' /\ StateInv'
<1>c. UNCHANGED <<gwSas, gwCurrent, gwAlive, gwSent>>
  BY GatewaySame
<1>1. CASE Establish
  <2>1. UNCHANGED saVars /\ sa = NoSa /\ next = NoSa
    BY <1>1 DEF Establish, TunnelInv, IInv, ControlInv, SetUp
  <2>2. CASE InitRequest(InitRetries)
    BY <2>1, <2>2, AttemptLive DEF saVars
  <2>3. CASE Fail(stage, children)
    BY <2>3, TeardownDead DEF Fail
  <2> QED
    BY <1>1, <2>2, <2>3 DEF Establish
<1>2. CASE Retransmit
  <2>1. UNCHANGED <<sa, next, messageId, peerMessageId, task, sent>> /\ wait'.sa = wait.sa /\ wait'.id = wait.id
    BY <1>2 DEF Retransmit, saVars, TunnelInv, TypeInv, WaitType
  <2>2. PaceInv /\ StateInv
    BY <1>c, <2>1 DEF Live, LiveInv
  <2> QED
    BY <1>c, <2>1, <2>2 DEF PaceInv, StateInv, Announced, Agreed, Answer, Handled
<1>3. CASE GiveUp
  <2>1. \/ Done
        \/ Teardown(IF host THEN "Down" ELSE "Error", stage, "silent", children)
        \/ Teardown("Error", stage, down, children)
    BY <1>3 DEF GiveUp, Fail
  <2>2. ~Done
    BY DEF Done, Live, Asking
  <2> QED
    BY <2>1, <2>2, TeardownDead
<1>4. CASE IoError \/ Cancel
  <2>1. ~Done
    BY DEF Done, Live, Asking
  <2> QED
    BY <1>4, <2>1, TeardownDead DEF IoError, Cancel, Fail
<1>5. ASSUME task = "watch", UNCHANGED saVars, task' \in {"dpd", "child"}, NEW b, Request(sa, messageId, task', b)
      PROVE  PaceInv' /\ StateInv'
  <2>1. PaceInv /\ StateInv
    BY <1>c, <1>5 DEF Live, LiveInv, Asking
  <2>2. sa # NoSa
    BY <1>5 DEF TunnelInv, CliInv, KeyedInv, IInv, ControlInv, Committed
  <2>3. gwSas[sa].expect >= messageId /\ Agreed
    BY <1>5, <2>1, <2>2 DEF PaceInv, Asking, Agreed
  <2> QED
    BY <1>5, <2>1, <2>2, <2>3, OnwardLive DEF Asking
<1>6. CASE StartDpd \/ \E k \in DOMAIN children : StartRekey(k)
  <2>1. /\ task = "watch" /\ UNCHANGED saVars /\ task' \in {"dpd", "child"}
        /\ \E b : Request(sa, messageId, task', b)
    BY <1>6 DEF StartDpd, StartRekey, CreateChild, Request
  <2> QED
    BY <1>5, <2>1
<1> QED
  BY <1>1, <1>2, <1>3, <1>4, <1>6 DEF Local

\* A step of the client.
LEMMA ClientLive ==
  ASSUME TunnelInv, LiveInv, UNCHANGED gwVars, Local \/ \E m \in gwSent : OnReply(m) \/ OnOrder(m)
  PROVE  LiveInv'
<1>1. HalfInv'
  BY GatewaySame DEF LiveInv, HalfInv
<1>2. ASSUME Live' PROVE PaceInv' /\ StateInv'
  BY <1>2, LocalLive, ReplyLive, OrderLive
<1> QED
  BY <1>1, <1>2 DEF LiveInv

\* The gateway keeps pace with a session that is alive.
THEOREM LiveInvariant == TunnelSpec => []LiveInv
<1>1. TunnelInit => LiveInv
  <2> SUFFICES ASSUME TunnelInit PROVE LiveInv
    OBVIOUS
  <2>1. ~Live
    BY DEF TunnelInit, Init, Live, Asking
  <2>2. gwSas[1] = NewSa /\ NewSa.state = "none"
    BY Bounds DEF TunnelInit, GwInit, NewSa
  <2> QED
    BY <2>1, <2>2 DEF LiveInv, HalfInv
<1>2. TunnelInv /\ LiveInv /\ [TunnelNext]_allVars => LiveInv'
  <2> SUFFICES ASSUME TunnelInv, LiveInv, [TunnelNext]_allVars PROVE LiveInv'
    OBVIOUS
  <2>1. ASSUME UNCHANGED vars, UNCHANGED gwVars PROVE LiveInv'
    <3>1. UNCHANGED <<sa, next, messageId, peerMessageId, task, wait, sent, gwSas, gwCurrent, gwAlive, gwSent>>
      BY <2>1, ClientSame, GatewaySame
    <3> QED
      BY <3>1 DEF LiveInv, HalfInv, Live, PaceInv, StateInv, Announced, Agreed, Answer, Handled
  <2> QED
    BY <2>1, StepIs, GatewayLive, ClientLive DEF allVars
<1> QED
  BY <1>1, <1>2, TunnelInvariant, PTL DEF TunnelSpec

\* When nothing is under way, the gateway has the IKE SA the client works
\* with: no rekey, retransmission or late response leaves the client on an
\* IKE SA the gateway has given up.
THEOREM SaIsThere == TunnelSpec => []SaExists
<1>1. TunnelInv /\ LiveInv => SaExists
  <2> SUFFICES ASSUME TunnelInv, LiveInv, Quiet PROVE gwSas[sa].state = "up"
    BY DEF SaExists
  <2>1. StateInv /\ Agreed
    BY DEF Quiet, LiveInv, Live, Asking, Agreed
  <2>2. sa \in Sas
    BY Sizes DEF Quiet, TunnelInv, CliInv, KeyedInv, IInv, ControlInv, Committed
  <2> QED
    BY <2>1, <2>2 DEF Quiet, StateInv, Announced
<1> QED
  BY <1>1, TunnelInvariant, LiveInvariant, PTL

=============================================================================

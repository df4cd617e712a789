---------------------------- MODULE IkeChildProofs ----------------------------
(***************************************************************************)
(* Proofs about the CHILD SAs of the session with a gateway that follows   *)
(* the protocol (module IkeTunnel), for every value of the constants.      *)
(***************************************************************************)
EXTENDS IkeTunnelProofs

-----------------------------------------------------------------------------
(* The CHILD SAs of a list, without their order.                           *)

Triple(c) == [in |-> c.in, out |-> c.out, nets |-> c.nets]
Triples(kids) == {Triple(kids[k]) : k \in DOMAIN kids}
Ours == Triples(children)

\* A list has no CHILD SA only if it is empty.
LEMMA TriplesEmpty ==
  ASSUME NEW S, NEW kids \in Seq(S)
  PROVE  Triples(kids) = {} <=> kids = <<>>
<1>1. CASE kids = <<>>
  <2>1. DOMAIN kids = {}
    BY <1>1
  <2> QED
    BY <1>1, <2>1 DEF Triples
<1>2. CASE kids # <<>>
  <2>1. 1 \in DOMAIN kids
    BY <1>2
  <2> QED
    BY <1>2, <2>1 DEF Triples
<1> QED
  BY <1>1, <1>2

\* A CHILD SA in front.
LEMMA TriplesInFront ==
  ASSUME NEW kids \in Seq(Kid), NEW c \in Kid
  PROVE  Triples(<<c>> \o kids) = {Triple(c)} \cup Triples(kids)
<1> DEFINE r == <<c>> \o kids
<1>1. /\ r[1] = c /\ 1 \in DOMAIN r
      /\ \A j \in DOMAIN r : j # 1 => j - 1 \in DOMAIN kids /\ r[j] = kids[j - 1]
      /\ \A k \in DOMAIN kids : k + 1 \in DOMAIN r /\ r[k + 1] = kids[k]
  BY InFront
<1> HIDE DEF r
<1>2. Triples(r) \subseteq {Triple(c)} \cup Triples(kids)
  BY <1>1 DEF Triples
<1>3. Triple(c) \in Triples(r)
  BY <1>1 DEF Triples
<1>4. Triples(kids) \subseteq Triples(r)
  BY <1>1 DEF Triples
<1> QED
  BY <1>2, <1>3, <1>4 DEF r

\* The only CHILD SA.
LEMMA TriplesOne ==
  ASSUME NEW kids \in Seq(Kid), kids = <<>>, NEW c \in Kid
  PROVE  Triples(Append(kids, c)) = {Triple(c)}
<1>1. Append(kids, c) = <<c>> /\ DOMAIN <<c>> = {1} /\ <<c>>[1] = c
  OBVIOUS
<1> QED
  BY <1>1 DEF Triples

\* A CHILD SA that was replaced is still there.
LEMMA TriplesReplaced ==
  ASSUME NEW kids \in Seq(Kid), NEW k \in DOMAIN kids
  PROVE  Triples([kids EXCEPT ![k].replaced = TRUE]) = Triples(kids)
<1> DEFINE r == [kids EXCEPT ![k].replaced = TRUE]
<1>1. /\ r \in Seq(Kid) /\ Len(r) = Len(kids)
      /\ \A j \in DOMAIN kids : r[j].in = kids[j].in /\ r[j].out = kids[j].out /\ r[j].nets = kids[j].nets
  BY ReplacedTypes
<1> HIDE DEF r
<1>2. DOMAIN r = DOMAIN kids
  BY <1>1
<1>3. \A j \in DOMAIN kids : Triple(r[j]) = Triple(kids[j])
  BY <1>1 DEF Triple
<1> QED
  BY <1>2, <1>3 DEF Triples, r

\* The CHILD SA with inbound SPI x removed.
LEMMA TriplesWithout ==
  ASSUME NEW kids \in Seq(Kid), NEW x
  PROVE  Triples(Without(kids, x)) = {t \in Triples(kids) : t.in # x}
<1> DEFINE r == Without(kids, x)
<1>0. \A c : Triple(c).in = c.in
  BY DEF Triple
<1>1. /\ \A j \in DOMAIN r : \E k \in DOMAIN kids : kids[k].in # x /\ r[j] = kids[k]
      /\ \A k \in DOMAIN kids : kids[k].in # x => \E j \in DOMAIN r : r[j] = kids[k]
  BY WithoutIs
<1> HIDE DEF r
<1>2. Triples(r) \subseteq {t \in Triples(kids) : t.in # x}
  BY <1>0, <1>1 DEF Triples
<1>3. {t \in Triples(kids) : t.in # x} \subseteq Triples(r)
  BY <1>0, <1>1 DEF Triples
<1> QED
  BY <1>2, <1>3 DEF r

\* The CHILD SAs a DELETE names removed: each outbound SPI names one.
LEMMA TriplesKept ==
  ASSUME NEW kids \in Seq(Kid), NEW n, InOrder(kids, n), NEW outs,
         \A t, u \in Triples(kids) : t.out = u.out => t = u
  PROVE  Triples(Kept(kids, outs)) = {t \in Triples(kids) : t.out \notin outs}
<1> DEFINE r == Kept(kids, outs)
<1>0. \A c : Triple(c).in = c.in /\ Triple(c).out = c.out
  BY DEF Triple
<1>1. /\ \A j \in DOMAIN r : \E k \in DOMAIN kids : k \notin Dropped(kids, outs) /\ r[j] = kids[k]
      /\ \A k \in DOMAIN kids : k \notin Dropped(kids, outs) => \E j \in DOMAIN r : r[j] = kids[k]
  BY KeptIs
<1> HIDE DEF r
<1>2. \A k \in DOMAIN kids : k \in Dropped(kids, outs) <=> kids[k].out \in outs
  <2> TAKE k \in DOMAIN kids
  <2>1. ASSUME k \in Dropped(kids, outs) PROVE kids[k].out \in outs
    <3>1. PICK o \in outs : ByOut(kids, o) = k
      BY <2>1 DEF Dropped
    <3>2. k # 0
      OBVIOUS
    <3>3. kids[k].out = o
      BY <3>1, <3>2, ByOutIs
    <3> QED
      BY <3>3
  <2>2. ASSUME kids[k].out \in outs PROVE k \in Dropped(kids, outs)
    <3> DEFINE o == kids[k].out
               j == ByOut(kids, o)
    <3>1. j \in DOMAIN kids /\ kids[j].out = o
      BY ByOutIs
    <3> HIDE DEF j
    <3>2. Triple(kids[j]) = Triple(kids[k])
      BY <1>0, <3>1 DEF Triples
    <3>3. kids[j].in = kids[k].in
      BY <1>0, <3>2
    <3>4. j = k
      BY <3>1, <3>3 DEF InOrder
    <3> QED
      BY <2>2, <3>4 DEF Dropped, j
  <2> QED
    BY <2>1, <2>2
<1>3. Triples(r) \subseteq {t \in Triples(kids) : t.out \notin outs}
  BY <1>0, <1>1, <1>2 DEF Triples
<1>4. {t \in Triples(kids) : t.out \notin outs} \subseteq Triples(r)
  BY <1>0, <1>1, <1>2 DEF Triples
<1> QED
  BY <1>3, <1>4 DEF r

\* An INFORMATIONAL request that names no CHILD SA.
LEMMA TriplesAllKept ==
  ASSUME NEW kids \in Seq(Kid)
  PROVE  Triples(Kept(kids, {})) = Triples(kids)
<1> DEFINE none == {}
           r == Kept(kids, none)
<1>0. Dropped(kids, none) = {}
  BY DEF Dropped
<1> HIDE DEF none
<1>1. /\ \A j \in DOMAIN r : \E k \in DOMAIN kids : k \notin Dropped(kids, none) /\ r[j] = kids[k]
      /\ \A k \in DOMAIN kids : k \notin Dropped(kids, none) => \E j \in DOMAIN r : r[j] = kids[k]
  BY KeptIs
<1> HIDE DEF r
<1>2. Triples(r) = Triples(kids)
  BY <1>0, <1>1 DEF Triples
<1> QED
  BY <1>2 DEF r, none

\* What the client's steps make of its CHILD SAs.
LEMMA NewChildTriple ==
  ASSUME NEW in, NEW b
  PROVE  Triple(NewChild(in, b)) = [in |-> in, out |-> b.out, nets |-> b.nets]
BY DEF Triple, NewChild

-----------------------------------------------------------------------------
(* Covered networks during the setup.                                      *)

\* What keeps the gateway from covering a network that the client asked for.
Excused(i) == Narrowed(Wanted[i]) \/ Withdrawn(Wanted[i])
CoveredBy(T, i) == \E t \in T : Wanted[i] \in t.nets
Planned(q, i) == \E j \in DOMAIN q : q[j] = Wanted[i]

\* The selectors of a CHILD SA are those of a message of the gateway.
Granted(t) ==
  \E g \in gwSent : g.body.what \in {"created", "rekeyChild"} /\ g.body.out = t.out /\ g.body.nets = t.nets

\* Each wanted network is covered, or establish has yet to look at it, or it
\* is the one a CHILD SA was asked for, or the gateway did not want it.
CoverInv ==
  ~host /\ task \in Asking \cup {"start"} =>
    /\ \A i \in DOMAIN Wanted :
         \/ CoveredBy(Ours, i)
         \/ Planned(todo, i)
         \/ task = "child" /\ Wanted[i] \in kid.nets
         \/ Excused(i)
    /\ \A t \in Ours : Granted(t)

\* Both sides only send more.
LEMMA ExcusedKept ==
  ASSUME sent \subseteq sent', gwSent \subseteq gwSent'
  PROVE  /\ \A i \in DOMAIN Wanted : Excused(i) => Excused(i)'
         /\ \A t : Granted(t) => Granted(t)'
<1>1. ASSUME NEW i \in DOMAIN Wanted, Narrowed(Wanted[i]) PROVE Narrowed(Wanted[i])'
  BY <1>1 DEF Narrowed
<1>2. ASSUME NEW i \in DOMAIN Wanted, Withdrawn(Wanted[i]) PROVE Withdrawn(Wanted[i])'
  BY <1>2 DEF Withdrawn
<1>3. ASSUME NEW t, Granted(t) PROVE Granted(t)'
  BY <1>3 DEF Granted
<1> QED
  BY <1>1, <1>2, <1>3 DEF Excused

\* A CHILD SA that a DELETE removes is one that it names.
LEMMA KeptOrNamed ==
  ASSUME NEW kids \in Seq(Kid), NEW outs
  PROVE  /\ Triples(Kept(kids, outs)) \subseteq Triples(kids)
         /\ \A t \in Triples(kids) : t \in Triples(Kept(kids, outs)) \/ t.out \in outs
<1> DEFINE r == Kept(kids, outs)
<1>0. \A c : Triple(c).out = c.out
  BY DEF Triple
<1>1. /\ \A j \in DOMAIN r : \E k \in DOMAIN kids : k \notin Dropped(kids, outs) /\ r[j] = kids[k]
      /\ \A k \in DOMAIN kids : k \notin Dropped(kids, outs) => \E j \in DOMAIN r : r[j] = kids[k]
  BY KeptIs
<1> HIDE DEF r
<1>2. ASSUME NEW k \in DOMAIN kids, k \in Dropped(kids, outs) PROVE kids[k].out \in outs
  <2>1. PICK o \in outs : ByOut(kids, o) = k
    BY <1>2 DEF Dropped
  <2>2. k # 0
    OBVIOUS
  <2>3. kids[k].out = o
    BY <2>1, <2>2, ByOutIs
  <2> QED
    BY <2>3
<1>3. Triples(r) \subseteq Triples(kids)
  BY <1>1 DEF Triples
<1>4. \A t \in Triples(kids) : t \in Triples(r) \/ t.out \in outs
  BY <1>0, <1>1, <1>2 DEF Triples
<1> QED
  BY <1>3, <1>4 DEF r

\* What establish still looks at: the networks of the list that kids does not
\* cover are in the rest.
LEMMA UncoveredIs ==
  ASSUME NEW S, NEW q \in Seq(S), NEW kids, NEW j \in DOMAIN q, q[j] \notin UNION {t.nets : t \in Triples(kids)}
  PROVE  \E l \in DOMAIN Uncovered(q, kids) : Uncovered(q, kids)[l] = q[j]
<1> DEFINE open == {i \in DOMAIN q : \A k \in DOMAIN kids : q[i] \notin kids[k].nets}
           first == CHOOSE i \in open : \A l \in open : i <= l
<1>0. \A c : Triple(c).nets = c.nets
  BY DEF Triple
<1>1. j \in open
  BY <1>0 DEF Triples
<1>2. open \in SUBSET Nat /\ open \subseteq DOMAIN q
  OBVIOUS
<1>3. first \in open /\ \A l \in open : first <= l
  <2>1. \E i \in open : \A l \in open : i <= l
    <3> HIDE DEF open
    <3> QED
      BY <1>1, <1>2, LeastNatural
  <2> HIDE DEF open
  <2> QED
    BY <2>1
<1>4. Uncovered(q, kids) = SubSeq(q, first, Len(q))
  BY <1>1 DEF Uncovered
<1> HIDE DEF first, open
<1>5. first \in 1 .. Len(q) /\ first <= j /\ j \in 1 .. Len(q)
  BY <1>1, <1>2, <1>3
<1> DEFINE r == SubSeq(q, first, Len(q))
<1>6. Len(r) = Len(q) - first + 1 /\ r \in Seq(S)
  BY <1>5
<1>7. j - first + 1 \in 1 .. Len(r)
  BY <1>5, <1>6
<1>8. r[j - first + 1] = q[first + (j - first + 1) - 1]
  BY <1>5, <1>6, <1>7
<1>9. first + (j - first + 1) - 1 = j
  BY <1>5
<1> HIDE DEF r
<1> QED
  BY <1>4, <1>6, <1>7, <1>8, <1>9 DEF r

\* The first of a list and the others.
LEMMA HeadAndTail ==
  ASSUME NEW S, NEW q \in Seq(S), q # <<>>, NEW j \in DOMAIN q
  PROVE  q[j] = Head(q) \/ \E l \in DOMAIN Tail(q) : Tail(q)[l] = q[j]
<1>1. CASE j = 1
  BY <1>1
<1>2. CASE j # 1
  <2>1. j \in 2 .. Len(q) /\ Len(Tail(q)) = Len(q) - 1 /\ Tail(q) \in Seq(S)
    BY <1>2
  <2>2. j - 1 \in 1 .. Len(Tail(q))
    BY <2>1
  <2>3. Tail(q)[j - 1] = q[j]
    BY <2>1, <2>2
  <2> QED
    BY <2>1, <2>2, <2>3
<1> QED
  BY <1>1, <1>2

\* The networks the setup has dealt with or will, once the CHILD SAs are kids.
Provided(T) ==
  /\ \A i \in DOMAIN Wanted : CoveredBy(T, i) \/ Planned(todo, i) \/ Excused(i)
  /\ \A t \in T : Granted(t)

\* An interface comes up with the networks covered.
CoverStep ==
  ~host /\ host' => \A i \in DOMAIN Wanted : CoveredBy(Ours', i) \/ Excused(i)

\* The next CHILD SA of the setup.
LEMMA NextChildCover ==
  ASSUME TypeInv, UNCHANGED gwSent, NEW kids \in Seq(Kid), NextChild(kids), Provided(Triples(kids))
  PROVE  CoverInv' /\ CoverStep
<1> DEFINE q == Uncovered(todo, kids)
<1>t. todo \in Seq(Networks) /\ q \in Seq(Networks)
  BY UncoveredTypes DEF TypeInv, AskType
<1>1. ASSUME NEW i \in DOMAIN Wanted, ~CoveredBy(Triples(kids), i), ~Excused(i)
      PROVE  \E l \in DOMAIN q : q[l] = Wanted[i]
  <2>1. PICK j \in DOMAIN todo : todo[j] = Wanted[i]
    BY <1>1 DEF Provided, Planned
  <2>2. todo[j] \notin UNION {t.nets : t \in Triples(kids)}
    BY <1>1, <2>1 DEF CoveredBy
  <2> QED
    BY <1>t, <2>1, <2>2, UncoveredIs
<1>2. CASE q # <<>>
  <2>1. /\ CreateChild(NoSpi, {Head(q)}) /\ todo' = Tail(q) /\ children' = kids /\ UNCHANGED host
    BY <1>2 DEF NextChild
  <2>2. kid'.nets = {Head(q)} /\ task' = "child" /\ sent \subseteq sent'
    BY <2>1 DEF CreateChild, Request
  <2>3. Ours' = Triples(kids)
    BY <2>1 DEF Ours
  <2>e. /\ \A i \in DOMAIN Wanted : Excused(i) => Excused(i)'
        /\ \A t \in Ours' : Granted(t)'
    BY <2>2, <2>3, ExcusedKept DEF Provided
  <2> HIDE DEF q
  <2>4. ASSUME NEW i \in DOMAIN Wanted, ~CoveredBy(Triples(kids), i), ~Excused(i)
        PROVE  Planned(todo', i) \/ Wanted[i] \in kid'.nets
    <3>1. PICK l \in DOMAIN q : q[l] = Wanted[i]
      BY <1>1, <2>4
    <3> QED
      BY <1>t, <1>2, <2>1, <2>2, <3>1, HeadAndTail DEF Planned
  <2>5. CoverInv'
    BY <2>e, <2>2, <2>3, <2>4 DEF CoverInv, CoveredBy, Planned
  <2> QED
    BY <2>1, <2>5 DEF CoverStep
<1>3. CASE q = <<>>
  <2>1. BringUp(kids)
    BY <1>3 DEF NextChild
  <2>2. ASSUME NEW i \in DOMAIN Wanted, ~Excused(i) PROVE CoveredBy(Triples(kids), i)
    <3>1. DOMAIN q = {}
      BY <1>3
    <3> HIDE DEF q
    <3> QED
      BY <1>1, <2>2, <3>1
  <2>3. CASE Fail("Established", kids)
    BY <2>3 DEF Fail, Teardown, Request, Done, CoverInv, CoverStep, Asking
  <2>4. CASE ~Fail("Established", kids)
    <3>1. host' = TRUE /\ children' = kids
      BY <2>1, <2>4 DEF BringUp
    <3>2. Ours' = Triples(kids)
      BY <3>1 DEF Ours
    <3> QED
      BY <2>2, <3>1, <3>2 DEF CoverInv, CoverStep
  <2> QED
    BY <2>3, <2>4
<1> QED
  BY <1>2, <1>3

\* A step that leaves the list and the plan alone, or ends the session.
LEMMA SameCover ==
  ASSUME CoverInv, sent \subseteq sent', gwSent \subseteq gwSent', UNCHANGED <<children, host, todo, kid>>,
         task' # task => task # "child" /\ task \in Asking \cup {"start"}
  PROVE  CoverInv' /\ CoverStep
<1>1. /\ \A i \in DOMAIN Wanted : Excused(i) => Excused(i)'
      /\ \A t : Granted(t) => Granted(t)'
  BY ExcusedKept
<1>2. UNCHANGED Ours
  BY DEF Ours
<1>3. CoverInv'
  <2> SUFFICES ASSUME ~host', task' \in Asking \cup {"start"}
               PROVE  /\ \A i \in DOMAIN Wanted :
                           \/ CoveredBy(Ours, i)
                           \/ Planned(todo, i)
                           \/ task' = "child" /\ Wanted[i] \in kid.nets
                           \/ Excused(i)'
                      /\ \A t \in Ours : Granted(t)'
    BY <1>2 DEF CoverInv, CoveredBy, Planned
  <2> QED
    BY <1>1 DEF CoverInv
<1> QED
  BY <1>3 DEF CoverStep

\* The end of the session.
LEMMA TeardownCover ==
  ASSUME NEW o, NEW st, NEW d, NEW kids, Teardown(o, st, d, kids)
  PROVE  CoverInv' /\ CoverStep
BY DEF Teardown, Request, Done, CoverInv, CoverStep, Asking

\* The client receives a response.
LEMMA ReplyCover ==
  ASSUME TunnelInv, CoverInv, UNCHANGED gwVars, NEW m \in gwSent, OnReply(m)
  PROVE  CoverInv' /\ CoverStep
<1>g. UNCHANGED gwSent /\ gwSent \subseteq gwSent'
  BY GatewaySame
<1>o. m.body.what = "created" => Offers(m)
  BY GatewayOffers DEF TunnelInv
<1>t. children \in Seq(Kid) /\ TypeInv /\ spi \in Nat /\ kid.in \in Nat
  BY DEF TunnelInv, TypeInv, KidsType, AskType
<1>h. CASE host
  <2>t. ASSUME NEW o, NEW st, NEW d, NEW kids, Teardown(o, st, d, kids) PROVE task' \in {"close", "done"}
    BY <2>t DEF Teardown, Request, Done
  <2>n. ASSUME NEW kids, NextChild(kids) PROVE host' \/ task' \in {"close", "done"}
    BY <1>h, <2>n, <2>t DEF NextChild, BringUp, Fail
  <2>1. host' \/ task' \in {"close", "done"}
    BY <1>h, <2>t, <2>n DEF OnReply, OnInitReply, OnFinalReply, OnEapReply, OnChildReply, OnPlainReply, OnCloseReply,
       Fail, Done
  <2> QED
    BY <1>h, <2>1 DEF CoverInv, CoverStep, Asking
<1>n. CASE ~host
  <2>1. CASE OnInitReply(m)
    <3>1. \/ UNCHANGED <<children, host, todo, kid>> /\ task = "init" /\ sent \subseteq sent'
          \/ Fail(stage, children)
      BY <2>1 DEF OnInitReply, InitRequest, Request
    <3>2. CASE Fail(stage, children)
      BY <3>2, TeardownCover DEF Fail
    <3>3. CASE UNCHANGED <<children, host, todo, kid>> /\ task = "init" /\ sent \subseteq sent'
      BY <1>g, <3>3, SameCover DEF Asking
    <3> QED
      BY <3>1, <3>2, <3>3
  <2>2. CASE OnFinalReply(m)
    <3>0. task \in {"auth", "final"}
      BY <2>2 DEF OnFinalReply
    <3>1. CASE m.body.what = "created"
      <4> DEFINE c == NewChild(spi, m.body)
                 kids == Append(children, c)
      <4>1. c \in Kid
        BY <1>o, <1>t, <3>1, NewChildTypes
      <4>2. NextChild(kids)
        BY <2>2, <3>1 DEF OnFinalReply
      <4>c. Triple(c).out = m.body.out /\ Triple(c).nets = m.body.nets
        BY NewChildTriple
      <4> HIDE DEF c
      <4>3. kids \in Seq(Kid)
        BY <1>t, <4>1
      <4>k. kids = Append(children, c)
        OBVIOUS
      <4> HIDE DEF kids
      <4>4. Ours = {}
        BY <1>t, <3>0, TriplesEmpty DEF Ours, TunnelInv, CliInv, SpiInv, DrawInv
      <4>5. Provided(Triples(kids))
        <5>1. Triples(kids) = {Triple(c)}
          BY <1>t, <3>0, <4>1, <4>k, TriplesOne DEF TunnelInv, CliInv, SpiInv, DrawInv
        <5>2. Granted(Triple(c))
          BY <3>1, <4>c DEF Granted
        <5>3. \A i \in DOMAIN Wanted : Planned(todo, i) \/ Excused(i)
          BY <1>n, <3>0, <4>4 DEF CoverInv, CoveredBy, Asking
        <5> QED
          BY <5>1, <5>2, <5>3 DEF Provided
      <4> QED
        BY <1>g, <1>t, <4>2, <4>3, <4>5, NextChildCover
    <3>2. CASE m.body.what # "created"
      <4>1. \E st, kids : Fail(st, kids)
        BY <2>2, <3>2 DEF OnFinalReply
      <4> QED
        BY <4>1, TeardownCover DEF Fail
    <3> QED
      BY <3>1, <3>2
  <2>3. CASE OnEapReply(m)
    <3>1. CASE Fail(stage, children)
      BY <3>1, TeardownCover DEF Fail
    <3>2. CASE ~Fail(stage, children)
      <4>1. UNCHANGED <<children, host, todo, kid>> /\ task \in {"auth", "eap"} /\ sent \subseteq sent'
        BY <2>3, <3>2 DEF OnEapReply, kidVars, Request
      <4> QED
        BY <1>g, <4>1, SameCover DEF Asking
    <3> QED
      BY <3>1, <3>2
  <2>4. CASE OnChildReply(m)
    <3>0. task = "child" /\ kid.old = NoSpi /\ Answers(m) /\ task \in Asking
      BY <1>n, <2>4 DEF OnChildReply, TunnelInv, CliInv, SetupInv, Asking
    <3>1. CASE Fail(stage, children)
      BY <3>1, TeardownCover DEF Fail
    <3>2. CASE m.body.what = "redirected" /\ ~Fail(stage, children)
      <4>1. UNCHANGED <<children, host, todo, kid>> /\ task' = "child" /\ sent \subseteq sent'
        BY <2>4, <3>2, RequestIs DEF OnChildReply, Request
      <4> QED
        BY <1>g, <3>0, <4>1, SameCover
    <3>3. CASE m.body.what = "created"
      <4> DEFINE c == NewChild(kid.in, m.body)
                 kids == <<c>> \o children
      <4>1. c \in Kid /\ Triple(c) = [in |-> kid.in, out |-> m.body.out, nets |-> m.body.nets]
        BY <1>o, <1>t, <3>3, NewChildTypes, NewChildTriple
      <4>2. NextChild(kids)
        BY <2>4, <3>0, <3>3 DEF OnChildReply
      <4> HIDE DEF c
      <4>3. kids \in Seq(Kid) /\ Triples(kids) = {Triple(c)} \cup Ours
        BY <1>t, <4>1, InFront, TriplesInFront DEF Ours
      <4> HIDE DEF kids
      <4>4. ASSUME NEW i \in DOMAIN Wanted, Wanted[i] \in kid.nets, Wanted[i] \notin m.body.nets
            PROVE  Excused(i)
        <5>1. wait.sa = sa /\ m.resp /\ m.sa = sa /\ m.id = wait.id
          BY <3>0, ReplyInTime
        <5>2. PICK q : q = Message(wait.sa, wait.id, FALSE, wait.body)
          OBVIOUS
        <5>3. q \in sent /\ q.sa = wait.sa /\ q.id = wait.id /\ q.body = wait.body
          BY <3>0, <5>2 DEF TunnelInv, CliInv, AskedInv, Message
        <5>4. wait.body.what = "child" /\ wait.body.nets = kid.nets
          BY <3>0 DEF TunnelInv, CliInv, BodyInv, ChildRequest
        <5>5. Narrowed(Wanted[i])
          BY <3>3, <4>4, <5>1, <5>3, <5>4 DEF Narrowed
        <5> QED
          BY <5>5 DEF Excused
      <4>5. Provided(Triples(kids))
        <5>1. Triple(c).nets = m.body.nets /\ Triple(c).out = m.body.out
          BY <4>1
        <5>2. Granted(Triple(c))
          BY <3>3, <5>1 DEF Granted
        <5>3. \A i \in DOMAIN Wanted : CoveredBy(Triples(kids), i) \/ Planned(todo, i) \/ Excused(i)
          BY <1>n, <3>0, <4>3, <4>4, <5>1 DEF CoverInv, CoveredBy, Asking
        <5>4. \A t \in Ours : Granted(t)
          BY <1>n, <3>0 DEF CoverInv
        <5> QED
          BY <4>3, <5>2, <5>3, <5>4 DEF Provided
      <4> QED
        BY <1>g, <1>t, <4>2, <4>3, <4>5, NextChildCover
    <3> QED
      BY <2>4, <3>0, <3>1, <3>2, <3>3 DEF OnChildReply
  <2>5. CASE OnPlainReply(m)
    BY <1>n, <2>5 DEF OnPlainReply, TunnelInv, CliInv, SetupInv
  <2>6. CASE OnCloseReply(m)
    BY <2>6 DEF OnCloseReply, Done, CoverInv, CoverStep, Asking
  <2> QED
    BY <2>1, <2>2, <2>3, <2>4, <2>5, <2>6 DEF OnReply
<1> QED
  BY <1>h, <1>n

\* The client receives a request.
LEMMA OrderCover ==
  ASSUME TunnelInv, CoverInv, UNCHANGED gwVars, NEW m \in gwSent, OnOrder(m)
  PROVE  CoverInv' /\ CoverStep
<1>g. UNCHANGED gwSent /\ gwSent \subseteq gwSent'
  BY GatewaySame
<1>t. children \in Seq(Kid) /\ spi + 1 \in Nat
  BY DEF TunnelInv, TypeInv, KidsType, AskType
<1>m. sent \subseteq sent'
  BY DEF OnOrder, OnRetransmission, OnRefused, OnIkeRekey, OnChildRekey, OnInformational, Respond
<1>e. /\ \A i \in DOMAIN Wanted : Excused(i) => Excused(i)'
      /\ \A t : Granted(t) => Granted(t)'
  BY <1>g, <1>m, ExcusedKept
<1>s. ASSUME Ours \subseteq Ours', \A t \in Ours' : t \in Ours \/ Granted(t), UNCHANGED <<host, todo, kid, task>>
      PROVE  CoverInv' /\ CoverStep
  <2>1. CoverInv'
    BY <1>e, <1>s DEF CoverInv, CoveredBy, Planned
  <2> QED
    BY <1>s, <2>1 DEF CoverStep
<1>1. CASE OnRetransmission(m) \/ OnRefused(m) \/ OnIkeRekey(m)
  <2>1. UNCHANGED <<children, host, todo, kid, task>>
    BY <1>1 DEF OnRetransmission, OnRefused, OnIkeRekey, kidVars
  <2> QED
    BY <1>s, <2>1 DEF Ours
<1>2. CASE OnChildRekey(m)
  <2>0. UNCHANGED <<host, todo, kid, task>> /\ m.body.what = "rekeyChild"
    BY <1>2 DEF OnChildRekey
  <2> DEFINE old == ByOut(children, m.body.old)
  <2>1. CASE old = 0
    BY <1>2, <1>s, <2>0, <2>1 DEF OnChildRekey, Ours
  <2>2. CASE old # 0
    <3> DEFINE c == NewChild(spi + 1, m.body)
               rest == [children EXCEPT ![old].replaced = TRUE]
    <3>1. children' = <<c>> \o rest
      BY <1>2, <2>2 DEF OnChildRekey
    <3>2. rest \in Seq(Kid) /\ Triples(rest) = Ours
      BY <1>t, <2>2, ByOutIs, ReplacedTypes, TriplesReplaced DEF Ours
    <3>3. c \in Kid /\ Triple(c).out = m.body.out /\ Triple(c).nets = m.body.nets
      BY <1>t, <2>0, GatewayOffers, NewChildTypes, NewChildTriple DEF TunnelInv
    <3> HIDE DEF c, rest
    <3>4. Ours' = {Triple(c)} \cup Ours
      BY <3>1, <3>2, <3>3, TriplesInFront DEF Ours
    <3>5. Granted(Triple(c))
      BY <2>0, <3>3 DEF Granted
    <3> QED
      BY <1>s, <2>0, <3>4, <3>5
  <2> QED
    BY <2>1, <2>2
<1>3. CASE OnInformational(m)
  <2> DEFINE kids == Kept(children, m.body.outs)
  <2>1. /\ m.body.what = "info" /\ IsNew(m) /\ UNCHANGED <<todo, kid>>
        /\ (children' = kids /\ UNCHANGED <<host, task>>) \/ (host' = FALSE /\ Done)
    BY <1>3 DEF OnInformational, kidVars
  <2>2. CASE host' = FALSE /\ Done
    BY <2>2 DEF Done, CoverInv, CoverStep, Asking
  <2>3. CASE children' = kids /\ UNCHANGED <<host, task>>
    <3>1. Ours' \subseteq Ours /\ \A t \in Ours : t \in Ours' \/ t.out \in m.body.outs
      BY <1>t, <2>3, KeptOrNamed DEF Ours
    <3>2. ASSUME NEW i \in DOMAIN Wanted, NEW t \in Ours, Wanted[i] \in t.nets, t.out \in m.body.outs, Granted(t)
          PROVE  Excused(i)
      BY <2>1, <3>2 DEF Excused, Withdrawn, Granted, IsNew, Heard
    <3>3. CoverInv'
      BY <1>e, <2>1, <2>3, <3>1, <3>2 DEF CoverInv, CoveredBy, Planned
    <3> QED
      BY <2>3, <3>3 DEF CoverStep
  <2> QED
    BY <2>1, <2>2, <2>3
<1> QED
  BY <1>1, <1>2, <1>3 DEF OnOrder

\* What the client does by itself.
LEMMA LocalCover ==
  ASSUME TunnelInv, CoverInv, UNCHANGED gwVars, Local
  PROVE  CoverInv' /\ CoverStep
<1>g. UNCHANGED gwSent /\ gwSent \subseteq gwSent'
  BY GatewaySame
<1>1. CASE Establish
  <2>1. \/ UNCHANGED <<children, host, todo, kid>> /\ task = "start" /\ sent \subseteq sent'
        \/ Fail(stage, children)
    BY <1>1 DEF Establish, InitRequest, Request
  <2> QED
    BY <1>g, <2>1, SameCover, TeardownCover DEF Fail
<1>2. CASE Retransmit
  BY <1>g, <1>2, SameCover DEF Retransmit, kidVars
<1>3. CASE GiveUp
  <2>1. \/ Done /\ UNCHANGED host
        \/ Teardown(IF host THEN "Down" ELSE "Error", stage, "silent", children)
        \/ Teardown("Error", stage, down, children)
    BY <1>3 DEF GiveUp, Fail
  <2>2. CASE Done /\ UNCHANGED host
    BY <2>2 DEF Done, CoverInv, CoverStep, Asking
  <2> QED
    BY <2>1, <2>2, TeardownCover
<1>4. CASE IoError \/ Cancel
  <2>1. CASE Done /\ UNCHANGED host
    BY <2>1 DEF Done, CoverInv, CoverStep, Asking
  <2> QED
    BY <1>4, <2>1, TeardownCover DEF IoError, Cancel, Fail
<1>5. CASE StartDpd \/ \E k \in DOMAIN children : StartRekey(k)
  <2>1. task = "watch" /\ UNCHANGED host
    BY <1>5 DEF StartDpd, StartRekey
  <2>2. host
    BY <2>1 DEF TunnelInv, CliInv, SetupInv
  <2> QED
    BY <2>1, <2>2 DEF CoverInv, CoverStep
<1> QED
  BY <1>1, <1>2, <1>3, <1>4, <1>5 DEF Local

\* Every step.
LEMMA StepCover ==
  ASSUME TunnelInv, CoverInv, [TunnelNext]_allVars
  PROVE  CoverInv' /\ CoverStep
<1>1. ASSUME UNCHANGED vars, gwSent \subseteq gwSent' PROVE CoverInv' /\ CoverStep
  <2>1. UNCHANGED <<children, host, todo, kid, task, sent>>
    BY <1>1, ClientSame
  <2> QED
    BY <1>1, <2>1, SameCover
<1>2. ASSUME Gateway PROVE UNCHANGED vars /\ gwSent \subseteq gwSent'
  BY <1>2 DEF Gateway, GwOnInit, GwOnAuth, GwOnChild, GwOnInformational, GwProbe, GwAdditional, GwDeleteChild,
     GwRekeyChild, GwRekeyIke, GwDeleteIke, GwOnResponse, GwCrash, Order, Reply
<1>3. ASSUME UNCHANGED <<vars, gwVars>> PROVE UNCHANGED vars /\ gwSent \subseteq gwSent'
  BY <1>3, GatewaySame
<1>4. CASE UNCHANGED allVars
  BY <1>1, <1>3, <1>4 DEF allVars
<1> QED
  BY <1>1, <1>2, <1>3, <1>4, StepIs, ReplyCover, OrderCover, LocalCover

\* The interface comes up with every wanted network covered by a CHILD SA:
\* establish asks for each that no CHILD SA covers, whatever the gateway made
\* of the first one.  It is not covered only if the gateway has deleted a CHILD
\* SA that covered it, or has answered the request for it with selectors that
\* leave it out, which create_child takes as they come.
THEOREM ComesUpCovered == TunnelSpec => UpCovers
<1>1. TunnelInit => CoverInv
  <2> SUFFICES ASSUME TunnelInit PROVE (\A i \in DOMAIN Wanted : Planned(todo, i)) /\ Ours = {}
    BY DEF CoverInv
  <2>1. children = <<>> /\ children \in Seq(Kid)
    BY DEF TunnelInit, Init
  <2>2. Ours = {}
    BY <2>1, TriplesEmpty DEF Ours
  <2> QED
    BY <2>2 DEF TunnelInit, Init, Planned
<1>2. TunnelInv /\ CoverInv /\ [TunnelNext]_allVars => CoverInv'
  BY StepCover
<1>3. TunnelInv /\ CoverInv /\ [TunnelNext]_allVars =>
        [~host /\ host' =>
           \A i \in DOMAIN Wanted :
             \/ \E k \in DOMAIN children' : Wanted[i] \in children'[k].nets
             \/ Narrowed(Wanted[i]) \/ Withdrawn(Wanted[i])]_allVars
  <2> SUFFICES ASSUME TunnelInv, CoverInv, TunnelNext, ~host, host', NEW i \in DOMAIN Wanted, ~Excused(i)
               PROVE  \E k \in DOMAIN children' : Wanted[i] \in children'[k].nets
    BY DEF Excused, allVars, vars
  <2>2. CoveredBy(Ours', i)
    BY StepCover DEF CoverStep
  <2>3. \A c : Triple(c).nets = c.nets
    BY DEF Triple
  <2> QED
    BY <2>2, <2>3 DEF CoveredBy, Ours, Triples
<1> QED
  BY <1>1, <1>2, <1>3, TunnelInvariant, PTL DEF TunnelSpec, UpCovers

-----------------------------------------------------------------------------
(* What the two sides have.                                                *)

Draws == {m \in gwSent : m.body.what \in {"created", "rekeyChild"}}
Deleted == UNION {o.body.outs : o \in {m \in gwSent : m.body.what = "info"}}

\* The gateway's outbound SPIs tell its CHILD SAs apart.
OutInv ==
  /\ sa = NoSa => gwKids = {}
  /\ \A m, n \in Draws : m.body.out = n.body.out => m = n
  /\ \A c \in gwKids : c.out \notin Deleted
  /\ \A c, d \in gwKids : c.out = d.out => c = d
  /\ \A s \in Sas : gwSas[s].order # NoMessage /\ gwSas[s].order.body.what = "rekeyChild" =>
       /\ gwSas[s].order.body.out \notin Deleted
       /\ \A c \in gwKids : c.out # gwSas[s].order.body.out

\* A request of the gateway that the client has yet to handle.
Unheard(s) ==
  /\ s \in {sa, next} \ {NoSa} /\ gwSas[s].order # NoMessage
  /\ s = sa => gwSas[s].id = peerMessageId + 1

\* And the client's.
ListInv ==
  /\ \A t \in Ours : t.out \in 1 .. gwSpi
  /\ \A t, u \in Ours : t.out = u.out => t = u
  /\ \A s \in Sas : Unheard(s) /\ gwSas[s].order.body.what = "rekeyChild" =>
       \A t \in Ours : t.out # gwSas[s].order.body.out

\* A request that nobody will answer: on an IKE SA the client has left.
Stuck ==
  \E s \in Sas : /\ s < sa /\ gwSas[s].order # NoMessage
                 /\ \A m \in sent : ~(m.resp /\ m.sa = s /\ m.id = gwSas[s].order.id)

\* What the gateway has and the client has not, and the other way round.
NewIn == IF task = "child" THEN kid.in ELSE spi
Coming(c) ==
  \/ /\ task \in {"child", "auth", "final"}
     /\ \E r \in gwSent : /\ Answer(r) /\ r.body.what = "created"
                          /\ c = [in |-> NewIn, out |-> r.body.out, nets |-> r.body.nets]
  \/ task = "delete" /\ gwSas[sa].expect = wait.id /\ c.in = kid.old
Going(t) ==
  \/ \E s \in Sas : Unheard(s) /\ gwSas[s].order.body.what = "info" /\ t.out \in gwSas[s].order.body.outs
  \/ /\ sa # NoSa /\ gwSas[sa].order # NoMessage /\ Handled(sa) /\ gwSas[sa].order.body.what = "rekeyChild"
     /\ gwSas[sa].order.body.out = t.out
     /\ \E m \in sent : m.resp /\ m.sa = sa /\ m.id = gwSas[sa].order.id /\ m.body.what = "childCreated"
          /\ m.body.in = t.in

\* The gateway's CHILD SAs are the client's, or will be or were; and the other
\* way round.
GwHas == \A c \in gwKids : c \in Ours \/ Coming(c)
CliHas == Stuck \/ \A t \in Ours : t \in gwKids \/ Going(t)

\* What a response the client has yet to receive says is still so.
CreatedInv ==
  task \in {"child", "auth", "final"} => \A r \in gwSent : Answer(r) /\ r.body.what = "created" =>
    /\ [in |-> NewIn, out |-> r.body.out, nets |-> r.body.nets] \in gwKids
    /\ \A t \in Ours : t.out # r.body.out
FoundInv ==
  task = "child" => \A r \in gwSent : Answer(r) /\ r.body.what = "notFound" =>
    \A c \in gwKids : c.in # kid.old

\* A CHILD SA that is rekeyed is settled, one that is not is still there.
SettledInv ==
  task = "child" =>
    \A m \in sent : m.resp /\ m.body.what = "childCreated" /\ m.body.in = kid.old =>
      gwSas[m.sa].order = NoMessage \/ gwSas[m.sa].order.id # m.id
UnsettledInv ==
  sa # NoSa /\ gwSas[sa].order # NoMessage /\ Handled(sa) /\ gwSas[sa].order.body.what = "rekeyChild" =>
    \A m \in sent : m.resp /\ m.sa = sa /\ m.id = gwSas[sa].order.id /\ m.body.what = "childCreated" =>
      [in |-> m.body.in, out |-> gwSas[sa].order.body.out, nets |-> gwSas[sa].order.body.nets] \in Ours

\* The last CHILD SA is gone because a DELETE is on its way.
EmptyInv ==
  host /\ sas = 1 /\ Ours = {} =>
    Unheard(1) /\ gwSas[1].order.body.what = "info" /\ gwSas[1].order.body.outs # {}

KidInv ==
  /\ ListInv /\ GwHas /\ CliHas /\ CreatedInv /\ FoundInv
  /\ SettledInv /\ UnsettledInv /\ EmptyInv

ChildInv == OutInv /\ (Live => KidInv)

\* IKE_AUTH has rounds of EAP only if that is configured.
EapInv == task \in {"eap", "final"} => Eap

-----------------------------------------------------------------------------
(* The gateway's steps, by what they do to the CHILD SAs.                  *)

\* The gateway answers request m with b.
Answered(m, b, st) == Expected(m) /\ st \in SaStates /\ Taken(m, st) /\ Reply(m, b)

\* IKE_SA_INIT creates no CHILD SA.
LEMMA InitSteps ==
  ASSUME GwOnInit
  PROVE  /\ UNCHANGED <<gwKids, gwSpi>>
         /\ \E m \in sent : \E b :
              /\ m.body.what = "init" /\ gwSas[1].state = "none" /\ Reply(m, b)
              /\ b.what \in {"redirected", "refused", "accepted"}
              /\ UNCHANGED gwSas \/ gwSas' = [gwSas EXCEPT ![1].state = "half", ![1].expect = 1]
<1>1. PICK m \in sent :
        /\ m.body.what = "init" /\ gwSas[1].state = "none" /\ UNCHANGED <<gwKids, gwSpi>>
        /\ \/ Reply(m, [what |-> "redirected", of |-> m.body.left]) /\ UNCHANGED gwSas
           \/ Reply(m, Body("refused")) /\ UNCHANGED gwSas
           \/ Reply(m, Body("accepted")) /\ gwSas' = [gwSas EXCEPT ![1].state = "half", ![1].expect = 1]
  BY DEF GwOnInit
<1>2. PICK b : /\ b \in {[what |-> "redirected", of |-> m.body.left], Body("refused"), Body("accepted")}
               /\ Reply(m, b)
  BY <1>1
<1>3. b.what \in {"redirected", "refused", "accepted"}
  BY <1>2 DEF Body
<1> QED
  BY <1>1, <1>2, <1>3

\* IKE_AUTH creates the first one at its end.
LEMMA AuthSteps ==
  ASSUME GwOnAuth
  PROVE  \E m \in sent : \E b, st :
           /\ Answered(m, b, st) /\ m.body.what \in {"auth", "eap", "final"}
           /\ \/ b.what \in {"refused", "eapRequest", "eapSuccess", "authOnly"} /\ UNCHANGED <<gwKids, gwSpi>>
              \/ /\ Eap => m.body.what = "final"
                 /\ b.what = "created" /\ b.out = gwSpi + 1 /\ gwSpi' = gwSpi + 1
                 /\ gwKids' = {[in |-> 1, out |-> gwSpi + 1, nets |-> b.nets]}
<1>s. {"gone", "half", "up"} \subseteq SaStates
  BY DEF SaStates
<1>1. PICK m \in sent :
        /\ Expected(m) /\ m.body.what \in {"auth", "eap", "final"}
        /\ \/ Reply(m, Body("refused")) /\ Taken(m, "gone") /\ UNCHANGED <<gwKids, gwSpi>>
           \/ Reply(m, Body("eapRequest")) /\ Taken(m, "half") /\ UNCHANGED <<gwKids, gwSpi>>
           \/ Reply(m, Body("eapSuccess")) /\ Taken(m, "half") /\ UNCHANGED <<gwKids, gwSpi>>
           \/ Reply(m, Body("authOnly")) /\ Taken(m, "up") /\ UNCHANGED <<gwKids, gwSpi>>
           \/ /\ Eap => m.body.what = "final"
              /\ Taken(m, "up") /\ gwSpi' = gwSpi + 1
              /\ \E nets : /\ Reply(m, [what |-> "created", out |-> gwSpi + 1, nets |-> nets])
                           /\ gwKids' = {[in |-> 1, out |-> gwSpi + 1, nets |-> nets]}
  BY DEF GwOnAuth
<1>2. ASSUME NEW w \in {"refused", "eapRequest", "eapSuccess", "authOnly"}, Reply(m, Body(w)),
             NEW st \in {"gone", "half", "up"}, Taken(m, st), UNCHANGED <<gwKids, gwSpi>>
      PROVE  \E b : Answered(m, b, st) /\ b.what = w
  <2>1. PICK b : b = Body(w)
    OBVIOUS
  <2>2. b.what = w
    BY <2>1 DEF Body
  <2> QED
    BY <1>s, <1>1, <1>2, <2>1, <2>2 DEF Answered
<1>3. ASSUME Taken(m, "up"), NEW nets, Reply(m, [what |-> "created", out |-> gwSpi + 1, nets |-> nets]),
             gwKids' = {[in |-> 1, out |-> gwSpi + 1, nets |-> nets]}
      PROVE  \E b : /\ Answered(m, b, "up") /\ b.what = "created" /\ b.out = gwSpi + 1
                   /\ gwKids' = {[in |-> 1, out |-> gwSpi + 1, nets |-> b.nets]}
  <2>1. PICK b : b = [what |-> "created", out |-> gwSpi + 1, nets |-> nets]
    OBVIOUS
  <2>2. b.what = "created" /\ b.out = gwSpi + 1 /\ b.nets = nets
    BY <2>1
  <2> QED
    BY <1>s, <1>1, <1>3, <2>1, <2>2 DEF Answered
<1> QED
  BY <1>1, <1>2, <1>3

\* CREATE_CHILD_SA creates the one that is asked for, or a narrower one.
LEMMA ChildSteps ==
  ASSUME TunnelInv, GwOnChild
  PROVE  \E m \in sent : \E b, st :
           /\ Answered(m, b, st) /\ m.body.what = "child"
           /\ \/ b.what \in {"refused", "redirected"} /\ UNCHANGED <<gwKids, gwSpi>>
              \/ b.what = "notFound" /\ UNCHANGED <<gwKids, gwSpi>> /\ \A c \in gwKids : c.in # m.body.old
              \/ /\ b.what = "created" /\ b.out = gwSpi + 1 /\ gwSpi' = gwSpi + 1
                 /\ gwKids' = gwKids \cup {[in |-> m.body.in, out |-> gwSpi + 1, nets |-> b.nets]}
<1>1. PICK m \in sent :
        /\ Expected(m) /\ m.body.what = "child" /\ Taken(m, gwSas[m.sa].state)
        /\ \/ Reply(m, Body("refused")) /\ UNCHANGED <<gwKids, gwSpi>>
           \/ Reply(m, Body("redirected")) /\ UNCHANGED <<gwKids, gwSpi>>
           \/ Reply(m, Body("notFound")) /\ UNCHANGED <<gwKids, gwSpi>> /\ \A c \in gwKids : c.in # m.body.old
           \/ /\ gwSpi' = gwSpi + 1
              /\ \E nets : /\ Reply(m, [what |-> "created", out |-> gwSpi + 1, nets |-> nets])
                           /\ gwKids' = gwKids \cup {[in |-> m.body.in, out |-> gwSpi + 1, nets |-> nets]}
  BY DEF GwOnChild
<1>s. PICK st \in SaStates : st = gwSas[m.sa].state
  BY <1>1, SaFields DEF TunnelInv, GwInv, Expected
<1>2. ASSUME NEW w \in {"refused", "redirected", "notFound"}, Reply(m, Body(w))
      PROVE  \E b : Answered(m, b, st) /\ b.what = w
  <2>1. PICK b : b = Body(w)
    OBVIOUS
  <2>2. b.what = w
    BY <2>1 DEF Body
  <2> QED
    BY <1>s, <1>1, <1>2, <2>1, <2>2 DEF Answered
<1>3. ASSUME NEW nets, Reply(m, [what |-> "created", out |-> gwSpi + 1, nets |-> nets]),
             gwKids' = gwKids \cup {[in |-> m.body.in, out |-> gwSpi + 1, nets |-> nets]}
      PROVE  \E b : /\ Answered(m, b, st) /\ b.what = "created" /\ b.out = gwSpi + 1
                   /\ gwKids' = gwKids \cup {[in |-> m.body.in, out |-> gwSpi + 1, nets |-> b.nets]}
  <2>1. PICK b : b = [what |-> "created", out |-> gwSpi + 1, nets |-> nets]
    OBVIOUS
  <2>2. b.what = "created" /\ b.out = gwSpi + 1 /\ b.nets = nets
    BY <2>1
  <2> QED
    BY <1>s, <1>1, <1>3, <2>1, <2>2 DEF Answered
<1> QED
  BY <1>1, <1>2, <1>3

\* INFORMATIONAL deletes the one that is named, or all.
LEMMA InfoSteps ==
  ASSUME TunnelInv, GwOnInformational
  PROVE  \E m \in sent : \E b, st :
           /\ Answered(m, b, st) /\ m.body.what \in {"dpd", "deleteChild", "deleteIke"} /\ b.what = "done"
           /\ UNCHANGED gwSpi /\ gwKids' \subseteq gwKids
           /\ m.body.what = "dpd" => gwKids' = gwKids
           /\ m.body.what = "deleteChild" => gwKids' = {c \in gwKids : c.in # m.body.in}
<1>1. PICK m \in sent :
        /\ Expected(m) /\ m.body.what \in {"dpd", "deleteChild", "deleteIke"} /\ Reply(m, Body("done"))
        /\ Taken(m, IF m.body.what = "deleteIke" THEN "gone" ELSE gwSas[m.sa].state)
        /\ UNCHANGED gwSpi
        /\ gwKids' = CASE m.body.what = "deleteChild" -> {c \in gwKids : c.in # m.body.in}
                       [] m.body.what = "deleteIke" /\ m.sa = gwCurrent -> {}
                       [] OTHER -> gwKids
  BY DEF GwOnInformational
<1>2. /\ gwKids' \subseteq gwKids /\ (m.body.what = "dpd" => gwKids' = gwKids)
      /\ m.body.what = "deleteChild" => gwKids' = {c \in gwKids : c.in # m.body.in}
  BY <1>1
<1>3. PICK st \in SaStates : Taken(m, st)
  BY <1>1, SaFields DEF TunnelInv, GwInv, Expected, SaStates
<1>4. PICK b : b = Body("done")
  OBVIOUS
<1>5. b.what = "done"
  BY <1>4 DEF Body
<1> QED
  BY <1>1, <1>2, <1>3, <1>4, <1>5 DEF Answered

\* The requests of the gateway: a DELETE of a CHILD SA the client has had, a
\* new CHILD SA in place of another, or none of these.
LEMMA OrderSteps ==
  ASSUME TunnelInv, Orders
  PROVE  \E s \in Sas : \E b, st :
           /\ st \in {"up", "closing"} /\ Order(s, b, st)
           /\ \/ b.what \notin {"rekeyChild", "created"} /\ (b.what = "info" => b.outs = {}) /\ UNCHANGED <<gwKids, gwSpi>>
              \/ /\ b.what = "info" /\ UNCHANGED gwSpi
                 /\ \E c \in gwKids : Installed(c) /\ b.outs = {c.out} /\ gwKids' = gwKids \ {c}
              \/ b.what = "rekeyChild" /\ b.out = gwSpi + 1 /\ gwSpi' = gwSpi + 1 /\ UNCHANGED gwKids
<1>c. gwCurrent # NoSa => gwCurrent \in Sas
  BY DEF TunnelInv, GwInv, GwType, Sas, NoSa
<1>1. CASE GwProbe \/ GwDeleteIke
  <2>0. PICK no \in BOOLEAN, s \in Sas, st \in {"up", "closing"} :
          Order(s, Info(no, {}), st) /\ UNCHANGED <<gwKids, gwSpi>>
    BY <1>1 DEF GwProbe, GwDeleteIke
  <2>1. PICK b : b = Info(no, {})
    OBVIOUS
  <2>2. b.what = "info" /\ b.outs = {}
    BY <2>1 DEF Info
  <2>3. Order(s, b, st)
    BY <2>0, <2>1
  <2> QED
    BY <2>0, <2>2, <2>3
<1>2. CASE GwAdditional
  <2>1. PICK s \in Sas : Order(s, Body("other"), "up") /\ UNCHANGED <<gwKids, gwSpi>>
    BY <1>2 DEF GwAdditional
  <2>2. PICK b : b = Body("other")
    OBVIOUS
  <2>3. b.what = "other"
    BY <2>2 DEF Body
  <2> QED
    BY <2>1, <2>2, <2>3
<1>3. CASE GwDeleteChild
  <2>0. PICK no \in BOOLEAN : no = FALSE
    OBVIOUS
  <2>1. PICK s \in Sas, c \in gwKids :
          Installed(c) /\ Order(s, Info(no, {c.out}), "up") /\ gwKids' = gwKids \ {c} /\ UNCHANGED gwSpi
    BY <1>3, <2>0 DEF GwDeleteChild
  <2>2. PICK b : b = Info(no, {c.out})
    OBVIOUS
  <2>3. b.what = "info" /\ b.outs = {c.out}
    BY <2>2 DEF Info
  <2>4. Order(s, b, "up")
    BY <2>1, <2>2
  <2> QED
    BY <2>1, <2>3, <2>4
<1>4. CASE GwRekeyChild
  <2>1. PICK c \in gwKids :
          /\ gwCurrent # NoSa
          /\ Order(gwCurrent, [what |-> "rekeyChild", old |-> c.out, out |-> gwSpi + 1, nets |-> c.nets], "up")
          /\ gwSpi' = gwSpi + 1 /\ UNCHANGED gwKids
    BY <1>4 DEF GwRekeyChild
  <2>2. PICK b : b = [what |-> "rekeyChild", old |-> c.out, out |-> gwSpi + 1, nets |-> c.nets]
    OBVIOUS
  <2>3. b.what = "rekeyChild" /\ b.out = gwSpi + 1
    BY <2>2
  <2>4. Order(gwCurrent, b, "up")
    BY <2>1, <2>2
  <2> QED
    BY <1>c, <2>1, <2>3, <2>4
<1>5. CASE GwRekeyIke
  <2>1. PICK b : b = Body("rekeyIke")
    OBVIOUS
  <2>2. b.what = "rekeyIke"
    BY <2>1 DEF Body
  <2> QED
    BY <1>5, <2>1, <2>2, <1>c DEF GwRekeyIke
<1> QED
  BY <1>1, <1>2, <1>3, <1>4, <1>5 DEF Orders

\* A response of the client: to the rekey of a CHILD SA, which creates one, to
\* the DELETE of the IKE SA that owns them, or to none of these.
ResponseStep(m) ==
  /\ m.resp /\ m.sa \in Sas /\ gwSas[m.sa].order # NoMessage /\ m.id = gwSas[m.sa].order.id
  /\ gwSas' = IF m.body.what = "ikeCreated" THEN [Cleared(m.sa) EXCEPT ![m.body.sa].state = "up"] ELSE Cleared(m.sa)
  /\ UNCHANGED <<gwSpi, gwSent>>

\* The client's response reaches the gateway.
LEMMA ResponseSteps ==
  ASSUME TunnelInv, GwOnResponse
  PROVE  \E m \in sent :
           /\ ResponseStep(m)
           /\ \/ m.body.what # "childCreated" /\ UNCHANGED gwKids
              \/ /\ m.body.what # "childCreated" /\ gwKids' = {} /\ m.sa = gwCurrent
                 /\ gwSas[m.sa].order.body.what = "info" /\ gwSas[m.sa].order.body.ike
              \/ /\ m.body.what = "childCreated" /\ gwSas[m.sa].order.body.what = "rekeyChild"
                 /\ gwKids' = gwKids \cup {[in |-> m.body.in, out |-> gwSas[m.sa].order.body.out,
                                            nets |-> gwSas[m.sa].order.body.nets]}
<1>1. PICK m \in sent :
        /\ ResponseStep(m)
        /\ gwKids' = CASE m.body.what = "childCreated" ->
                            gwKids \cup {[in |-> m.body.in, out |-> gwSas[m.sa].order.body.out,
                                          nets |-> gwSas[m.sa].order.body.nets]}
                       [] /\ gwSas[m.sa].order.body.what = "info" /\ gwSas[m.sa].order.body.ike
                          /\ m.sa = gwCurrent -> {}
                       [] OTHER -> gwKids
  BY DEF GwOnResponse, ResponseStep, Cleared
<1>2. Suits(gwSas[m.sa].order.body, m.body)
  BY <1>1, ResponseFacts DEF ResponseStep, TunnelInv
<1>3. m.body.what = "childCreated" => gwSas[m.sa].order.body.what = "rekeyChild"
  BY <1>2 DEF Suits
<1> QED
  BY <1>1, <1>3

-----------------------------------------------------------------------------
(* The gateway's SPIs.                                                     *)

\* The SPIs on the wire are drawn.
LEMMA OutsDrawn ==
  ASSUME TunnelInv
  PROVE  /\ gwSpi \in Nat /\ Deleted \subseteq 1 .. gwSpi
         /\ \A m \in Draws : m.body.out \in 1 .. gwSpi /\ (m.resp <=> m.body.what = "created")
         /\ \A m \in gwSent : m.body.what = "info" => ~m.resp
<1>1. ASSUME NEW m \in gwSent, m.resp PROVE m.body.what \notin {"info", "rekeyChild"}
  BY <1>1 DEF TunnelInv, GwInv, ReplyInv, Fits
<1>2. ASSUME NEW m \in gwSent, ~m.resp PROVE IsOrder(m.body)
  BY <1>2 DEF TunnelInv, GwInv, OrderInv
<1>3. gwSpi \in Nat
  BY DEF TunnelInv, GwInv, GwType
<1>4. Deleted \subseteq 1 .. gwSpi
  <2> SUFFICES ASSUME NEW o \in gwSent, o.body.what = "info" PROVE o.body.outs \subseteq 1 .. gwSpi
    BY DEF Deleted
  <2> QED
    BY <1>1, <1>2 DEF IsOrder
<1>5. ASSUME NEW m \in Draws PROVE m.body.out \in 1 .. gwSpi /\ (m.resp <=> m.body.what = "created")
  <2>1. CASE m.resp
    <3>1. m.body.what = "created"
      BY <1>1, <2>1 DEF Draws
    <3> QED
      BY <2>1, <3>1 DEF Draws, TunnelInv, GwInv, ReplyInv, Fits
  <2>2. CASE ~m.resp
    BY <1>2, <2>2 DEF Draws, IsOrder
  <2> QED
    BY <2>1, <2>2
<1> QED
  BY <1>1, <1>3, <1>4, <1>5

\* The requests under way have been sent.
LEMMA OrderSent ==
  ASSUME TunnelInv, NEW s \in Sas, gwSas[s].order # NoMessage
  PROVE  /\ gwSas[s].order \in gwSent /\ ~gwSas[s].order.resp /\ gwSas[s].order.sa = s
         /\ gwSas[s].order.id + 1 = gwSas[s].id /\ gwSas[s].order.id \in Nat
<1>1. GwType /\ OrderInv
  BY DEF TunnelInv, GwInv
<1>2. gwSas[s].order \in gwSent
  BY <1>1, SaFields
<1> QED
  BY <1>1, <1>2 DEF OrderInv, GwType

\* A message that draws no SPI and deletes nothing.
LEMMA NothingDrawn ==
  ASSUME NEW n, gwSent' = gwSent \cup {n}, n.body.what \notin {"created", "rekeyChild"},
         n.body.what = "info" => n.body.outs = {}
  PROVE  UNCHANGED <<Draws, Deleted>>
<1>1. Draws' = Draws
  BY DEF Draws
<1>2. Deleted' \subseteq Deleted
  BY DEF Deleted
<1>3. Deleted \subseteq Deleted'
  BY DEF Deleted
<1> QED
  BY <1>1, <1>2, <1>3

\* The gateway answers a request of the client.
LEMMA AnsweredOut ==
  ASSUME TunnelInv, OutInv, UNCHANGED vars, NEW n, gwSent' = gwSent \cup {n}, n.resp, n.body.what # "info",
         n.body.what # "rekeyChild", \A s \in Sas : gwSas'[s].order = gwSas[s].order,
         \/ n.body.what # "created" /\ gwKids' \subseteq gwKids
         \/ /\ n.body.what = "created" /\ n.body.out = gwSpi + 1 /\ sa # NoSa
            /\ \E c : c.out = gwSpi + 1 /\ gwKids' \subseteq gwKids \cup {c}
  PROVE  OutInv'
<1>g. gwSpi \in Nat
  BY OutsDrawn
<1>c. UNCHANGED <<sa, sent>>
  BY ClientSame
<1>1. CASE n.body.what # "created" /\ gwKids' \subseteq gwKids
  <2>1. UNCHANGED <<Draws, Deleted>>
    BY <1>1, NothingDrawn
  <2> QED
    BY <1>1, <1>c, <2>1 DEF OutInv
<1>2. CASE n.body.what = "created" /\ n.body.out = gwSpi + 1 /\ sa # NoSa /\ \E c : c.out = gwSpi + 1 /\ gwKids' \subseteq gwKids \cup {c}
  <2>0. PICK c : c.out = gwSpi + 1 /\ gwKids' \subseteq gwKids \cup {c}
    BY <1>2
  <2>1. Draws' = Draws \cup {n} /\ Deleted' = Deleted
    <3>1. Draws' = Draws \cup {n}
      BY <1>2 DEF Draws
    <3>2. Deleted' = Deleted
      BY DEF Deleted
    <3> QED
      BY <3>1, <3>2
  <2>2. \A m \in Draws : m.body.out # gwSpi + 1
    BY <1>g, OutsDrawn
  <2>3. gwSpi + 1 \notin Deleted
    BY <1>g, OutsDrawn
  <2>4. \A d \in gwKids : d.out # gwSpi + 1
    BY <1>g DEF TunnelInv, KidType
  <2>5. \A m, k \in Draws' : m.body.out = k.body.out => m = k
    BY <1>2, <2>1, <2>2 DEF OutInv
  <2>6. \A d \in gwKids' : d.out \notin Deleted'
    BY <2>0, <2>1, <2>3 DEF OutInv
  <2>7. \A d, e \in gwKids' : d.out = e.out => d = e
    BY <2>0, <2>4 DEF OutInv
  <2>8. ASSUME NEW s \in Sas, gwSas'[s].order # NoMessage, gwSas'[s].order.body.what = "rekeyChild"
        PROVE  gwSas'[s].order.body.out \notin Deleted' /\ \A d \in gwKids' : d.out # gwSas'[s].order.body.out
    <3>1. gwSas[s].order \in Draws
      BY <2>8, OrderSent DEF Draws
    <3>2. gwSas[s].order.body.out # gwSpi + 1
      BY <2>2, <3>1
    <3> QED
      BY <2>0, <2>1, <2>8, <3>2 DEF OutInv
  <2> QED
    BY <1>2, <1>c, <2>5, <2>6, <2>7, <2>8 DEF OutInv
<1> QED
  BY <1>1, <1>2

\* The gateway sends a request.
LEMMA OrderedOut ==
  ASSUME TunnelInv, OutInv, UNCHANGED vars, Orders
  PROVE  OutInv'
<1>g. gwSpi \in Nat
  BY OutsDrawn
<1>c. UNCHANGED <<sa, sent>>
  BY ClientSame
<1>0. PICK s \in Sas : \E b, st :
        /\ st \in {"up", "closing"} /\ Order(s, b, st)
        /\ \/ b.what \notin {"rekeyChild", "created"} /\ (b.what = "info" => b.outs = {}) /\ UNCHANGED <<gwKids, gwSpi>>
           \/ /\ b.what = "info" /\ UNCHANGED gwSpi
              /\ \E c \in gwKids : Installed(c) /\ b.outs = {c.out} /\ gwKids' = gwKids \ {c}
           \/ b.what = "rekeyChild" /\ b.out = gwSpi + 1 /\ gwSpi' = gwSpi + 1 /\ UNCHANGED gwKids
  BY OrderSteps
<1>1. PICK b, st :
        /\ st \in {"up", "closing"} /\ Order(s, b, st)
        /\ \/ b.what \notin {"rekeyChild", "created"} /\ (b.what = "info" => b.outs = {}) /\ UNCHANGED <<gwKids, gwSpi>>
           \/ /\ b.what = "info" /\ UNCHANGED gwSpi
              /\ \E c \in gwKids : Installed(c) /\ b.outs = {c.out} /\ gwKids' = gwKids \ {c}
           \/ b.what = "rekeyChild" /\ b.out = gwSpi + 1 /\ gwSpi' = gwSpi + 1 /\ UNCHANGED gwKids
  BY <1>0
<1> DEFINE n == Message(s, gwSas[s].id, FALSE, b)
<1>2. /\ gwSas' \in [Sas -> [state : SaStates, expect : Nat, id : Nat, order : gwSent' \cup {NoMessage}]]
      /\ \A t \in Sas : t # s => gwSas'[t] = gwSas[t]
      /\ gwSas'[s].expect = gwSas[s].expect /\ gwSas'[s].state = st
      /\ gwSas'[s].id = gwSas[s].id + 1 /\ gwSas'[s].order = n
      /\ gwSent' = gwSent \cup {n}
      /\ n.sa = s /\ n.id = gwSas[s].id /\ ~n.resp /\ n.resp \in BOOLEAN /\ n.body = b /\ n # NoMessage
  <2>1. st \in SaStates /\ GwType
    BY <1>1 DEF SaStates, TunnelInv, GwInv
  <2> QED
    BY <1>1, <2>1, OrderedIs
<1> HIDE DEF n
<1>3. CASE b.what \notin {"rekeyChild", "created"} /\ (b.what = "info" => b.outs = {}) /\ UNCHANGED <<gwKids, gwSpi>>
  <2>1. UNCHANGED <<Draws, Deleted>>
    BY <1>2, <1>3, NothingDrawn
  <2> QED
    BY <1>2, <1>3, <1>c, <2>1 DEF OutInv
<1>4. CASE b.what = "info" /\ UNCHANGED gwSpi /\ \E c \in gwKids : Installed(c) /\ b.outs = {c.out} /\ gwKids' = gwKids \ {c}
  <2>0. PICK c \in gwKids : b.outs = {c.out} /\ gwKids' = gwKids \ {c}
    BY <1>4
  <2>1. Draws' = Draws
    BY <1>2, <1>4 DEF Draws
  <2>2. Deleted' \subseteq Deleted \cup {c.out}
    BY <1>2, <2>0 DEF Deleted
  <2>3. \A d \in gwKids' : d.out \notin Deleted'
    BY <2>0, <2>2 DEF OutInv
  <2>4. ASSUME NEW t \in Sas, gwSas'[t].order # NoMessage, gwSas'[t].order.body.what = "rekeyChild"
        PROVE  gwSas'[t].order.body.out \notin Deleted' /\ \A d \in gwKids' : d.out # gwSas'[t].order.body.out
    <3>1. t # s /\ gwSas'[t] = gwSas[t]
      BY <1>2, <1>4, <2>4
    <3> QED
      BY <2>0, <2>2, <2>4, <3>1 DEF OutInv
  <2> QED
    BY <1>c, <2>0, <2>1, <2>3, <2>4 DEF OutInv
<1>5. CASE b.what = "rekeyChild" /\ b.out = gwSpi + 1 /\ gwSpi' = gwSpi + 1 /\ UNCHANGED gwKids
  <2>1. Draws' = Draws \cup {n} /\ Deleted' = Deleted
    <3>1. Draws' = Draws \cup {n}
      BY <1>2, <1>5 DEF Draws
    <3>2. Deleted' = Deleted
      BY <1>2, <1>5 DEF Deleted
    <3> QED
      BY <3>1, <3>2
  <2>2. \A m \in Draws : m.body.out # gwSpi + 1
    BY <1>g, OutsDrawn
  <2>3. gwSpi + 1 \notin Deleted
    BY <1>g, OutsDrawn
  <2>4. \A d \in gwKids : d.out # gwSpi + 1
    BY <1>g DEF TunnelInv, KidType
  <2>5. \A m, k \in Draws' : m.body.out = k.body.out => m = k
    BY <1>2, <1>5, <2>1, <2>2 DEF OutInv
  <2>6. ASSUME NEW t \in Sas, gwSas'[t].order # NoMessage, gwSas'[t].order.body.what = "rekeyChild"
        PROVE  gwSas'[t].order.body.out \notin Deleted' /\ \A d \in gwKids' : d.out # gwSas'[t].order.body.out
    <3>1. CASE t = s
      BY <1>2, <1>5, <2>1, <2>3, <2>4, <3>1
    <3>2. CASE t # s
      BY <1>2, <1>5, <2>1, <2>6, <3>2 DEF OutInv
    <3> QED
      BY <3>1, <3>2
  <2> QED
    BY <1>5, <1>c, <2>1, <2>5, <2>6 DEF OutInv
<1> QED
  BY <1>1, <1>3, <1>4, <1>5

\* The gateway takes a response.
LEMMA ResponseOut ==
  ASSUME TunnelInv, OutInv, UNCHANGED vars, GwOnResponse
  PROVE  OutInv'
<1>c. UNCHANGED <<sa, sent>>
  BY ClientSame
<1>1. PICK m \in sent :
        /\ ResponseStep(m)
        /\ \/ m.body.what # "childCreated" /\ UNCHANGED gwKids
           \/ /\ m.body.what # "childCreated" /\ gwKids' = {} /\ m.sa = gwCurrent
              /\ gwSas[m.sa].order.body.what = "info" /\ gwSas[m.sa].order.body.ike
           \/ /\ m.body.what = "childCreated" /\ gwSas[m.sa].order.body.what = "rekeyChild"
              /\ gwKids' = gwKids \cup {[in |-> m.body.in, out |-> gwSas[m.sa].order.body.out,
                                         nets |-> gwSas[m.sa].order.body.nets]}
  BY ResponseSteps
<1>2. /\ \A t \in Sas : t # m.sa => gwSas'[t].order = gwSas[t].order
      /\ gwSas'[m.sa].order = NoMessage
  BY <1>1, ResponseIs DEF ResponseStep, TunnelInv
<1>s. UNCHANGED <<Draws, Deleted>>
  BY <1>1 DEF ResponseStep, Draws, Deleted
<1>z. sa # NoSa
  BY <1>1, ResponseFacts, Bounds DEF ResponseStep, TunnelInv
<1>3. CASE gwKids' \subseteq gwKids
  BY <1>c, <1>2, <1>3, <1>s, <1>z DEF OutInv
<1>4. CASE /\ gwSas[m.sa].order.body.what = "rekeyChild"
           /\ gwKids' = gwKids \cup {[in |-> m.body.in, out |-> gwSas[m.sa].order.body.out,
                                      nets |-> gwSas[m.sa].order.body.nets]}
  <2>1. PICK c : c.out = gwSas[m.sa].order.body.out /\ gwKids' = gwKids \cup {c}
    BY <1>4
  <2>2. m.sa \in Sas /\ gwSas[m.sa].order # NoMessage
    BY <1>1 DEF ResponseStep
  <2>3. c.out \notin Deleted /\ \A d \in gwKids : d.out # c.out
    BY <1>4, <2>1, <2>2 DEF OutInv
  <2>4. ASSUME NEW t \in Sas, gwSas'[t].order # NoMessage, gwSas'[t].order.body.what = "rekeyChild"
        PROVE  gwSas'[t].order.body.out \notin Deleted' /\ \A d \in gwKids' : d.out # gwSas'[t].order.body.out
    <3>1. t # m.sa /\ gwSas'[t].order = gwSas[t].order
      BY <1>2, <2>4
    <3> DEFINE o == gwSas[t].order
               p == gwSas[m.sa].order
    <3>2. o \in gwSent /\ o.sa = t /\ p \in gwSent /\ p.sa = m.sa
      BY <2>2, <2>4, <3>1, OrderSent
    <3>3. o.body.what = "rekeyChild" /\ p.body.what = "rekeyChild" /\ p.body.out = c.out /\ o # NoMessage
      BY <1>4, <2>1, <2>4, <3>1
    <3>4. o.body.out \notin Deleted /\ \A d \in gwKids : d.out # o.body.out
      BY <3>3 DEF OutInv
    <3> HIDE DEF o, p
    <3>5. o \in Draws /\ p \in Draws /\ o # p
      BY <3>1, <3>2, <3>3 DEF Draws
    <3>6. o.body.out # c.out
      BY <3>3, <3>5 DEF OutInv
    <3>7. gwSas'[t].order = o
      BY <3>1 DEF o
    <3> QED
      BY <1>s, <2>1, <3>4, <3>6, <3>7
  <2>5. \A d, e \in gwKids' : d.out = e.out => d = e
    BY <2>1, <2>3 DEF OutInv
  <2>6. \A d \in gwKids' : d.out \notin Deleted'
    BY <1>s, <2>1, <2>3 DEF OutInv
  <2> QED
    BY <1>c, <1>s, <1>z, <2>4, <2>5, <2>6 DEF OutInv
<1> QED
  BY <1>1, <1>3, <1>4

\* A step of the gateway.
LEMMA GatewayOut ==
  ASSUME TunnelInv, OutInv, Gateway
  PROVE  OutInv'
<1>v. UNCHANGED vars
  BY DEF Gateway
<1>c. UNCHANGED sa
  BY <1>v, ClientSame
<1>t. GwType
  BY DEF TunnelInv, GwInv
<1>r. ASSUME NEW m, NEW b, Reply(m, b)
      PROVE  \E n : gwSent' = gwSent \cup {n} /\ n.resp /\ n.body = b
  <2> DEFINE n == Message(m.sa, m.id, TRUE, b)
  <2>1. gwSent' = gwSent \cup {n} /\ n.resp /\ n.body = b
    BY <1>r DEF Reply, Message
  <2> QED
    BY <2>1
<1>a. ASSUME NEW m \in sent, NEW b, NEW st, Answered(m, b, st)
      PROVE  \A s \in Sas : gwSas'[s].order = gwSas[s].order
  <2>1. m.sa \in Sas /\ gwSent \subseteq gwSent'
    BY <1>a DEF Answered, Expected, Reply
  <2> QED
    BY <1>a, <1>t, <2>1, TakenIs DEF Answered
<1>z. ASSUME NEW m \in sent, Expected(m) PROVE sa # NoSa
  <2>1. m.sa \in Sas /\ m.sa <= sa
    BY <1>z DEF Expected, TunnelInv, IInv, KeyInv, SentBefore
  <2> QED
    BY <2>1, Bounds, Sizes DEF NoSa
<1>1. CASE GwOnInit
  <2>1. PICK m \in sent : \E b :
              /\ m.body.what = "init" /\ gwSas[1].state = "none" /\ Reply(m, b)
              /\ b.what \in {"redirected", "refused", "accepted"}
              /\ UNCHANGED gwSas \/ gwSas' = [gwSas EXCEPT ![1].state = "half", ![1].expect = 1]
    BY <1>1, InitSteps
  <2>2. PICK b :
              /\ Reply(m, b) /\ b.what \in {"redirected", "refused", "accepted"}
              /\ UNCHANGED gwSas \/ gwSas' = [gwSas EXCEPT ![1].state = "half", ![1].expect = 1]
    BY <2>1
  <2>3. PICK n : gwSent' = gwSent \cup {n} /\ n.resp /\ n.body = b
    BY <1>r, <2>2
  <2>4. \A s \in Sas : gwSas'[s].order = gwSas[s].order
    BY <1>t, <2>2, <2>3, HalfIs
  <2>5. UNCHANGED gwKids
    BY <1>1, InitSteps
  <2> QED
    BY <1>v, <2>2, <2>3, <2>4, <2>5, AnsweredOut
<1>2. CASE GwOnAuth
  <2>1. PICK m \in sent : \E b, st :
           /\ Answered(m, b, st)
           /\ \/ b.what \in {"refused", "eapRequest", "eapSuccess", "authOnly"} /\ UNCHANGED <<gwKids, gwSpi>>
              \/ /\ b.what = "created" /\ b.out = gwSpi + 1
                 /\ gwKids' = {[in |-> 1, out |-> gwSpi + 1, nets |-> b.nets]}
    BY <1>2, AuthSteps
  <2>2. PICK b, st :
           /\ Answered(m, b, st)
           /\ \/ b.what \in {"refused", "eapRequest", "eapSuccess", "authOnly"} /\ UNCHANGED <<gwKids, gwSpi>>
              \/ /\ b.what = "created" /\ b.out = gwSpi + 1
                 /\ gwKids' = {[in |-> 1, out |-> gwSpi + 1, nets |-> b.nets]}
    BY <2>1
  <2>3. PICK n : gwSent' = gwSent \cup {n} /\ n.resp /\ n.body = b
    BY <1>r, <2>2 DEF Answered
  <2>4. \A s \in Sas : gwSas'[s].order = gwSas[s].order
    BY <1>a, <2>2
  <2>5. sa # NoSa
    BY <1>z, <2>2 DEF Answered
  <2>6. b.what = "created" => \E c : c.out = gwSpi + 1 /\ gwKids' \subseteq gwKids \cup {c}
    BY <2>2
  <2> QED
    BY <1>v, <2>2, <2>3, <2>4, <2>5, <2>6, AnsweredOut
<1>3. CASE GwOnChild
  <2>1. PICK m \in sent : \E b, st :
           /\ Answered(m, b, st)
           /\ \/ b.what \in {"refused", "redirected", "notFound"} /\ UNCHANGED <<gwKids, gwSpi>>
              \/ /\ b.what = "created" /\ b.out = gwSpi + 1
                 /\ gwKids' = gwKids \cup {[in |-> m.body.in, out |-> gwSpi + 1, nets |-> b.nets]}
    BY <1>3, ChildSteps
  <2>2. PICK b, st :
           /\ Answered(m, b, st)
           /\ \/ b.what \in {"refused", "redirected", "notFound"} /\ UNCHANGED <<gwKids, gwSpi>>
              \/ /\ b.what = "created" /\ b.out = gwSpi + 1
                 /\ gwKids' = gwKids \cup {[in |-> m.body.in, out |-> gwSpi + 1, nets |-> b.nets]}
    BY <2>1
  <2>3. PICK n : gwSent' = gwSent \cup {n} /\ n.resp /\ n.body = b
    BY <1>r, <2>2 DEF Answered
  <2>4. \A s \in Sas : gwSas'[s].order = gwSas[s].order
    BY <1>a, <2>2
  <2>5. sa # NoSa
    BY <1>z, <2>2 DEF Answered
  <2>6. b.what = "created" => \E c : c.out = gwSpi + 1 /\ gwKids' \subseteq gwKids \cup {c}
    BY <2>2
  <2> QED
    BY <1>v, <2>2, <2>3, <2>4, <2>5, <2>6, AnsweredOut
<1>4. CASE GwOnInformational
  <2>1. PICK m \in sent : \E b, st : Answered(m, b, st) /\ b.what = "done" /\ gwKids' \subseteq gwKids
    BY <1>4, InfoSteps
  <2>2. PICK b, st : Answered(m, b, st) /\ b.what = "done" /\ gwKids' \subseteq gwKids
    BY <2>1
  <2>3. PICK n : gwSent' = gwSent \cup {n} /\ n.resp /\ n.body = b
    BY <1>r, <2>2 DEF Answered
  <2>4. \A s \in Sas : gwSas'[s].order = gwSas[s].order
    BY <1>a, <2>2
  <2> QED
    BY <1>v, <2>2, <2>3, <2>4, AnsweredOut
<1>5. CASE GwCrash
  <2>1. UNCHANGED <<gwSas, gwKids, gwSent>>
    BY <1>5 DEF GwCrash
  <2> QED
    BY <1>c, <2>1 DEF OutInv, Draws, Deleted
<1> QED
  BY <1>v, <1>1, <1>2, <1>3, <1>4, <1>5, OrderedOut, ResponseOut DEF Gateway, Orders

\* Every step.
LEMMA StepOut ==
  ASSUME TunnelInv, OutInv, [TunnelNext]_allVars
  PROVE  OutInv'
<1>1. CASE Gateway
  BY <1>1, GatewayOut
<1>2. ASSUME UNCHANGED gwVars, sa' = NoSa => sa = NoSa PROVE OutInv'
  BY <1>2, GatewaySame DEF OutInv, Draws, Deleted
<1>3. CASE UNCHANGED <<vars, gwVars>>
  BY <1>2, <1>3, ClientSame
<1>4. ASSUME NEW m \in gwSent, OnReply(m) \/ OnOrder(m) PROVE sa' = NoSa => sa = NoSa
  <2>1. CASE OnReply(m)
    BY <2>1 DEF OnReply, OnInitReply, OnFinalReply, OnEapReply, OnChildReply, OnPlainReply, OnCloseReply, saVars, NoSa
  <2>2. CASE OnInformational(m)
    <3>1. UNCHANGED sa \/ (next # NoSa /\ sa' = next)
      BY <2>2 DEF OnInformational, SwitchIke
    <3> QED
      BY <3>1
  <2>3. CASE OnOrder(m) /\ ~OnInformational(m)
    BY <2>3 DEF OnOrder, OnRetransmission, OnRefused, OnIkeRekey, OnChildRekey, saVars
  <2> QED
    BY <1>4, <2>1, <2>2, <2>3
<1>5. ASSUME Local PROVE sa' = sa
  BY <1>5 DEF Local, Establish, Retransmit, GiveUp, IoError, Cancel, StartDpd, StartRekey, saVars
<1>6. CASE UNCHANGED allVars
  BY <1>3, <1>6 DEF allVars
<1> QED
  BY <1>1, <1>2, <1>3, <1>4, <1>5, <1>6, StepIs

-----------------------------------------------------------------------------
(* The CHILD SAs of the two sides: the gateway's steps.                    *)

\* A response of the client answers a request the gateway had under way.
LEMMA ResponsePlace ==
  ASSUME TunnelInv, NEW m \in sent, m.resp
  PROVE  m.sa \in Sas /\ m.sa <= sa /\ sa \in Sas /\ m.id \in Nat /\ m.id < gwSas[m.sa].id
<1>1. m.sa \in Sas
  BY DEF TunnelInv, GwInv, AnswerInv, OrderInv
<1>2. m.sa <= sa
  BY DEF TunnelInv, IInv, KeyInv, SentBefore
<1>3. m.id \in Nat /\ m.id < gwSas[m.sa].id
  BY <1>1, Unanswered DEF TunnelInv
<1> QED
  BY <1>1, <1>2, <1>3, Sizes, Bounds DEF NoSa

\* The request under way has one response at most.
LEMMA OneAnswer ==
  ASSUME TunnelInv, NEW r \in gwSent, NEW m \in gwSent, Answer(r), Answer(m), sa # NoSa
  PROVE  r = m
BY DEF Answer, TunnelInv, GwInv, ReplyInv

\* The gateway's requests stay as they are.
LEMMA SameOrders ==
  ASSUME TunnelInv, KidInv, UNCHANGED vars, gwSpi' \in Nat, gwSpi' >= gwSpi,
         \A s \in Sas : gwSas'[s].id = gwSas[s].id /\ gwSas'[s].order = gwSas[s].order,
         \A t \in Ours : t \in gwKids => t \in gwKids',
         GwHas', CreatedInv', FoundInv'
  PROVE  KidInv'
<1>c. /\ UNCHANGED <<sa, next, sas, peerMessageId, children, host, kid, task, wait, sent, spi>>
      /\ UNCHANGED Ours
  BY ClientSame DEF Ours
<1>z. /\ sa # NoSa => sa \in Sas
      /\ next # NoSa => next \in Sas
  BY Sizes
<1>1. \A s : Unheard(s)' <=> Unheard(s)
  BY <1>c, <1>z DEF Unheard
<1>2. \A s \in Sas : gwSas'[s].order = gwSas[s].order
  OBVIOUS
<1>3. \A t : Going(t) => Going(t)'
  <2> TAKE t
  <2>1. ASSUME NEW s \in Sas, Unheard(s), gwSas[s].order.body.what = "info", t.out \in gwSas[s].order.body.outs
        PROVE  Going(t)'
    BY <1>1, <1>2, <2>1 DEF Going
  <2>2. ASSUME sa # NoSa, gwSas[sa].order # NoMessage, Handled(sa), gwSas[sa].order.body.what = "rekeyChild",
               gwSas[sa].order.body.out = t.out,
               \E m \in sent : m.resp /\ m.sa = sa /\ m.id = gwSas[sa].order.id /\ m.body.what = "childCreated"
                 /\ m.body.in = t.in
        PROVE  Going(t)'
    <3>1. gwSas'[sa].order = gwSas[sa].order /\ gwSas'[sa].id = gwSas[sa].id
      BY <1>z, <2>2
    <3> QED
      BY <1>c, <2>2, <3>1 DEF Going, Handled
  <2> QED
    BY <2>1, <2>2 DEF Going
<1>4. Stuck => Stuck'
  BY <1>c DEF Stuck
<1>5. ListInv'
  <2>1. gwSpi \in Nat
    BY OutsDrawn
  <2> QED
    BY <1>1, <1>2, <1>c, <2>1 DEF KidInv, ListInv
<1>6. CliHas'
  BY <1>3, <1>4, <1>c DEF KidInv, CliHas
<1>7. SettledInv'
  <2> SUFFICES ASSUME task = "child", NEW m \in sent, m.resp, m.body.what = "childCreated", m.body.in = kid.old
               PROVE  gwSas'[m.sa].order = NoMessage \/ gwSas'[m.sa].order.id # m.id
    BY <1>c DEF SettledInv
  <2>1. gwSas'[m.sa].order = gwSas[m.sa].order
    BY ResponsePlace
  <2> QED
    BY <2>1 DEF KidInv, SettledInv
<1>8. UnsettledInv'
  BY <1>c, <1>z DEF KidInv, UnsettledInv, Handled
<1>9. EmptyInv'
  BY <1>1, <1>2, <1>c, Bounds DEF KidInv, EmptyInv
<1> QED
  BY <1>5, <1>6, <1>7, <1>8, <1>9 DEF KidInv

\* The gateway answers IKE_SA_INIT.
LEMMA InitKids ==
  ASSUME TunnelInv, OutInv, KidInv, Live, UNCHANGED vars, GwOnInit
  PROVE  KidInv'
<1>c. /\ UNCHANGED <<sa, next, sas, peerMessageId, children, host, kid, task, wait, sent, spi>>
      /\ UNCHANGED Ours
  BY ClientSame DEF Ours
<1>t. GwType
  BY DEF TunnelInv, GwInv
<1>1. PICK m \in sent : \E b :
        /\ m.body.what = "init" /\ gwSas[1].state = "none" /\ Reply(m, b)
        /\ b.what \in {"redirected", "refused", "accepted"}
        /\ UNCHANGED gwSas \/ gwSas' = [gwSas EXCEPT ![1].state = "half", ![1].expect = 1]
  BY InitSteps
<1>2. PICK b :
        /\ Reply(m, b) /\ b.what \in {"redirected", "refused", "accepted"}
        /\ UNCHANGED gwSas \/ gwSas' = [gwSas EXCEPT ![1].state = "half", ![1].expect = 1]
  BY <1>1
<1> DEFINE n == Message(m.sa, m.id, TRUE, b)
<1>3. gwSent' = gwSent \cup {n} /\ n.body = b
  BY <1>2 DEF Reply, Message
<1> HIDE DEF n
<1>4. UNCHANGED <<gwKids, gwSpi>>
  BY InitSteps
<1>5. /\ \A s \in Sas : gwSas'[s].id = gwSas[s].id /\ gwSas'[s].order = gwSas[s].order
      /\ \A s \in Sas : s # 1 => gwSas'[s] = gwSas[s]
  BY <1>t, <1>2, <1>3, HalfIs
<1>6. sa # NoSa => gwSas'[sa].expect = gwSas[sa].expect
  <2>1. ASSUME sa # NoSa PROVE sa \in Sas /\ sa # 1
    BY <1>1, <2>1, Sizes DEF TunnelInv, GwInv, CountInv
  <2> QED
    BY <1>5, <2>1
<1>7. task = "delete" => sa # NoSa
  BY DEF TunnelInv, CliInv, KeyedInv, IInv, ControlInv, Committed
<1>8. GwHas'
  <2> SUFFICES ASSUME NEW c \in gwKids, c \notin Ours PROVE Coming(c)'
    BY <1>4, <1>c DEF GwHas
  <2>1. Coming(c)
    BY DEF KidInv, GwHas
  <2> QED
    BY <1>3, <1>6, <1>7, <1>c, <2>1 DEF Coming, NewIn, Answer
<1>9. CreatedInv'
  BY <1>2, <1>3, <1>4, <1>c DEF KidInv, CreatedInv, NewIn, Answer
<1>10. FoundInv'
  BY <1>2, <1>3, <1>4, <1>c DEF KidInv, FoundInv, Answer
<1>11. gwSpi' \in Nat /\ gwSpi' >= gwSpi
  BY <1>4, OutsDrawn
<1> QED
  BY <1>4, <1>5, <1>8, <1>9, <1>10, <1>11, SameOrders

\* The gateway answers the request under way.
LEMMA AnsweredIs ==
  ASSUME TunnelInv, PaceInv, Live, UNCHANGED vars, NEW m \in sent, NEW b, NEW st, Answered(m, b, st)
  PROVE  /\ \A s \in Sas : gwSas'[s].id = gwSas[s].id /\ gwSas'[s].order = gwSas[s].order
         /\ m.body = wait.body /\ sa # NoSa /\ m.sa = sa /\ task \in Asking \ {"init"}
         /\ \A r \in gwSent : ~Answer(r)
         /\ gwSas[sa].expect = wait.id /\ gwSas'[sa].expect = wait.id + 1
         /\ \E n : gwSent' = gwSent \cup {n} /\ Answer(n)' /\ n.body = b
<1>1. /\ m.sa = sa /\ sa \in Sas /\ task \in Asking \ {"init"} /\ m.id = wait.id /\ m.body = wait.body
      /\ gwSas[sa].expect = wait.id /\ \A r \in gwSent : ~Answer(r)
  BY LiveExpected DEF Answered
<1>2. sa # NoSa
  BY <1>1, Bounds
<1>c. UNCHANGED <<sa, wait>>
  BY ClientSame
<1>3. gwSent \subseteq gwSent'
  BY DEF Answered, Reply
<1>4. /\ \A s \in Sas : gwSas'[s].id = gwSas[s].id /\ gwSas'[s].order = gwSas[s].order
      /\ gwSas'[m.sa].expect = gwSas[m.sa].expect + 1
  BY <1>1, <1>3, TakenIs DEF Answered, TunnelInv, GwInv
<1> DEFINE n == Message(m.sa, m.id, TRUE, b)
<1>5. gwSent' = gwSent \cup {n} /\ n.resp /\ n.sa = m.sa /\ n.id = m.id /\ n.body = b
  BY DEF Answered, Reply, Message
<1> HIDE DEF n
<1>6. Answer(n)'
  BY <1>1, <1>5, <1>c DEF Answer
<1> QED
  BY <1>1, <1>2, <1>4, <1>5, <1>6

\* What the request under way is for.
LEMMA WaitsFor ==
  ASSUME TunnelInv, task \in Asking \ {"init"}
  PROVE  /\ wait.body.what \in {"auth", "eap", "final"} => task = wait.body.what
         /\ wait.body.what = "child" =>
              /\ task = "child"
              /\ wait.body.in = kid.in /\ wait.body.old = kid.old /\ wait.body.nets = kid.nets
         /\ wait.body.what = "deleteChild" => task = "delete" /\ wait.body.in = kid.old
         /\ wait.body.what = "dpd" => task = "dpd"
         /\ wait.body.what # "deleteIke"
<1>2. task = "child" => wait.body.what = "child" /\ wait.body.in = kid.in /\ wait.body.old = kid.old /\ wait.body.nets = kid.nets
  BY DEF TunnelInv, CliInv, BodyInv, ChildRequest
<1>3. task = "delete" => wait.body.what = "deleteChild" /\ wait.body.in = kid.old
  BY DEF TunnelInv, CliInv, BodyInv
<1>4. task \in {"auth", "eap", "final", "dpd"} => wait.body.what = task
  BY DEF TunnelInv, CliInv, BodyInv, Body
<1> QED
  BY <1>2, <1>3, <1>4 DEF Asking

\* Without a response to the request under way, the gateway has nothing the
\* client has not, but for the CHILD SA it is asked to delete.
LEMMA NothingComing ==
  ASSUME KidInv, task # "delete", \A r \in gwSent : Answer(r) => r.body.what # "created"
  PROVE  gwKids \subseteq Ours
BY DEF KidInv, GwHas, Coming

\* The gateway answers IKE_AUTH.
LEMMA AuthKids ==
  ASSUME TunnelInv, OutInv, EapInv, KidInv, Live, PaceInv, UNCHANGED vars, GwOnAuth
  PROVE  KidInv'
<1>c. /\ UNCHANGED <<sa, next, sas, peerMessageId, children, host, kid, task, wait, sent, spi>>
      /\ UNCHANGED Ours
  BY ClientSame DEF Ours
<1>0. PICK m \in sent : \E b, st :
         /\ Answered(m, b, st) /\ m.body.what \in {"auth", "eap", "final"}
         /\ \/ b.what \in {"refused", "eapRequest", "eapSuccess", "authOnly"} /\ UNCHANGED <<gwKids, gwSpi>>
            \/ /\ Eap => m.body.what = "final"
               /\ b.what = "created" /\ b.out = gwSpi + 1 /\ gwSpi' = gwSpi + 1
               /\ gwKids' = {[in |-> 1, out |-> gwSpi + 1, nets |-> b.nets]}
  BY AuthSteps
<1>1. PICK b, st :
         /\ Answered(m, b, st) /\ m.body.what \in {"auth", "eap", "final"}
         /\ \/ b.what \in {"refused", "eapRequest", "eapSuccess", "authOnly"} /\ UNCHANGED <<gwKids, gwSpi>>
            \/ /\ Eap => m.body.what = "final"
               /\ b.what = "created" /\ b.out = gwSpi + 1 /\ gwSpi' = gwSpi + 1
               /\ gwKids' = {[in |-> 1, out |-> gwSpi + 1, nets |-> b.nets]}
  BY <1>0
<1>2. /\ \A s \in Sas : gwSas'[s].id = gwSas[s].id /\ gwSas'[s].order = gwSas[s].order
      /\ m.body = wait.body /\ task \in Asking \ {"init"}
      /\ \A r \in gwSent : ~Answer(r)
  BY <1>1, AnsweredIs
<1>3. PICK n : gwSent' = gwSent \cup {n} /\ Answer(n)' /\ n.body = b
  BY <1>1, AnsweredIs
<1>4. task \in {"auth", "eap", "final"} /\ task = m.body.what
  BY <1>1, <1>2, WaitsFor
<1>5. Ours = {} /\ spi = 1
  <2>1. children = <<>> /\ spi = 1 /\ children \in Seq(Kid)
    BY <1>4 DEF TunnelInv, CliInv, SpiInv, DrawInv, TypeInv, KidsType
  <2> QED
    BY <2>1, TriplesEmpty DEF Ours
<1>6. gwKids = {}
  BY <1>2, <1>4, <1>5, NothingComing
<1>7. \A r \in gwSent' : Answer(r)' => r = n
  BY <1>2, <1>3, <1>c DEF Answer
<1>g. gwSpi \in Nat
  BY OutsDrawn
<1>8. CASE b.what # "created" /\ UNCHANGED <<gwKids, gwSpi>>
  <2>1. GwHas' /\ CreatedInv' /\ FoundInv'
    BY <1>3, <1>4, <1>6, <1>7, <1>8, <1>c DEF GwHas, CreatedInv, FoundInv
  <2>2. gwSpi' \in Nat /\ gwSpi' >= gwSpi
    BY <1>8, <1>g
  <2> QED
    BY <1>2, <1>8, <2>1, <2>2, SameOrders
<1>9. CASE /\ Eap => m.body.what = "final"
           /\ b.what = "created" /\ b.out = gwSpi + 1 /\ gwSpi' = gwSpi + 1
           /\ gwKids' = {[in |-> 1, out |-> gwSpi + 1, nets |-> b.nets]}
  <2>1. task \in {"auth", "final"}
    BY <1>4, <1>9 DEF EapInv
  <2>2. NewIn' = 1
    BY <1>5, <1>c, <2>1 DEF NewIn
  <2>3. GwHas'
    <3> SUFFICES ASSUME NEW c \in gwKids' PROVE Coming(c)'
      BY DEF GwHas
    <3> QED
      BY <1>3, <1>9, <1>c, <2>1, <2>2 DEF Coming
  <2>4. CreatedInv'
    BY <1>3, <1>5, <1>7, <1>9, <1>c, <2>1, <2>2 DEF CreatedInv
  <2>5. FoundInv'
    BY <1>c, <2>1 DEF FoundInv
  <2>6. gwSpi' \in Nat /\ gwSpi' >= gwSpi
    BY <1>9, <1>g
  <2> QED
    BY <1>2, <1>5, <2>3, <2>4, <2>5, <2>6, SameOrders
<1> QED
  BY <1>1, <1>8, <1>9

\* The gateway answers CREATE_CHILD_SA.
LEMMA ChildKids ==
  ASSUME TunnelInv, OutInv, KidInv, Live, PaceInv, UNCHANGED vars, GwOnChild
  PROVE  KidInv'
<1>c. /\ UNCHANGED <<sa, next, sas, peerMessageId, children, host, kid, task, wait, sent, spi>>
      /\ UNCHANGED Ours
  BY ClientSame DEF Ours
<1>0. PICK m \in sent : \E b, st :
         /\ Answered(m, b, st) /\ m.body.what = "child"
         /\ \/ b.what \in {"refused", "redirected"} /\ UNCHANGED <<gwKids, gwSpi>>
            \/ b.what = "notFound" /\ UNCHANGED <<gwKids, gwSpi>> /\ \A c \in gwKids : c.in # m.body.old
            \/ /\ b.what = "created" /\ b.out = gwSpi + 1 /\ gwSpi' = gwSpi + 1
               /\ gwKids' = gwKids \cup {[in |-> m.body.in, out |-> gwSpi + 1, nets |-> b.nets]}
  BY ChildSteps
<1>1. PICK b, st :
         /\ Answered(m, b, st) /\ m.body.what = "child"
         /\ \/ b.what \in {"refused", "redirected"} /\ UNCHANGED <<gwKids, gwSpi>>
            \/ b.what = "notFound" /\ UNCHANGED <<gwKids, gwSpi>> /\ \A c \in gwKids : c.in # m.body.old
            \/ /\ b.what = "created" /\ b.out = gwSpi + 1 /\ gwSpi' = gwSpi + 1
               /\ gwKids' = gwKids \cup {[in |-> m.body.in, out |-> gwSpi + 1, nets |-> b.nets]}
  BY <1>0
<1>2. /\ \A s \in Sas : gwSas'[s].id = gwSas[s].id /\ gwSas'[s].order = gwSas[s].order
      /\ m.body = wait.body /\ task \in Asking \ {"init"}
      /\ \A r \in gwSent : ~Answer(r)
  BY <1>1, AnsweredIs
<1>3. PICK n : gwSent' = gwSent \cup {n} /\ Answer(n)' /\ n.body = b
  BY <1>1, AnsweredIs
<1>4. task = "child" /\ m.body.in = kid.in /\ m.body.old = kid.old /\ m.body.nets = kid.nets
  BY <1>1, <1>2, WaitsFor
<1>5. NewIn' = kid.in
  BY <1>4, <1>c DEF NewIn
<1>6. gwKids \subseteq Ours
  BY <1>2, <1>4, NothingComing
<1>7. \A r \in gwSent' : Answer(r)' => r = n
  BY <1>2, <1>3, <1>c DEF Answer
<1>g. gwSpi \in Nat
  BY OutsDrawn
<1>8. CASE b.what # "created" /\ UNCHANGED <<gwKids, gwSpi>> /\ (b.what = "notFound" => \A c \in gwKids : c.in # m.body.old)
  <2>1. GwHas' /\ CreatedInv' /\ FoundInv'
    BY <1>3, <1>4, <1>6, <1>7, <1>8, <1>c DEF GwHas, CreatedInv, FoundInv
  <2>2. gwSpi' \in Nat /\ gwSpi' >= gwSpi
    BY <1>8, <1>g
  <2> QED
    BY <1>2, <1>8, <2>1, <2>2, SameOrders
<1>9. CASE /\ b.what = "created" /\ b.out = gwSpi + 1 /\ gwSpi' = gwSpi + 1
           /\ gwKids' = gwKids \cup {[in |-> m.body.in, out |-> gwSpi + 1, nets |-> b.nets]}
  <2>0. PICK c : c = [in |-> m.body.in, out |-> gwSpi + 1, nets |-> b.nets]
    OBVIOUS
  <2>1. gwKids' = gwKids \cup {c} /\ c = [in |-> NewIn', out |-> n.body.out, nets |-> n.body.nets]
    BY <1>3, <1>4, <1>5, <1>9, <2>0
  <2>2. Coming(c)'
    BY <1>3, <1>4, <1>9, <1>c, <2>1 DEF Coming
  <2>3. GwHas'
    BY <1>6, <1>c, <2>1, <2>2 DEF GwHas
  <2>4. \A t \in Ours : t.out # n.body.out
    BY <1>3, <1>9, <1>g DEF KidInv, ListInv
  <2>5. CreatedInv'
    BY <1>7, <1>c, <2>1, <2>4 DEF CreatedInv
  <2>6. FoundInv'
    BY <1>3, <1>7, <1>9 DEF FoundInv
  <2>7. gwSpi' \in Nat /\ gwSpi' >= gwSpi
    BY <1>9, <1>g
  <2> QED
    BY <1>2, <2>1, <2>3, <2>5, <2>6, <2>7, SameOrders
<1> QED
  BY <1>1, <1>8, <1>9

\* The gateway answers INFORMATIONAL.
LEMMA InfoKids ==
  ASSUME TunnelInv, OutInv, KidInv, Live, PaceInv, UNCHANGED vars, GwOnInformational
  PROVE  KidInv'
<1>c. /\ UNCHANGED <<sa, next, sas, peerMessageId, children, host, kid, task, wait, sent, spi>>
      /\ UNCHANGED Ours
  BY ClientSame DEF Ours
<1>0. PICK m \in sent : \E b, st :
         /\ Answered(m, b, st) /\ m.body.what \in {"dpd", "deleteChild", "deleteIke"} /\ b.what = "done"
         /\ UNCHANGED gwSpi /\ gwKids' \subseteq gwKids
         /\ m.body.what = "dpd" => gwKids' = gwKids
         /\ m.body.what = "deleteChild" => gwKids' = {c \in gwKids : c.in # m.body.in}
  BY InfoSteps
<1>1. PICK b, st :
         /\ Answered(m, b, st) /\ m.body.what \in {"dpd", "deleteChild", "deleteIke"} /\ b.what = "done"
         /\ UNCHANGED gwSpi /\ gwKids' \subseteq gwKids
         /\ m.body.what = "dpd" => gwKids' = gwKids
         /\ m.body.what = "deleteChild" => gwKids' = {c \in gwKids : c.in # m.body.in}
  BY <1>0
<1>2. /\ \A s \in Sas : gwSas'[s].id = gwSas[s].id /\ gwSas'[s].order = gwSas[s].order
      /\ m.body = wait.body /\ task \in Asking \ {"init"}
      /\ \A r \in gwSent : ~Answer(r)
  BY <1>1, AnsweredIs
<1>3. /\ (m.body.what = "dpd" /\ task = "dpd") \/ (m.body.what = "deleteChild" /\ task = "delete" /\ m.body.in = kid.old)
      /\ task \in {"dpd", "delete"}
  BY <1>1, <1>2, WaitsFor
<1>4. CreatedInv' /\ FoundInv'
  BY <1>3, <1>c DEF CreatedInv, FoundInv
<1>5. GwHas'
  <2> SUFFICES ASSUME NEW c \in gwKids', c \notin Ours PROVE FALSE
    BY <1>c DEF GwHas
  <2>1. Coming(c)
    BY <1>1 DEF KidInv, GwHas
  <2>2. task = "delete" /\ c.in = kid.old
    BY <1>3, <2>1 DEF Coming
  <2> QED
    BY <1>1, <1>3, <2>2
<1>6. ASSUME NEW t \in Ours, t \in gwKids PROVE t \in gwKids'
  <2>1. CASE task = "dpd"
    BY <1>1, <1>3, <1>6, <2>1
  <2>2. CASE task = "delete"
    <3>1. NotIn(children, kid.old)
      BY <2>2 DEF TunnelInv, CliInv, SpiInv, DrawInv
    <3>2. t.in # kid.old
      BY <3>1 DEF NotIn, Ours, Triples, Triple
    <3> QED
      BY <1>1, <1>3, <1>6, <2>2, <3>2
  <2> QED
    BY <1>3, <2>1, <2>2
<1>7. gwSpi' \in Nat /\ gwSpi' >= gwSpi
  BY <1>1, OutsDrawn
<1> QED
  BY <1>2, <1>4, <1>5, <1>6, <1>7, SameOrders

\* The gateway sends a request.
LEMMA OrderedKids ==
  ASSUME TunnelInv, OutInv, KidInv, UNCHANGED vars, Orders
  PROVE  KidInv'
<1>c. /\ UNCHANGED <<sa, next, sas, peerMessageId, children, host, kid, task, wait, sent, spi>>
      /\ UNCHANGED Ours
  BY ClientSame DEF Ours
<1>0. PICK s \in Sas : \E b, st :
        /\ st \in {"up", "closing"} /\ Order(s, b, st)
        /\ \/ b.what \notin {"rekeyChild", "created"} /\ (b.what = "info" => b.outs = {}) /\ UNCHANGED <<gwKids, gwSpi>>
           \/ /\ b.what = "info" /\ UNCHANGED gwSpi
              /\ \E c \in gwKids : Installed(c) /\ b.outs = {c.out} /\ gwKids' = gwKids \ {c}
           \/ b.what = "rekeyChild" /\ b.out = gwSpi + 1 /\ gwSpi' = gwSpi + 1 /\ UNCHANGED gwKids
  BY OrderSteps
<1>1. PICK b, st :
        /\ st \in {"up", "closing"} /\ Order(s, b, st)
        /\ \/ b.what \notin {"rekeyChild", "created"} /\ (b.what = "info" => b.outs = {}) /\ UNCHANGED <<gwKids, gwSpi>>
           \/ /\ b.what = "info" /\ UNCHANGED gwSpi
              /\ \E c \in gwKids : Installed(c) /\ b.outs = {c.out} /\ gwKids' = gwKids \ {c}
           \/ b.what = "rekeyChild" /\ b.out = gwSpi + 1 /\ gwSpi' = gwSpi + 1 /\ UNCHANGED gwKids
  BY <1>0
<1>2. PICK n : n = Message(s, gwSas[s].id, FALSE, b)
  OBVIOUS
<1>3. /\ gwSas' \in [Sas -> [state : SaStates, expect : Nat, id : Nat, order : gwSent' \cup {NoMessage}]]
      /\ \A t \in Sas : t # s => gwSas'[t] = gwSas[t]
      /\ gwSas'[s].expect = gwSas[s].expect /\ gwSas'[s].state = st
      /\ gwSas'[s].id = gwSas[s].id + 1 /\ gwSas'[s].order = n
      /\ gwSent' = gwSent \cup {n}
      /\ n.sa = s /\ n.id = gwSas[s].id /\ ~n.resp /\ n.resp \in BOOLEAN /\ n.body = b /\ n # NoMessage
  <2>1. st \in SaStates /\ GwType
    BY <1>1 DEF SaStates, TunnelInv, GwInv
  <2> DEFINE k == Message(s, gwSas[s].id, FALSE, b)
  <2>2. /\ gwSas' \in [Sas -> [state : SaStates, expect : Nat, id : Nat, order : gwSent' \cup {NoMessage}]]
        /\ \A t \in Sas : t # s => gwSas'[t] = gwSas[t]
        /\ gwSas'[s].expect = gwSas[s].expect /\ gwSas'[s].state = st
        /\ gwSas'[s].id = gwSas[s].id + 1 /\ gwSas'[s].order = k
        /\ gwSent' = gwSent \cup {k}
        /\ k.sa = s /\ k.id = gwSas[s].id /\ ~k.resp /\ k.resp \in BOOLEAN /\ k.body = b /\ k # NoMessage
    BY <1>1, <2>1, OrderedIs
  <2>3. n = k
    BY <1>2
  <2> HIDE DEF k
  <2> QED
    BY <2>2, <2>3
<1>o. gwSas[s].state = "up" /\ gwSas[s].order = NoMessage
  BY <1>1 DEF Order
<1>z. /\ sa # NoSa => sa \in Sas
      /\ next # NoSa => next \in Sas /\ next # sa
      /\ sa \in Nat /\ next \in Nat /\ sas \in Nat /\ peerMessageId \in Nat /\ s \in Nat /\ gwSas[s].id \in Nat
      /\ gwSpi \in Nat
  BY Sizes, Bounds, SaFields, OutsDrawn DEF TunnelInv, GwInv
<1>p. s = sa => gwSas[s].id = peerMessageId
  BY <1>o, <1>z, Bounds DEF TunnelInv, GwInv, CountInv
<1>4. ~Unheard(s) /\ \A t \in Sas : t # s => (Unheard(t)' <=> Unheard(t))
  <2>1. ~Unheard(s)
    BY <1>o DEF Unheard
  <2> QED
    BY <1>3, <1>c, <2>1 DEF Unheard
<1>5. s \in {sa, next} => Unheard(s)'
  BY <1>3, <1>c, <1>p, <1>z, Bounds DEF Unheard
<1>6. \A t : Going(t) => Going(t)'
  <2> TAKE t
  <2>1. ASSUME NEW u \in Sas, Unheard(u), gwSas[u].order.body.what = "info", t.out \in gwSas[u].order.body.outs
        PROVE  Going(t)'
    <3>1. u # s /\ gwSas'[u] = gwSas[u] /\ Unheard(u)'
      BY <1>3, <1>4, <2>1
    <3> QED
      BY <2>1, <3>1 DEF Going
  <2>2. ASSUME sa # NoSa, gwSas[sa].order # NoMessage, Handled(sa), gwSas[sa].order.body.what = "rekeyChild",
               gwSas[sa].order.body.out = t.out,
               \E m \in sent : m.resp /\ m.sa = sa /\ m.id = gwSas[sa].order.id /\ m.body.what = "childCreated"
                 /\ m.body.in = t.in
        PROVE  Going(t)'
    <3>1. gwSas'[sa] = gwSas[sa]
      BY <1>3, <1>o, <1>z, <2>2
    <3> QED
      BY <1>c, <2>2, <3>1 DEF Going, Handled
  <2> QED
    BY <2>1, <2>2 DEF Going
<1>7. Stuck => Stuck'
  <2> SUFFICES ASSUME NEW u \in Sas, u < sa, gwSas[u].order # NoMessage,
                      \A m \in sent : ~(m.resp /\ m.sa = u /\ m.id = gwSas[u].order.id)
               PROVE  Stuck'
    BY DEF Stuck
  <2>1. gwSas'[u] = gwSas[u]
    BY <1>3, <1>o
  <2> QED
    BY <1>c, <2>1 DEF Stuck
<1>r. \A r \in gwSent' : Answer(r)' <=> Answer(r) /\ r \in gwSent
  BY <1>3, <1>c DEF Answer
<1>e. sa # NoSa => gwSas'[sa].expect = gwSas[sa].expect
  BY <1>3, <1>z
<1>8. \A c : Coming(c) => Coming(c)'
  <2> TAKE c
  <2>0. task = "delete" => sa # NoSa
    BY DEF TunnelInv, CliInv, KeyedInv, IInv, ControlInv, Committed
  <2>1. NewIn' = NewIn /\ gwSent \subseteq gwSent'
    BY <1>3, <1>c DEF NewIn
  <2> QED
    BY <1>c, <1>r, <1>e, <2>0, <2>1 DEF Coming
<1>k. gwKids' \subseteq gwKids /\ gwSpi' \in Nat /\ gwSpi' >= gwSpi
  BY <1>1, <1>z
<1>9. ListInv'
  <2>1. ASSUME NEW u \in Sas, Unheard(u)', gwSas'[u].order.body.what = "rekeyChild", NEW t \in Ours
        PROVE  t.out # gwSas'[u].order.body.out
    <3>1. CASE u = s
      <4>1. gwSas'[u].order.body.out = gwSpi + 1
        BY <1>1, <1>3, <2>1, <3>1
      <4>2. t.out \in 1 .. gwSpi
        BY DEF KidInv, ListInv
      <4> QED
        BY <1>z, <4>1, <4>2
    <3>2. CASE u # s
      BY <1>3, <1>4, <2>1, <3>2 DEF KidInv, ListInv
    <3> QED
      BY <3>1, <3>2
  <2>2. \A t \in Ours : t.out \in 1 .. gwSpi'
    BY <1>k, <1>z DEF KidInv, ListInv
  <2> QED
    BY <1>c, <2>1, <2>2 DEF KidInv, ListInv
<1>10. GwHas'
  BY <1>8, <1>c, <1>k DEF KidInv, GwHas
<1>11. CliHas'
  <2> SUFFICES ASSUME ~Stuck', NEW t \in Ours, t \in gwKids, t \notin gwKids' PROVE Going(t)'
    BY <1>6, <1>7, <1>c DEF KidInv, CliHas
  <2>1. b.what = "info" /\ b.outs = {t.out}
    BY <1>1
  <2>2. CASE s \in {sa, next}
    BY <1>3, <1>5, <2>1, <2>2 DEF Going
  <2>3. CASE s < sa
    <3>1. ASSUME NEW m \in sent, m.resp, m.sa = s PROVE m.id # n.id
      <4>1. m.id \in Nat /\ m.id < gwSas[s].id
        BY <3>1, ResponsePlace
      <4> QED
        BY <1>3, <1>z, <4>1
    <3>2. Stuck'
      BY <1>3, <1>c, <2>3, <3>1 DEF Stuck
    <3> QED
      BY <3>2
  <2>4. CASE s \notin {sa, next} /\ ~(s < sa)
    <3>1. s > sas /\ (s > 1 \/ sa = NoSa)
      BY <1>z, <2>4, Bounds DEF TunnelInv, GwInv, NumberInv, NoSa
    <3>2. gwSas[s].state \in {"none", "half"}
      BY <3>1, <1>z, Bounds DEF TunnelInv, GwInv, CurrentInv, NoSa
    <3> QED
      BY <1>o, <3>2
  <2> QED
    BY <2>2, <2>3, <2>4
<1>12. CreatedInv'
  <2> SUFFICES ASSUME task \in {"child", "auth", "final"}, NEW r \in gwSent, Answer(r), r.body.what = "created"
               PROVE  [in |-> NewIn, out |-> r.body.out, nets |-> r.body.nets] \in gwKids'
    BY <1>c, <1>r DEF KidInv, CreatedInv, NewIn
  <2> DEFINE c == [in |-> NewIn, out |-> r.body.out, nets |-> r.body.nets]
  <2>1. c \in gwKids /\ c.in = NewIn
    BY DEF KidInv, CreatedInv
  <2> HIDE DEF c
  <2>2. ~Installed(c)
    <3>1. ASSUME NEW m \in sent, m.body.what = "deleteChild" PROVE ~m.resp
      BY <3>1 DEF TunnelInv, CliInv, KindInv
    <3>2. CASE task = "child"
      <4>1. NewIn = kid.in
        BY <3>2 DEF NewIn
      <4> QED
        BY <2>1, <3>1, <3>2, <4>1 DEF Installed, TunnelInv, CliInv, SpiInv, DrawInv, NewInv, NotIn
    <3>3. CASE task \in {"auth", "final"}
      <4>1. children = <<>> /\ DOMAIN <<>> = {}
        BY <3>3 DEF TunnelInv, CliInv, SpiInv, DrawInv
      <4> QED
        BY <3>1, <3>3, <4>1 DEF Installed, TunnelInv, CliInv, SpiInv, NewInv
    <3> QED
      BY <3>2, <3>3
  <2>3. c \in gwKids'
    BY <1>1, <2>1, <2>2
  <2> QED
    BY <2>3 DEF c
<1>13. FoundInv'
  BY <1>c, <1>k, <1>r DEF KidInv, FoundInv
<1>14. SettledInv'
  <2> SUFFICES ASSUME task = "child", NEW m \in sent, m.resp, m.body.what = "childCreated", m.body.in = kid.old
               PROVE  gwSas'[m.sa].order = NoMessage \/ gwSas'[m.sa].order.id # m.id
    BY <1>c DEF SettledInv
  <2>1. m.sa \in Sas /\ m.id \in Nat /\ m.id < gwSas[m.sa].id
    BY ResponsePlace
  <2>2. CASE m.sa = s
    BY <1>3, <1>z, <2>1, <2>2
  <2>3. CASE m.sa # s
    BY <1>3, <2>1, <2>3 DEF KidInv, SettledInv
  <2> QED
    BY <2>2, <2>3
<1>15. UnsettledInv'
  <2>1. CASE sa = s
    <3>1. ~Handled(sa)'
      BY <1>3, <1>c, <1>p, <1>z, <2>1 DEF Handled
    <3> QED
      BY <1>c, <3>1 DEF UnsettledInv
  <2>2. CASE sa # s
    <3>1. sa # NoSa => gwSas'[sa] = gwSas[sa]
      BY <1>3, <1>z, <2>2
    <3> QED
      BY <1>c, <3>1 DEF KidInv, UnsettledInv, Handled
  <2> QED
    BY <2>1, <2>2
<1>16. EmptyInv'
  <2> SUFFICES ASSUME host, sas = 1, Ours = {}
               PROVE  Unheard(1)' /\ gwSas'[1].order.body.what = "info" /\ gwSas'[1].order.body.outs # {}
    BY <1>c DEF EmptyInv
  <2>1. Unheard(1) /\ gwSas[1].order.body.what = "info" /\ gwSas[1].order.body.outs # {}
    BY DEF KidInv, EmptyInv
  <2>2. s # 1
    BY <1>4, <2>1
  <2> QED
    BY <1>3, <1>4, <2>1, <2>2, Bounds
<1> QED
  BY <1>9, <1>10, <1>11, <1>12, <1>13, <1>14, <1>15, <1>16 DEF KidInv

\* The gateway takes a response.
LEMMA ResponseKids ==
  ASSUME TunnelInv, OutInv, KidInv, StateInv, UNCHANGED vars, GwOnResponse
  PROVE  KidInv'
<1>c. /\ UNCHANGED <<sa, next, sas, peerMessageId, children, host, kid, task, wait, sent, spi>>
      /\ UNCHANGED Ours
  BY ClientSame DEF Ours
<1>1. PICK m \in sent :
        /\ ResponseStep(m)
        /\ \/ m.body.what # "childCreated" /\ UNCHANGED gwKids
           \/ /\ m.body.what # "childCreated" /\ gwKids' = {} /\ m.sa = gwCurrent
              /\ gwSas[m.sa].order.body.what = "info" /\ gwSas[m.sa].order.body.ike
           \/ /\ m.body.what = "childCreated" /\ gwSas[m.sa].order.body.what = "rekeyChild"
              /\ gwKids' = gwKids \cup {[in |-> m.body.in, out |-> gwSas[m.sa].order.body.out,
                                         nets |-> gwSas[m.sa].order.body.nets]}
  BY ResponseSteps
<1>2. /\ \A t \in Sas : gwSas'[t].expect = gwSas[t].expect /\ gwSas'[t].id = gwSas[t].id
      /\ \A t \in Sas : t # m.sa => gwSas'[t].order = gwSas[t].order
      /\ gwSas'[m.sa].order = NoMessage
  BY <1>1, ResponseIs DEF ResponseStep, TunnelInv
<1>3. /\ m.sa \in Sas /\ m.resp /\ gwSas[m.sa].order # NoMessage /\ m.id = gwSas[m.sa].order.id
      /\ UNCHANGED <<gwSpi, gwSent>>
  BY <1>1 DEF ResponseStep
<1>f. /\ m.sa <= sa /\ sa \in Sas
      /\ m.sa # sa => m.body.what = "deleted"
      /\ m.sa = sa => Handled(sa)
  BY <1>3, ResponseFacts DEF TunnelInv
<1>z. /\ sa # NoSa /\ (next # NoSa => next \in Sas /\ sa < next)
      /\ sa \in Nat /\ next \in Nat /\ peerMessageId \in Nat /\ m.sa \in Nat /\ m.sa # NoSa
  BY <1>3, <1>f, Sizes, Bounds
<1>4. \A s \in Sas : (Unheard(s)' <=> Unheard(s)) /\ (Unheard(s) => s # m.sa)
  <2> TAKE s \in Sas
  <2>1. ~Unheard(m.sa)
    BY <1>f, <1>z DEF Unheard, Handled
  <2>2. ~Unheard(m.sa)'
    BY <1>2, <1>c DEF Unheard
  <2>3. s # m.sa => (Unheard(s)' <=> Unheard(s))
    BY <1>2, <1>c DEF Unheard
  <2> QED
    BY <2>1, <2>2, <2>3
<1>k. \/ m.body.what # "childCreated" /\ UNCHANGED gwKids
      \/ /\ m.body.what = "childCreated" /\ gwSas[m.sa].order.body.what = "rekeyChild" /\ m.sa = sa
         /\ gwKids' = gwKids \cup {[in |-> m.body.in, out |-> gwSas[sa].order.body.out,
                                    nets |-> gwSas[sa].order.body.nets]}
  <2>1. CASE m.sa = gwCurrent /\ gwSas[m.sa].order.body.what = "info" /\ gwSas[m.sa].order.body.ike
    <3>1. m.sa = sa
      BY <1>f, <1>z, <2>1 DEF TunnelInv, GwInv, CurrentInv
    <3>2. ~gwSas[sa].order.body.ike
      BY <1>3, <1>f, <1>z, <2>1, <3>1 DEF StateInv
    <3> QED
      BY <2>1, <3>1, <3>2
  <2> QED
    BY <1>1, <1>f, <2>1
<1>n. m.body.what = "childCreated" =>
        [in |-> m.body.in, out |-> gwSas[sa].order.body.out, nets |-> gwSas[sa].order.body.nets] \in Ours
  BY <1>3, <1>f, <1>k, <1>z DEF KidInv, UnsettledInv
<1>5. ASSUME NEW t \in Ours, Going(t) PROVE Going(t)' \/ t \in gwKids'
  <2>1. ASSUME NEW s \in Sas, Unheard(s), gwSas[s].order.body.what = "info", t.out \in gwSas[s].order.body.outs
        PROVE  Going(t)'
    BY <1>2, <1>4, <2>1 DEF Going
  <2>2. ASSUME sa # NoSa, gwSas[sa].order # NoMessage, Handled(sa), gwSas[sa].order.body.what = "rekeyChild",
               gwSas[sa].order.body.out = t.out,
               NEW q \in sent, q.resp, q.sa = sa, q.id = gwSas[sa].order.id, q.body.what = "childCreated", q.body.in = t.in
        PROVE  Going(t)' \/ t \in gwKids'
    <3>1. CASE m.sa # sa
      <4>1. gwSas'[sa].order = gwSas[sa].order /\ gwSas'[sa].id = gwSas[sa].id
        BY <1>2, <1>f, <3>1
      <4> QED
        BY <1>c, <2>2, <4>1 DEF Going, Handled
    <3>2. CASE m.sa = sa
      <4>0. q.resp = m.resp
        BY <1>3, <2>2 DEF TunnelInv, IInv, KeyInv, SentBefore
      <4>a. q.sa = m.sa /\ q.id = m.id /\ m.sa # NoSa
        BY <1>3, <1>z, <2>2, <3>2
      <4>1. q = m
        BY <4>0, <4>a DEF TunnelInv, IInv, KeyInv, NonceUnique, Encrypted, Nonce
      <4>2. PICK c : c = [in |-> m.body.in, out |-> gwSas[sa].order.body.out, nets |-> gwSas[sa].order.body.nets]
        OBVIOUS
      <4>3. c \in Ours /\ c.out = t.out /\ c \in gwKids'
        BY <1>k, <1>n, <2>2, <4>1, <4>2
      <4>4. c = t
        BY <4>3 DEF KidInv, ListInv
      <4> QED
        BY <4>3, <4>4
    <3> QED
      BY <3>1, <3>2
  <2> QED
    BY <1>5, <2>1, <2>2 DEF Going
<1>6. Stuck => Stuck'
  <2> SUFFICES ASSUME NEW u \in Sas, u < sa, gwSas[u].order # NoMessage,
                      \A q \in sent : ~(q.resp /\ q.sa = u /\ q.id = gwSas[u].order.id)
               PROVE  Stuck'
    BY DEF Stuck
  <2>1. u # m.sa
    BY <1>3
  <2>2. gwSas'[u].order = gwSas[u].order
    BY <1>2, <2>1
  <2> QED
    BY <1>c, <2>2 DEF Stuck
<1>7. ListInv'
  BY <1>2, <1>3, <1>4, <1>c DEF KidInv, ListInv
<1>8. GwHas'
  <2> SUFFICES ASSUME NEW c \in gwKids, c \notin Ours PROVE Coming(c)'
    BY <1>c, <1>k, <1>n DEF GwHas
  <2>1. Coming(c)
    BY DEF KidInv, GwHas
  <2>2. gwSas'[sa].expect = gwSas[sa].expect
    BY <1>2, <1>f
  <2> QED
    BY <1>3, <1>c, <2>1, <2>2 DEF Coming, NewIn, Answer
<1>9. CliHas'
  BY <1>5, <1>6, <1>c, <1>k DEF KidInv, CliHas
<1>10. CreatedInv'
  <2>1. gwKids \subseteq gwKids'
    BY <1>k
  <2> QED
    BY <1>3, <1>c, <2>1 DEF KidInv, CreatedInv, NewIn, Answer
<1>11. FoundInv'
  <2> SUFFICES ASSUME task = "child", NEW r \in gwSent, Answer(r), r.body.what = "notFound", NEW c \in gwKids'
               PROVE  c.in # kid.old
    BY <1>3, <1>c DEF FoundInv, Answer
  <2>1. CASE c \in gwKids
    BY <2>1 DEF KidInv, FoundInv
  <2>2. CASE c \notin gwKids
    <3>1. m.body.what = "childCreated" /\ c.in = m.body.in
      BY <1>k, <2>2
    <3>2. m.body.in # kid.old
      BY <1>3, <3>1 DEF KidInv, SettledInv
    <3> QED
      BY <3>1, <3>2
  <2> QED
    BY <2>1, <2>2
<1>12. SettledInv'
  <2> SUFFICES ASSUME task = "child", NEW q \in sent, q.resp, q.body.what = "childCreated", q.body.in = kid.old
               PROVE  gwSas'[q.sa].order = NoMessage \/ gwSas'[q.sa].order.id # q.id
    BY <1>c DEF SettledInv
  <2>1. q.sa \in Sas
    BY ResponsePlace
  <2> QED
    BY <1>2, <2>1 DEF KidInv, SettledInv
<1>13. UnsettledInv'
  <2>1. CASE m.sa = sa
    BY <1>2, <1>c, <2>1 DEF UnsettledInv
  <2>2. CASE m.sa # sa
    <3>1. gwSas'[sa].order = gwSas[sa].order /\ gwSas'[sa].id = gwSas[sa].id
      BY <1>2, <1>f, <2>2
    <3> QED
      BY <1>c, <3>1 DEF KidInv, UnsettledInv, Handled
  <2> QED
    BY <2>1, <2>2
<1>14. EmptyInv'
  BY <1>2, <1>4, <1>c, Bounds DEF KidInv, EmptyInv
<1> QED
  BY <1>7, <1>8, <1>9, <1>10, <1>11, <1>12, <1>13, <1>14 DEF KidInv

\* A step of the gateway.
LEMMA GatewayChildren ==
  ASSUME TunnelInv, LiveInv, OutInv, EapInv, Live => KidInv, Gateway
  PROVE  Live' => KidInv'
<1>v. UNCHANGED vars
  BY DEF Gateway
<1>c. UNCHANGED <<sa, task, wait>>
  BY <1>v, ClientSame
<1> SUFFICES ASSUME Live' PROVE KidInv'
  OBVIOUS
<1>0. gwAlive' /\ ~GwCrash
  BY DEF Live, GwCrash
<1>1. gwAlive
  BY <1>0 DEF Gateway, GwOnInit, GwOnAuth, GwOnChild, GwOnInformational, GwProbe, GwAdditional, GwDeleteChild,
     GwRekeyChild, GwRekeyIke, GwDeleteIke, GwOnResponse, Order, Expected
<1>2. Live /\ PaceInv /\ StateInv /\ KidInv
  BY <1>1, <1>c DEF Live, LiveInv
<1> QED
  BY <1>0, <1>2, <1>v, InitKids, AuthKids, ChildKids, InfoKids, OrderedKids, ResponseKids DEF Gateway, Orders

-----------------------------------------------------------------------------
(* The CHILD SAs of the two sides: the client's steps.                     *)

\* A step that answers no request of the gateway.
NoResponse ==
  /\ UNCHANGED gwVars /\ UNCHANGED <<sa, next, sas, peerMessageId>>
  /\ sent' = sent \/ \E n : sent' = sent \cup {n} /\ ~n.resp

\* Such a step leaves alone what concerns the gateway's requests.
LEMMA NoResponseSame ==
  ASSUME NoResponse
  PROVE  /\ \A s : Unheard(s)' <=> Unheard(s)
         /\ \A t : Going(t)' <=> Going(t)
         /\ Stuck' <=> Stuck
         /\ \A m : m.resp => (m \in sent' <=> m \in sent)
         /\ UNCHANGED <<gwSas, gwKids, gwSpi, gwAlive, gwSent>>
<1>1. UNCHANGED <<gwSas, gwKids, gwSpi, gwAlive, gwSent>> /\ UNCHANGED <<sa, next, sas, peerMessageId>>
  BY GatewaySame DEF NoResponse
<1>2. \A m : m.resp => (m \in sent' <=> m \in sent)
  BY DEF NoResponse
<1>3. \A s : Unheard(s)' <=> Unheard(s)
  BY <1>1 DEF Unheard
<1>4. \A t : Going(t)' <=> Going(t)
  <2> TAKE t
  <2>1. (\E s \in Sas : Unheard(s) /\ gwSas[s].order.body.what = "info" /\ t.out \in gwSas[s].order.body.outs)' <=>
        \E s \in Sas : Unheard(s) /\ gwSas[s].order.body.what = "info" /\ t.out \in gwSas[s].order.body.outs
    BY <1>1, <1>3
  <2>2. (\E m \in sent : m.resp /\ m.sa = sa /\ m.id = gwSas[sa].order.id /\ m.body.what = "childCreated"
                           /\ m.body.in = t.in)' <=>
        \E m \in sent : m.resp /\ m.sa = sa /\ m.id = gwSas[sa].order.id /\ m.body.what = "childCreated"
                           /\ m.body.in = t.in
    BY <1>1, <1>2
  <2> QED
    BY <1>1, <2>1, <2>2 DEF Going, Handled
<1>5. Stuck' <=> Stuck
  <2>1. \A s \in Sas : (\A m \in sent : ~(m.resp /\ m.sa = s /\ m.id = gwSas[s].order.id))' <=>
                       \A m \in sent : ~(m.resp /\ m.sa = s /\ m.id = gwSas[s].order.id)
    BY <1>1, <1>2
  <2> QED
    BY <1>1, <2>1 DEF Stuck
<1> QED
  BY <1>1, <1>2, <1>3, <1>4, <1>5

\* A request that was just sent has no response yet.
LEMMA NotAnswered ==
  ASSUME TunnelInv, UNCHANGED gwSent, UNCHANGED sa, sa # NoSa, NEW t, NEW b, Request(sa, messageId, t, b)
  PROVE  \A r \in gwSent' : ~Answer(r)'
<1>1. wait'.id = messageId
  BY RequestIs
<1> SUFFICES ASSUME NEW r \in gwSent, r.resp, r.sa = sa, r.id = messageId PROVE FALSE
  BY <1>1 DEF Answer
<1> QED
  BY NoReplyYet, Sizes

\* Neither side has a CHILD SA.
LEMMA FreshKids ==
  ASSUME UNCHANGED gwVars, gwKids = {}, children' = <<>>, ~host', task' # "child",
         \A r \in gwSent' : Answer(r)' => r.body.what # "created", UnsettledInv'
  PROVE  KidInv'
<1>1. UNCHANGED gwKids
  BY GatewaySame
<1>2. Ours' = {}
  <2>1. DOMAIN <<>> = {}
    OBVIOUS
  <2> QED
    BY <2>1 DEF Ours, Triples
<1>3. ListInv' /\ EmptyInv'
  BY <1>2 DEF ListInv, EmptyInv
<1>4. GwHas' /\ CliHas'
  BY <1>1, <1>2 DEF GwHas, CliHas
<1>5. CreatedInv' /\ FoundInv' /\ SettledInv'
  BY DEF CreatedInv, FoundInv, SettledInv
<1> QED
  BY <1>3, <1>4, <1>5 DEF KidInv

\* The client goes on with a list that may have one CHILD SA more, which the
\* gateway has, and may lack the one it has asked to rekey.
LEMMA OnwardKids ==
  ASSUME TunnelInv, OutInv, KidInv, NoResponse, NEW c,
         Ours' \subseteq Ours \cup {c}, c \in Ours' /\ c \notin Ours => c \in gwKids /\ \A t \in Ours : t.out # c.out,
         \A t \in Ours : t \in Ours' \/ (task = "child" /\ t.in = kid.old),
         \A k \in gwKids : k \in Ours' \/ (task' = "delete" /\ gwSas[sa].expect = wait'.id /\ k.in = kid'.old),
         task' \in {"child", "delete", "dpd", "watch"}, task' = "child" => \A r \in gwSent' : ~Answer(r)',
         SettledInv', host' /\ sas = 1 /\ Ours' = {} => EmptyInv'
  PROVE  KidInv'
<1>1. /\ \A s : Unheard(s)' <=> Unheard(s)
      /\ \A t : Going(t)' <=> Going(t)
      /\ Stuck' <=> Stuck
      /\ \A m : m.resp => (m \in sent' <=> m \in sent)
      /\ UNCHANGED <<gwSas, gwKids, gwSpi, gwAlive, gwSent>>
  BY NoResponseSame
<1>2. UNCHANGED <<sa, next, sas, peerMessageId>>
  BY DEF NoResponse
<1>3. ListInv'
  <2>1. \A t \in Ours' : t.out \in 1 .. gwSpi
    BY DEF KidInv, ListInv, TunnelInv, KidType
  <2>2. \A t, u \in Ours' : t.out = u.out => t = u
    BY DEF KidInv, ListInv
  <2>3. ASSUME NEW s \in Sas, Unheard(s), gwSas[s].order.body.what = "rekeyChild", NEW t \in Ours'
        PROVE  t.out # gwSas[s].order.body.out
    <3>1. gwSas[s].order # NoMessage
      BY <2>3 DEF Unheard
    <3> QED
      BY <2>3, <3>1 DEF KidInv, ListInv, OutInv
  <2> QED
    BY <1>1, <2>1, <2>2, <2>3 DEF ListInv
<1>4. GwHas'
  BY <1>1, <1>2 DEF GwHas, Coming
<1>5. CliHas'
  BY <1>1 DEF KidInv, CliHas
<1>6. CreatedInv' /\ FoundInv'
  BY DEF CreatedInv, FoundInv
<1>7. UnsettledInv'
  <2> SUFFICES ASSUME sa # NoSa, gwSas[sa].order # NoMessage, Handled(sa), gwSas[sa].order.body.what = "rekeyChild",
                      NEW m \in sent, m.resp, m.sa = sa, m.id = gwSas[sa].order.id, m.body.what = "childCreated"
               PROVE  [in |-> m.body.in, out |-> gwSas[sa].order.body.out, nets |-> gwSas[sa].order.body.nets] \in Ours'
    BY <1>1, <1>2 DEF UnsettledInv, Handled
  <2> DEFINE t == [in |-> m.body.in, out |-> gwSas[sa].order.body.out, nets |-> gwSas[sa].order.body.nets]
  <2>1. t \in Ours /\ t.in = m.body.in
    BY DEF KidInv, UnsettledInv
  <2> HIDE DEF t
  <2>2. task = "child" => m.body.in # kid.old
    BY DEF KidInv, SettledInv
  <2>3. t \in Ours'
    BY <2>1, <2>2
  <2> QED
    BY <2>3 DEF t
<1>8. EmptyInv'
  BY <1>2 DEF EmptyInv
<1> QED
  BY <1>3, <1>4, <1>5, <1>6, <1>7, <1>8 DEF KidInv

\* The next CHILD SA of the setup, once the list has one more.
LEMMA NextChildKids ==
  ASSUME TunnelInv, OutInv, KidInv, UNCHANGED gwVars, UNCHANGED saVars, sa # NoSa, NEW kids, NextChild(kids), Live',
         NEW c, Triples(kids) = {c} \cup Ours, c \in gwKids, \A t \in Ours : t.out # c.out, gwKids \subseteq {c} \cup Ours
  PROVE  KidInv'
<1>s. UNCHANGED <<sa, next, sas, peerMessageId>>
  BY DEF saVars
<1>g. UNCHANGED <<gwSas, gwKids, gwSent>>
  BY GatewaySame
<1>1. ~Fail("Established", kids)
  BY TeardownDead DEF Fail
<1>2. children' = kids
  BY <1>1 DEF NextChild, BringUp
<1>3. Ours' = {c} \cup Ours
  BY <1>2 DEF Ours
<1>4. Ours' # {}
  BY <1>3
<1>5. CASE task' = "watch"
  <2>1. UNCHANGED sent
    BY <1>1, <1>5 DEF NextChild, BringUp, CreateChild, Request
  <2>2. NoResponse
    BY <1>s, <2>1 DEF NoResponse
  <2>3. SettledInv'
    BY <1>5 DEF SettledInv
  <2> QED
    BY <1>3, <1>4, <1>5, <2>2, <2>3, OnwardKids
<1>6. CASE task' # "watch"
  <2>1. PICK net : CreateChild(NoSpi, {net})
    BY <1>1, <1>6 DEF NextChild, BringUp, Watch
  <2>2. PICK b : Request(sa, messageId, "child", b)
    BY <2>1 DEF CreateChild
  <2> DEFINE n == Message(sa, messageId, FALSE, b)
  <2>3. sent' = sent \cup {n} /\ ~n.resp /\ task' = "child"
    BY <2>2 DEF Request, Message
  <2> HIDE DEF n
  <2>4. NoResponse
    BY <1>s, <2>3 DEF NoResponse
  <2>5. kid'.old = NoSpi
    BY <2>1 DEF CreateChild
  <2>6. SettledInv'
    <3>1. ASSUME NEW m \in sent', m.resp, m.body.what = "childCreated" PROVE m.body.in # NoSpi
      <4>1. m \in sent
        BY <2>3, <3>1
      <4>2. m.body.in \in 1 .. spi
        BY <3>1, <4>1 DEF TunnelInv, CliInv, SpiInv, NewInv
      <4> QED
        BY <4>2 DEF NoSpi
    <3> QED
      BY <2>5, <3>1 DEF SettledInv
  <2>7. \A r \in gwSent' : ~Answer(r)'
    BY <1>g, <1>s, <2>2, NotAnswered
  <2> QED
    BY <1>3, <1>4, <2>3, <2>4, <2>6, <2>7, OnwardKids
<1> QED
  BY <1>5, <1>6

\* The end of IKE_SA_INIT and the rounds of IKE_AUTH.
LEMMA SetupReplyKids ==
  ASSUME TunnelInv, OutInv, KidInv, Live, UNCHANGED gwVars, NEW m \in gwSent, OnInitReply(m) \/ OnEapReply(m), Live'
  PROVE  KidInv'
<1>g. UNCHANGED <<gwSas, gwKids, gwSent>>
  BY GatewaySame
<1>f. ~Fail(stage, children)
  BY TeardownDead DEF Fail
<1>h. task \in {"init", "auth", "eap", "final"} => ~host /\ children = <<>>
  BY DEF TunnelInv, IInv, ControlInv, HostOnlyEstablished, SetUp, CliInv, KeyedInv, SpiInv, DrawInv
<1>1. CASE OnInitReply(m)
  <2>0. task = "init" /\ sa = NoSa
    BY <1>1 DEF OnInitReply, TunnelInv, IInv, ControlInv, SetUp
  <2>1. gwKids = {} /\ ~host /\ children = <<>>
    BY <1>h, <2>0 DEF OutInv
  <2>2. UNCHANGED <<children, host>>
    BY <1>1, <1>f DEF OnInitReply
  <2>3. CASE task' = "init"
    <3>1. sa' = NoSa
      BY <1>1, <1>f, <2>0, <2>3 DEF OnInitReply, Request, InitRequest
    <3>2. \A r \in gwSent' : Answer(r)' => r.body.what # "created"
      BY <1>g, <3>1 DEF Answer, TunnelInv, GwInv, ReplyInv
    <3>3. UnsettledInv'
      BY <3>1 DEF UnsettledInv
    <3> QED
      BY <2>1, <2>2, <2>3, <3>2, <3>3, FreshKids
  <2>4. CASE task' # "init"
    <3>1. PICK b : sa' = 1 /\ Request(1, messageId, "auth", b)
      BY <1>1, <1>f, <2>4 DEF OnInitReply, Request, InitRequest
    <3> DEFINE n == Message(1, messageId, FALSE, b)
    <3>2. sent' = sent \cup {n} /\ ~n.resp /\ task' = "auth"
      BY <3>1 DEF Request, Message
    <3> HIDE DEF n
    <3>3. ASSUME NEW r \in gwSent', r.resp, r.sa = sa' PROVE FALSE
      <4>1. r.sa # NoSa /\ r.sa <= sa
        BY <1>g, <3>1, <3>3, NoReplyYet DEF NoSa
      <4> QED
        BY <2>0, <3>1, <3>3, <4>1 DEF NoSa
    <3>4. UnsettledInv'
      <4>1. ASSUME NEW q \in sent', q.resp PROVE FALSE
        <5>1. q \in sent
          BY <3>2, <4>1
        <5> QED
          BY <2>0, <4>1, <5>1, ResponsePlace, Bounds
      <4> QED
        BY <4>1 DEF UnsettledInv
    <3> QED
      BY <2>1, <2>2, <3>2, <3>3, <3>4, FreshKids DEF Answer
  <2> QED
    BY <2>3, <2>4
<1>2. CASE OnEapReply(m)
  <2>0. task \in {"auth", "eap"} /\ Answer(m) /\ m.body.what # "created" /\ task \in Asking
    BY <1>2 DEF OnEapReply, Answers, Answer, Asking
  <2>1. sa # NoSa
    BY <2>0 DEF TunnelInv, CliInv, KeyedInv
  <2>2. gwKids = {}
    <3>1. \A r \in gwSent : Answer(r) => r.body.what # "created"
      BY <2>0, <2>1, OneAnswer
    <3>2. Ours = {}
      BY <1>h, <2>0, TriplesEmpty DEF Ours, TunnelInv, TypeInv, KidsType
    <3> QED
      BY <2>0, <3>1, <3>2, NothingComing
  <2>3. PICK t \in {"eap", "final"} : Request(sa, messageId, t, Body(t)) /\ UNCHANGED <<children, host, sa, peerMessageId>>
    BY <1>2, <1>f DEF OnEapReply, saVars
  <2>4. PICK b : Request(sa, messageId, t, b)
    BY <2>3
  <2>5. \A r \in gwSent' : ~Answer(r)'
    BY <1>g, <2>1, <2>3, <2>4, NotAnswered
  <2> DEFINE n == Message(sa, messageId, FALSE, b)
  <2>6. sent' = sent \cup {n} /\ ~n.resp /\ task' = t
    BY <2>4 DEF Request, Message
  <2> HIDE DEF n
  <2>7. UnsettledInv'
    <3>1. UNCHANGED Ours
      BY <2>3 DEF Ours
    <3>2. \A q : q.resp => (q \in sent' <=> q \in sent)
      BY <2>6
    <3> QED
      BY <1>g, <2>3, <3>1, <3>2 DEF KidInv, UnsettledInv, Handled
  <2> QED
    BY <1>h, <2>0, <2>2, <2>3, <2>5, <2>6, <2>7, FreshKids
<1> QED
  BY <1>1, <1>2

\* What a response that creates a CHILD SA stands for.
LEMMA CreatedIs ==
  ASSUME TunnelInv, OutInv, KidInv, NEW m \in gwSent, Answer(m), m.body.what = "created",
         task \in {"child", "auth", "final"}, sa # NoSa
  PROVE  \E c : /\ c = [in |-> NewIn, out |-> m.body.out, nets |-> m.body.nets]
                /\ c \in gwKids /\ \A t \in Ours : t.out # c.out
                /\ gwKids \subseteq {c} \cup Ours
<1>1. PICK c : c = [in |-> NewIn, out |-> m.body.out, nets |-> m.body.nets]
  OBVIOUS
<1>2. c \in gwKids /\ \A t \in Ours : t.out # c.out
  BY <1>1 DEF KidInv, CreatedInv
<1>3. \A k \in gwKids : k \in Ours \/ k = c
  <2> SUFFICES ASSUME NEW k \in gwKids, k \notin Ours PROVE k = c
    OBVIOUS
  <2>1. Coming(k)
    BY DEF KidInv, GwHas
  <2>2. PICK r \in gwSent : Answer(r) /\ k = [in |-> NewIn, out |-> r.body.out, nets |-> r.body.nets]
    BY <2>1 DEF Coming
  <2>3. r = m
    BY <2>2, OneAnswer
  <2> QED
    BY <1>1, <2>2, <2>3
<1> QED
  BY <1>1, <1>2, <1>3

\* The end of IKE_AUTH.
LEMMA FinalReplyKids ==
  ASSUME TunnelInv, OutInv, KidInv, UNCHANGED gwVars, NEW m \in gwSent, OnFinalReply(m), Live'
  PROVE  KidInv'
<1>0. task \in {"auth", "final"} /\ Answer(m) /\ UNCHANGED saVars
  BY DEF OnFinalReply, Answers, Answer
<1>1. sa # NoSa
  BY <1>0 DEF TunnelInv, CliInv, KeyedInv
<1>2. \A st, kids : ~Fail(st, kids)
  BY TeardownDead DEF Fail
<1>t. children = <<>> /\ spi \in Nat
  BY <1>0 DEF TunnelInv, CliInv, SpiInv, DrawInv, TypeInv, AskType
<1>3. m.body.what = "created" /\ NextChild(Append(children, NewChild(spi, m.body)))
  BY <1>2 DEF OnFinalReply
<1>4. PICK c : /\ c = [in |-> NewIn, out |-> m.body.out, nets |-> m.body.nets]
               /\ c \in gwKids /\ \A t \in Ours : t.out # c.out
               /\ gwKids \subseteq {c} \cup Ours
  BY <1>0, <1>1, <1>3, CreatedIs
<1> DEFINE k == NewChild(spi, m.body)
           kids == Append(children, k)
<1>5. Triple(k) = c /\ k \in Kid
  <2>1. NewIn = spi
    BY <1>0 DEF NewIn
  <2>2. k \in Kid
    BY <1>3, <1>t, GatewayOffers, NewChildTypes DEF TunnelInv
  <2> QED
    BY <1>4, <2>1, <2>2, NewChildTriple
<1> HIDE DEF k
<1>6. Triples(kids) = {c} /\ Ours = {}
  <2>1. kids = <<k>>
    BY <1>t
  <2>2. DOMAIN <<k>> = {1} /\ <<k>>[1] = k /\ DOMAIN <<>> = {}
    OBVIOUS
  <2>3. Ours = {}
    BY <1>t, <2>2 DEF Ours, Triples
  <2> QED
    BY <1>5, <2>1, <2>2, <2>3 DEF Triples
<1>7. NextChild(kids)
  BY <1>3 DEF k
<1> HIDE DEF kids
<1> QED
  BY <1>0, <1>1, <1>4, <1>6, <1>7, NextChildKids

\* The session is alive when it gets a response that keeps it so.
LEMMA ReplyAlive ==
  ASSUME TunnelInv, UNCHANGED gwVars, NEW m \in gwSent, OnReply(m), Live'
  PROVE  Live /\ Answer(m) /\ task \in Asking /\ (sa # NoSa => sa \in Sas /\ gwSas[sa].expect = messageId)
<1>1. task \in Asking \cup {"close"} /\ Answers(m)
  BY DEF OnReply, OnInitReply, OnFinalReply, OnEapReply, OnChildReply, OnPlainReply, OnCloseReply, Asking
<1>2. task # "close"
  <2> SUFFICES ASSUME task = "close" PROVE FALSE
    OBVIOUS
  <2>1. OnCloseReply(m)
    BY DEF OnReply, OnInitReply, OnFinalReply, OnEapReply, OnChildReply, OnPlainReply
  <2> QED
    BY <2>1 DEF OnCloseReply, Done, Live, Asking
<1>3. wait.sa = sa /\ (sa # NoSa => sa \in Sas /\ gwSas[sa].expect = messageId)
  BY <1>1, <1>2, ReplyInTime
<1>4. gwAlive
  BY GatewaySame DEF Live
<1> QED
  BY <1>1, <1>2, <1>3, <1>4 DEF Live, Answers, Answer

\* The CREATE_CHILD_SA response.
LEMMA ChildReplyKids ==
  ASSUME TunnelInv, OutInv, KidInv, UNCHANGED gwVars, NEW m \in gwSent, OnChildReply(m), Live'
  PROVE  KidInv'
<1>0. task = "child" /\ Answer(m) /\ UNCHANGED <<sa, next, sas, peerMessageId>> /\ UNCHANGED saVars
  BY DEF OnChildReply, Answers, Answer, saVars
<1>1. sa # NoSa
  BY <1>0 DEF TunnelInv, CliInv, KeyedInv, IInv, ControlInv, Committed
<1>x. gwSas[sa].expect = messageId
  BY <1>1, ReplyAlive DEF OnReply
<1>2. \A st, kids : ~Fail(st, kids)
  BY TeardownDead DEF Fail
<1>g. UNCHANGED <<gwSas, gwKids, gwSent>>
  BY GatewaySame
<1>t. children \in Seq(Kid) /\ kid.in \in Nat
  BY DEF TunnelInv, TypeInv, KidsType, AskType
<1>n. NewIn = kid.in
  BY <1>0 DEF NewIn
<1>3. CASE m.body.what = "redirected"
  <2>1. PICK b : Request(sa, messageId, "child", b) /\ UNCHANGED <<children, host, kid>>
    BY <1>2, <1>3 DEF OnChildReply
  <2> DEFINE n == Message(sa, messageId, FALSE, b)
  <2>2. sent' = sent \cup {n} /\ ~n.resp /\ task' = "child"
    BY <2>1 DEF Request, Message
  <2> HIDE DEF n
  <2>3. NoResponse
    BY <1>0, <2>2 DEF NoResponse
  <2>4. UNCHANGED Ours
    BY <2>1 DEF Ours
  <2>5. gwKids \subseteq Ours
    BY <1>0, <1>1, <1>3, OneAnswer, NothingComing
  <2>6. \A r \in gwSent' : ~Answer(r)'
    BY <1>g, <1>0, <1>1, <2>1, NotAnswered
  <2>7. SettledInv'
    <3>1. \A q : q.resp => (q \in sent' <=> q \in sent)
      BY <2>2
    <3> QED
      BY <1>0, <1>g, <2>1, <3>1 DEF KidInv, SettledInv
  <2>8. EmptyInv'
    <3>1. Unheard(1)' <=> Unheard(1)
      BY <2>3, NoResponseSame
    <3> QED
      BY <1>0, <1>g, <2>1, <2>4, <3>1 DEF KidInv, EmptyInv
  <2>9. PICK c : c \in {"none"} \cup Ours
    OBVIOUS
  <2> HIDE DEF NoResponse
  <2>10. Ours' \subseteq Ours \cup {c} /\ (c \in Ours' /\ c \notin Ours => c \in gwKids /\ \A t \in Ours : t.out # c.out)
    BY <2>4
  <2> QED
    BY <2>2, <2>3, <2>4, <2>5, <2>6, <2>7, <2>8, <2>10, OnwardKids
<1>4. CASE m.body.what = "notFound"
  <2>1. /\ children' = Without(children, kid.old) /\ Watch /\ UNCHANGED <<sent, host, kid>>
    BY <1>2, <1>4 DEF OnChildReply, kidVars
  <2>2. Ours' = {t \in Ours : t.in # kid.old}
    BY <1>t, <2>1, TriplesWithout DEF Ours
  <2>3. NoResponse /\ task' = "watch"
    BY <1>0, <2>1 DEF NoResponse, Watch
  <2>4. gwKids \subseteq Ours /\ \A k \in gwKids : k.in # kid.old
    <3>1. gwKids \subseteq Ours
      BY <1>0, <1>1, <1>4, OneAnswer, NothingComing
    <3> QED
      BY <1>0, <1>4, <3>1 DEF KidInv, FoundInv
  <2>5. SettledInv'
    BY <2>3 DEF SettledInv
  <2>6. ASSUME host', sas = 1, Ours' = {} PROVE EmptyInv'
    <3>1. Unheard(1)' <=> Unheard(1)
      BY <2>3, NoResponseSame
    <3>h. host
      BY <2>1, <2>6
    <3>2. Unheard(1) /\ gwSas[1].order.body.what = "info" /\ gwSas[1].order.body.outs # {}
      <4>1. CASE Ours = {}
        BY <2>6, <3>h, <4>1 DEF KidInv, EmptyInv
      <4>2. CASE Ours # {}
        <5>1. PICK t \in Ours : t.in = kid.old
          BY <2>2, <2>6, <4>2
        <5>z. sa \in Nat /\ next \in Nat /\ sa <= 1 /\ next <= 1
          BY <2>6, Sizes DEF TunnelInv, IInv, KeyInv, SaOrder
        <5>2. ~Stuck
          BY <5>z, Bounds DEF Stuck
        <5>3. Going(t)
          BY <2>4, <5>1, <5>2 DEF KidInv, CliHas
        <5>4. ASSUME NEW q \in sent, q.resp, q.sa = sa, q.id = gwSas[sa].order.id, q.body.what = "childCreated",
                     q.body.in = t.in, gwSas[sa].order # NoMessage
              PROVE  FALSE
          BY <1>0, <5>1, <5>4 DEF KidInv, SettledInv
        <5>5. PICK s \in Sas : Unheard(s) /\ gwSas[s].order.body.what = "info" /\ t.out \in gwSas[s].order.body.outs
          BY <5>3, <5>4 DEF Going
        <5>6. s = 1
          BY <5>5, <5>z, Bounds DEF Unheard, NoSa
        <5> QED
          BY <5>5, <5>6
      <4> QED
        BY <4>1, <4>2
    <3> QED
      BY <1>g, <3>1, <3>2 DEF EmptyInv
  <2>7. PICK c : c \in {"none"} \cup Ours
    OBVIOUS
  <2>8. Ours' \subseteq Ours \cup {c} /\ (c \in Ours' /\ c \notin Ours => c \in gwKids /\ \A t \in Ours : t.out # c.out)
    BY <2>2
  <2> QED
    BY <1>0, <2>2, <2>3, <2>4, <2>5, <2>6, <2>8, OnwardKids
<1>5. CASE m.body.what = "created"
  <2>1. PICK c : /\ c = [in |-> NewIn, out |-> m.body.out, nets |-> m.body.nets]
                 /\ c \in gwKids /\ \A t \in Ours : t.out # c.out
                 /\ gwKids \subseteq {c} \cup Ours
    BY <1>0, <1>1, <1>5, CreatedIs
  <2> DEFINE k == NewChild(kid.in, m.body)
  <2>2. Triple(k) = c /\ k \in Kid
    <3>2. k \in Kid
      BY <1>5, <1>t, GatewayOffers, NewChildTypes DEF TunnelInv
    <3> QED
      BY <1>n, <2>1, <3>2, NewChildTriple
  <2>3. CASE kid.old = NoSpi
    <3> DEFINE kids == <<k>> \o children
    <3>1. NextChild(kids)
      BY <1>5, <2>3 DEF OnChildReply
    <3> HIDE DEF k
    <3>2. Triples(kids) = {c} \cup Ours
      BY <1>t, <2>2, TriplesInFront DEF Ours
    <3> HIDE DEF kids
    <3> QED
      BY <1>0, <1>1, <2>1, <3>1, <3>2, NextChildKids
  <2>4. CASE kid.old # NoSpi
    <3> DEFINE rest == Without(children, kid.old)
    <3>1. /\ children' = <<k>> \o rest /\ UNCHANGED <<host, kid>>
          /\ IF Has(children, kid.old)
             THEN Request(sa, messageId, "delete", [what |-> "deleteChild", in |-> kid.old])
             ELSE Watch /\ UNCHANGED <<messageId, sent>>
      BY <1>5, <2>4 DEF OnChildReply, kidVars
    <3>2. rest \in Seq(Kid) /\ Triples(rest) = {t \in Ours : t.in # kid.old}
      BY <1>t, WithoutIs, TriplesWithout DEF Ours
    <3> HIDE DEF k, rest
    <3>3. Ours' = {c} \cup {t \in Ours : t.in # kid.old}
      BY <2>2, <3>1, <3>2, TriplesInFront DEF Ours
    <3>h. (\E t \in Ours : t.in = kid.old) => Has(children, kid.old)
      <4>1. \A x : Triple(x).in = x.in
        BY DEF Triple
      <4> QED
        BY <4>1 DEF Has, Ours, Triples
    <3>4. Ours' # {} /\ Ours' \subseteq Ours \cup {c}
      BY <3>3
    <3>5. CASE Has(children, kid.old)
      <4>1. PICK b : Request(sa, messageId, "delete", b)
        BY <3>1, <3>5
      <4> DEFINE n == Message(sa, messageId, FALSE, b)
      <4>2. sent' = sent \cup {n} /\ ~n.resp /\ task' = "delete" /\ wait'.id = messageId
        BY <4>1 DEF Request, Message
      <4> HIDE DEF n
      <4>3. NoResponse
        BY <1>0, <4>2 DEF NoResponse
      <4>4. SettledInv'
        BY <4>2 DEF SettledInv
      <4>5. \A d \in gwKids : d \in Ours' \/ (task' = "delete" /\ gwSas[sa].expect = wait'.id /\ d.in = kid'.old)
        BY <1>x, <2>1, <3>1, <3>3, <4>2
      <4> QED
        BY <1>0, <2>1, <3>3, <3>4, <4>2, <4>3, <4>4, <4>5, OnwardKids
    <3>6. CASE ~Has(children, kid.old)
      <4>2. UNCHANGED sent /\ task' = "watch"
        BY <3>1, <3>6 DEF Watch
      <4>3. NoResponse
        BY <1>0, <4>2 DEF NoResponse
      <4>4. SettledInv'
        BY <4>2 DEF SettledInv
      <4>5. gwKids \subseteq Ours'
        BY <2>1, <3>3, <3>6, <3>h
      <4> QED
        BY <1>0, <2>1, <3>3, <3>4, <4>2, <4>3, <4>4, <4>5, OnwardKids
    <3> QED
      BY <3>5, <3>6
  <2> QED
    BY <2>3, <2>4
<1> QED
  BY <1>2, <1>3, <1>4, <1>5 DEF OnChildReply

\* A step that only lets time pass.
LEMMA SameKids ==
  ASSUME TunnelInv, KidInv, UNCHANGED gwVars, UNCHANGED <<sa, next, sas, peerMessageId, children, host, kid, spi, task, sent>>,
         wait'.id = wait.id
  PROVE  KidInv'
<1>g. UNCHANGED <<gwSas, gwKids, gwSpi, gwSent>>
  BY GatewaySame
<1>0. NoResponse
  BY DEF NoResponse
<1>1. (\A s : Unheard(s)' <=> Unheard(s)) /\ (\A t : Going(t)' <=> Going(t)) /\ (Stuck' <=> Stuck)
  BY <1>0, NoResponseSame
<1>2. UNCHANGED <<Ours, NewIn>> /\ \A r : Answer(r)' <=> Answer(r)
  BY DEF Ours, NewIn, Answer
<1>3. \A c : Coming(c)' <=> Coming(c)
  BY <1>g, <1>2 DEF Coming
<1>4. ListInv' /\ GwHas' /\ CliHas'
  BY <1>g, <1>1, <1>2, <1>3 DEF KidInv, ListInv, GwHas, CliHas
<1>5. CreatedInv' /\ FoundInv'
  BY <1>g, <1>2 DEF KidInv, CreatedInv, FoundInv
<1>6. SettledInv' /\ UnsettledInv' /\ EmptyInv'
  BY <1>g, <1>1, <1>2 DEF KidInv, SettledInv, UnsettledInv, EmptyInv, Handled
<1> QED
  BY <1>4, <1>5, <1>6 DEF KidInv

\* Between watch and a request of its own, or back, the list stays.
LEMMA WatchKids ==
  ASSUME TunnelInv, OutInv, KidInv, NoResponse, UNCHANGED <<children, host>>,
         task' \in {"child", "dpd", "watch"}, task # "child", task' = "child" => \A r \in gwSent' : ~Answer(r)',
         gwKids \subseteq Ours, SettledInv'
  PROVE  KidInv'
<1>1. UNCHANGED Ours
  BY DEF Ours
<1>2. EmptyInv'
  <2>1. (Unheard(1)' <=> Unheard(1)) /\ UNCHANGED gwSas
    BY NoResponseSame
  <2>2. UNCHANGED sas
    BY DEF NoResponse
  <2> QED
    BY <1>1, <2>1, <2>2 DEF KidInv, EmptyInv
<1>3. PICK c : c \in {"none"} \cup Ours
  OBVIOUS
<1>4. Ours' \subseteq Ours \cup {c} /\ (c \in Ours' /\ c \notin Ours => c \in gwKids /\ \A t \in Ours : t.out # c.out)
  BY <1>1
<1> QED
  BY <1>1, <1>2, <1>4, OnwardKids

\* The client receives a response.
LEMMA ReplyKids ==
  ASSUME TunnelInv, OutInv, Live => KidInv, UNCHANGED gwVars, NEW m \in gwSent, OnReply(m), Live'
  PROVE  KidInv'
<1>0. Live /\ Answer(m) /\ task \in Asking /\ (sa # NoSa => sa \in Sas /\ gwSas[sa].expect = messageId)
  BY ReplyAlive
<1>1. CASE OnPlainReply(m)
  <2>1. /\ task \in {"delete", "dpd"} /\ task' = "watch" /\ UNCHANGED <<children, host, sent>>
        /\ UNCHANGED <<sa, next, sas, peerMessageId>> /\ m.resp /\ m.id = wait.id /\ m.sa = sa
    BY <1>1 DEF OnPlainReply, Watch, saVars, Answers
  <2>2. sa # NoSa
    BY <2>1 DEF TunnelInv, CliInv, KeyedInv, IInv, ControlInv, Committed
  <2>3. gwSas[sa].expect # wait.id
    <3>1. messageId = wait.id + 1 /\ wait.id \in Nat
      BY <1>0, <1>1, ReplyInTime, Sizes DEF OnPlainReply
    <3> QED
      BY <1>0, <2>2, <3>1
  <2>4. gwKids \subseteq Ours
    BY <1>0, <2>1, <2>3 DEF KidInv, GwHas, Coming
  <2>5. NoResponse
    BY <2>1 DEF NoResponse
  <2>6. SettledInv'
    BY <2>1 DEF SettledInv
  <2> QED
    BY <1>0, <2>1, <2>4, <2>5, <2>6, WatchKids
<1>2. CASE OnCloseReply(m)
  BY <1>2 DEF OnCloseReply, Done, Live, Asking
<1> QED
  BY <1>0, <1>1, <1>2, SetupReplyKids, FinalReplyKids, ChildReplyKids DEF OnReply

\* What the client does by itself; a CHILD SA is rekeyed once the gateway has
\* heard of it.
LocalSettled ==
  \/ Establish \/ Retransmit \/ GiveUp \/ IoError \/ Cancel \/ StartDpd
  \/ \E k \in DOMAIN children : StartRekey(k) /\ Settled(children[k])

\* Such a step keeps the lists in agreement.
LEMMA LocalKids ==
  ASSUME TunnelInv, OutInv, Live => KidInv, UNCHANGED gwVars, LocalSettled, Live'
  PROVE  KidInv'
<1>g. UNCHANGED <<gwSas, gwKids, gwSent, gwAlive>>
  BY GatewaySame
<1>f. \A o, st, d, kids : ~Teardown(o, st, d, kids)
  BY TeardownDead
<1>d. ~Done
  BY DEF Done, Live, Asking
<1>1. CASE Establish
  <2>1. PICK b : Request(NoSa, 0, "init", b) /\ UNCHANGED <<children, host, sa>> /\ task = "start"
    BY <1>1, <1>f DEF Establish, InitRequest, Fail, saVars
  <2>2. sa = NoSa /\ ~host /\ children = <<>>
    BY <2>1 DEF TunnelInv, IInv, ControlInv, SetUp, HostOnlyEstablished, CliInv, SpiInv, DrawInv
  <2>3. gwKids = {}
    BY <2>2 DEF OutInv
  <2>4. \A r \in gwSent' : Answer(r)' => r.body.what # "created"
    BY <1>g, <2>1, <2>2 DEF Answer, TunnelInv, GwInv, ReplyInv
  <2>5. UnsettledInv'
    BY <2>1, <2>2 DEF UnsettledInv
  <2>6. task' = "init"
    BY <2>1 DEF Request
  <2> QED
    BY <2>1, <2>2, <2>3, <2>4, <2>5, <2>6, FreshKids
<1>2. CASE Retransmit
  <2>1. /\ UNCHANGED <<sa, next, sas, peerMessageId, children, host, kid, spi, task, sent>>
        /\ wait' = [wait EXCEPT !.sends = @ + 1]
    BY <1>2 DEF Retransmit, saVars, kidVars
  <2>2. wait'.id = wait.id /\ wait'.sa = wait.sa
    BY <2>1 DEF TunnelInv, TypeInv, WaitType
  <2>3. Live
    BY <1>g, <2>1, <2>2 DEF Live
  <2> QED
    BY <2>1, <2>2, <2>3, SameKids
<1>3. CASE GiveUp \/ IoError \/ Cancel
  BY <1>3, <1>f, <1>d DEF GiveUp, IoError, Cancel, Fail
<1>w. ASSUME task = "watch"
      PROVE  /\ Live /\ KidInv /\ gwKids \subseteq Ours /\ sa # NoSa
  <2>1. Live
    BY <1>g, <1>w DEF Live, Asking
  <2>2. gwKids \subseteq Ours
    BY <1>w, <2>1 DEF KidInv, GwHas, Coming
  <2> QED
    BY <1>w, <2>1, <2>2 DEF TunnelInv, CliInv, KeyedInv, IInv, ControlInv, Committed
<1>4. CASE StartDpd
  <2>1. /\ task = "watch" /\ \E b : Request(sa, messageId, "dpd", b)
        /\ UNCHANGED <<children, host, sa, next, sas, peerMessageId>>
    BY <1>4 DEF StartDpd, saVars
  <2>2. PICK b : Request(sa, messageId, "dpd", b)
    BY <2>1
  <2> DEFINE n == Message(sa, messageId, FALSE, b)
  <2>3. sent' = sent \cup {n} /\ ~n.resp /\ task' = "dpd"
    BY <2>2 DEF Request, Message
  <2> HIDE DEF n
  <2>4. NoResponse
    BY <2>1, <2>3 DEF NoResponse
  <2>5. SettledInv'
    BY <2>3 DEF SettledInv
  <2> QED
    BY <1>w, <2>1, <2>3, <2>4, <2>5, WatchKids
<1>5. ASSUME NEW k \in DOMAIN children, StartRekey(k), Settled(children[k]) PROVE KidInv'
  <2>1. /\ task = "watch" /\ kid'.old = children[k].in /\ \E b : Request(sa, messageId, "child", b)
        /\ UNCHANGED <<children, host, sa, next, sas, peerMessageId>>
    BY <1>5 DEF StartRekey, CreateChild, saVars
  <2>2. PICK b : Request(sa, messageId, "child", b)
    BY <2>1
  <2> DEFINE n == Message(sa, messageId, FALSE, b)
  <2>3. sent' = sent \cup {n} /\ ~n.resp /\ task' = "child"
    BY <2>2 DEF Request, Message
  <2> HIDE DEF n
  <2>4. NoResponse
    BY <2>1, <2>3 DEF NoResponse
  <2>5. SettledInv'
    <3>1. \A q : q.resp => (q \in sent' <=> q \in sent)
      BY <2>3
    <3>2. gwAlive
      BY <1>g DEF Live
    <3> QED
      BY <1>5, <1>g, <2>1, <3>1, <3>2 DEF SettledInv, Settled
  <2>6. \A r \in gwSent' : ~Answer(r)'
    BY <1>g, <1>w, <2>1, <2>2, NotAnswered
  <2> QED
    BY <1>w, <2>1, <2>3, <2>4, <2>5, <2>6, WatchKids
<1> QED
  BY <1>1, <1>2, <1>3, <1>4, <1>5 DEF LocalSettled

\* A request of the gateway that the client answers at once.
LEMMA AnswerSame ==
  ASSUME TunnelInv, UNCHANGED gwVars, NEW m \in gwSent, IsNew(m), UNCHANGED sa, peerMessageId' = peerMessageId + 1,
         NEW n, sent' = sent \cup {n}, n.resp, n.sa = sa, n.id = m.id,
         next' = next \/ (m.body.what = "rekeyIke" /\ next' = sas + 1)
  PROVE  /\ sa \in Sas /\ sa # NoSa /\ gwSas[sa].order = m /\ m # NoMessage /\ ~m.resp /\ IsOrder(m.body)
         /\ Unheard(sa) /\ ~Handled(sa) /\ Handled(sa)'
         /\ \A s : Unheard(s)' <=> Unheard(s) /\ s # sa
         /\ Stuck' <=> Stuck
         /\ \A x \in sent : x.resp /\ x.sa = sa => x.id # m.id
         /\ UNCHANGED <<gwSas, gwKids, gwSpi, gwAlive, gwSent>>
<1>1. UNCHANGED <<gwSas, gwKids, gwSpi, gwAlive, gwSent>>
  BY GatewaySame
<1>2. /\ sa \in Sas /\ gwSas[sa].order = m /\ m # NoMessage /\ gwSas[sa].id = peerMessageId + 1
      /\ m.id = peerMessageId /\ m.sa = sa /\ ~m.resp /\ IsOrder(m.body)
  BY NewIsLast DEF TunnelInv
<1>3. sa # NoSa /\ peerMessageId \in Nat /\ sa \in Nat /\ sas \in Nat /\ next \in Nat
  BY <1>2, Bounds, Sizes
<1>4. Unheard(sa) /\ ~Handled(sa) /\ Handled(sa)'
  BY <1>1, <1>2, <1>3 DEF Unheard, Handled
<1>5. \A x \in sent : x.resp /\ x.sa = sa => x.id # m.id
  BY <1>2, <1>3 DEF TunnelInv, IInv, KeyInv, SentBefore
<1>6. ASSUME NEW s PROVE Unheard(s)' <=> Unheard(s) /\ s # sa
  <2>1. CASE s = sa
    BY <1>1, <1>2, <1>3, <2>1 DEF Unheard
  <2>2. CASE s # sa /\ next' = next
    BY <1>1, <1>3, <2>2 DEF Unheard
  <2>3. CASE s # sa /\ m.body.what = "rekeyIke" /\ next' = sas + 1
    <3>1. next = NoSa /\ sas = sa /\ sa < MaxSas
      BY <2>3, NewThenCurrent DEF TunnelInv
    <3> DEFINE k == sas + 1
    <3>2. k \in Sas /\ k > sas /\ k > 1
      BY <1>2, <1>3, <3>1, Bounds DEF Sas, NoSa
    <3>3. gwSas[k].order = NoMessage
      BY <3>2 DEF TunnelInv, GwInv, CurrentInv, OrderInv
    <3> HIDE DEF k
    <3>4. next' = k
      BY <2>3 DEF k
    <3> QED
      BY <1>1, <1>3, <2>3, <3>1, <3>3, <3>4 DEF Unheard
  <2> QED
    BY <2>1, <2>2, <2>3
<1>7. Stuck' <=> Stuck
  <2>1. \A s \in Sas : s < sa =>
          ((\A x \in sent : ~(x.resp /\ x.sa = s /\ x.id = gwSas[s].order.id))' <=>
           \A x \in sent : ~(x.resp /\ x.sa = s /\ x.id = gwSas[s].order.id))
    BY <1>1, <1>3
  <2> QED
    BY <1>1, <2>1 DEF Stuck
<1> QED
  BY <1>1, <1>2, <1>3, <1>4, <1>5, <1>6, <1>7

\* It asks for something else than to delete: the list has at most the new
\* CHILD SA more.
LEMMA RespondedKids ==
  ASSUME TunnelInv, OutInv, KidInv, UNCHANGED gwVars, NEW m \in gwSent, IsNew(m), m.body.what # "info",
         UNCHANGED <<sa, host, kid, task, wait>>, peerMessageId' = peerMessageId + 1,
         NEW n, sent' = sent \cup {n}, n.resp, n.sa = sa, n.id = m.id,
         (UNCHANGED <<next, sas>>) \/ (m.body.what = "rekeyIke" /\ next' = sas + 1 /\ sas' = sas + 1),
         NEW c, c.in = spi + 1, c.out = m.body.out, c = [in |-> spi + 1, out |-> m.body.out, nets |-> m.body.nets],
         \/ UNCHANGED <<children, spi>> /\ n.body.what # "childCreated"
         \/ /\ m.body.what = "rekeyChild" /\ Ours' = {c} \cup Ours /\ children # <<>>
            /\ n.body.what = "childCreated" /\ n.body.in = spi + 1 /\ spi' = spi + 1
  PROVE  KidInv'
<1>1. /\ sa \in Sas /\ sa # NoSa /\ gwSas[sa].order = m /\ m # NoMessage /\ ~m.resp /\ IsOrder(m.body)
      /\ Unheard(sa) /\ ~Handled(sa) /\ Handled(sa)'
      /\ \A s : Unheard(s)' <=> Unheard(s) /\ s # sa
      /\ Stuck' <=> Stuck
      /\ \A x \in sent : x.resp /\ x.sa = sa => x.id # m.id
      /\ UNCHANGED <<gwSas, gwKids, gwSpi, gwAlive, gwSent>>
  BY AnswerSame
<1>z. spi \in Nat /\ sas \in Nat /\ sa \in Nat
  BY Sizes DEF TunnelInv, TypeInv, AskType
<1> DEFINE New == m.body.what = "rekeyChild" /\ Ours' = {c} \cup Ours /\ n.body.what = "childCreated"
                    /\ n.body.in = spi + 1 /\ spi' = spi + 1 /\ task \notin {"auth", "final"}
<1>2. (UNCHANGED <<Ours, spi>> /\ n.body.what # "childCreated") \/ New
  <2>1. children # <<>> => task \notin {"auth", "final"}
    BY DEF TunnelInv, CliInv, SpiInv, DrawInv
  <2> QED
    BY <2>1 DEF Ours
<1> HIDE DEF New
<1>3. New => c \in Ours' /\ \A t \in Ours : t.out # c.out
  BY <1>1 DEF New, KidInv, ListInv
<1>4. Ours \subseteq Ours' /\ Ours' \subseteq Ours \cup {c} /\ (c \in Ours' => c \in Ours \/ New)
  BY <1>2 DEF New
<1>5. m.body.what = "rekeyChild" => m \in Draws /\ m.body.out \in 1 .. gwSpi
  <2>1. m.body.what = "rekeyChild" => m \in Draws
    BY DEF Draws
  <2> QED
    BY <2>1, OutsDrawn
<1>6. UNCHANGED NewIn \/ task \notin {"child", "auth", "final"}
  BY <1>2 DEF New, NewIn
<1>a. \A r : Answer(r)' <=> Answer(r)
  BY DEF Answer
<1>7. ListInv'
  <2>1. \A t \in Ours' : t.out \in 1 .. gwSpi
    BY <1>4, <1>5 DEF KidInv, ListInv, New
  <2>2. \A t, u \in Ours' : t.out = u.out => t = u
    BY <1>3, <1>4 DEF KidInv, ListInv
  <2>3. ASSUME NEW s \in Sas, Unheard(s), s # sa, gwSas[s].order.body.what = "rekeyChild", NEW t \in Ours'
        PROVE  t.out # gwSas[s].order.body.out
    <3>1. CASE t \in Ours
      BY <2>3, <3>1 DEF KidInv, ListInv
    <3>2. CASE t = c /\ New
      <4>0. gwSas[s].order # NoMessage
        BY <2>3 DEF Unheard
      <4>1. gwSas[s].order \in gwSent /\ gwSas[s].order.sa = s /\ m.sa = sa
        BY <1>1, <2>3, <4>0, OrderSent
      <4>2. gwSas[s].order \in Draws /\ gwSas[s].order # m
        BY <2>3, <4>1 DEF Draws
      <4> QED
        BY <1>5, <3>2, <4>2 DEF OutInv, New
    <3> QED
      BY <1>4, <2>3, <3>1, <3>2
  <2> QED
    BY <1>1, <2>1, <2>2, <2>3 DEF ListInv
<1>8. GwHas'
  <2>1. \A x : Coming(x) => Coming(x)'
    BY <1>1, <1>6, <1>a DEF Coming
  <2> QED
    BY <1>1, <1>4, <2>1 DEF KidInv, GwHas
<1>9. CliHas'
  <2>1. ASSUME NEW t, Going(t) PROVE Going(t)'
    <3>1. PICK s \in Sas : Unheard(s) /\ gwSas[s].order.body.what = "info" /\ t.out \in gwSas[s].order.body.outs
      BY <1>1, <2>1 DEF Going
    <3>2. s # sa
      BY <1>1, <3>1
    <3> QED
      BY <1>1, <3>1, <3>2 DEF Going
  <2>2. New => Going(c)'
    <3> SUFFICES ASSUME New PROVE Going(c)'
      OBVIOUS
    <3>1. n \in sent' /\ n.resp /\ n.sa = sa /\ n.id = m.id /\ n.body.what = "childCreated" /\ n.body.in = c.in
      BY DEF New
    <3>2. m.body.what = "rekeyChild" /\ m.body.out = c.out
      BY DEF New
    <3> QED
      BY <1>1, <3>1, <3>2 DEF Going
  <2> QED
    BY <1>1, <1>4, <2>1, <2>2 DEF KidInv, CliHas
<1>10. CreatedInv'
  <2> SUFFICES ASSUME task \in {"child", "auth", "final"}, NEW r \in gwSent, Answer(r), r.body.what = "created"
               PROVE  /\ [in |-> NewIn, out |-> r.body.out, nets |-> r.body.nets] \in gwKids
                      /\ \A t \in Ours' : t.out # r.body.out
    BY <1>1, <1>6, <1>a DEF CreatedInv
  <2>1. /\ [in |-> NewIn, out |-> r.body.out, nets |-> r.body.nets] \in gwKids
        /\ \A t \in Ours : t.out # r.body.out
    BY DEF KidInv, CreatedInv
  <2>2. New => c.out # r.body.out
    <3>1. r \in Draws /\ r # m
      BY <1>1 DEF Draws, Answer
    <3> QED
      BY <1>5, <3>1 DEF OutInv, New
  <2> QED
    BY <1>4, <2>1, <2>2
<1>11. FoundInv'
  BY <1>1, <1>a DEF KidInv, FoundInv
<1>12. SettledInv'
  <2> SUFFICES ASSUME task = "child", NEW x \in sent', x.resp, x.body.what = "childCreated", x.body.in = kid.old
               PROVE  gwSas[x.sa].order = NoMessage \/ gwSas[x.sa].order.id # x.id
    BY <1>1 DEF SettledInv
  <2>1. CASE x \in sent
    BY <2>1 DEF KidInv, SettledInv
  <2>2. CASE x = n
    <3>1. kid.old \in 0 .. spi
      BY DEF TunnelInv, CliInv, SpiInv, DrawInv
    <3> QED
      BY <1>2, <1>z, <2>2, <3>1 DEF New
  <2> QED
    BY <2>1, <2>2
<1>13. UnsettledInv'
  <2> SUFFICES ASSUME m.body.what = "rekeyChild", NEW x \in sent', x.resp, x.sa = sa, x.id = m.id,
                      x.body.what = "childCreated"
               PROVE  [in |-> x.body.in, out |-> m.body.out, nets |-> m.body.nets] \in Ours'
    BY <1>1 DEF UnsettledInv
  <2>1. x = n
    BY <1>1
  <2>2. New
    BY <1>2, <2>1
  <2> QED
    BY <1>3, <2>1, <2>2 DEF New
<1>14. EmptyInv'
  <2> SUFFICES ASSUME host, sas' = 1, Ours' = {} PROVE FALSE
    BY DEF EmptyInv
  <2>1. sa = 1 /\ sas = 1
    BY <1>1, <1>z, Bounds DEF TunnelInv, IInv, KeyInv, SaOrder, NoSa
  <2>2. Ours = {}
    BY <1>4
  <2> QED
    BY <1>1, <2>1, <2>2 DEF KidInv, EmptyInv
<1> QED
  BY <1>7, <1>8, <1>9, <1>10, <1>11, <1>12, <1>13, <1>14 DEF KidInv

\* The gateway rekeys, or asks for what the client does not do.
LEMMA RekeyKids ==
  ASSUME TunnelInv, OutInv, KidInv, UNCHANGED gwVars, NEW m \in gwSent, OnRefused(m) \/ OnIkeRekey(m) \/ OnChildRekey(m)
  PROVE  KidInv'
<1>t. children \in Seq(Kid) /\ spi + 1 \in Nat
  BY DEF TunnelInv, TypeInv, KidsType, AskType
<1>1. PICK c : c = [in |-> spi + 1, out |-> m.body.out, nets |-> m.body.nets]
  OBVIOUS
<1>2. c.in = spi + 1 /\ c.out = m.body.out
  BY <1>1
<1>3. CASE OnRefused(m) \/ OnIkeRekey(m)
  <2>1. PICK b : /\ b.what # "childCreated" /\ Respond(m, b) /\ IsNew(m) /\ m.body.what # "info"
                 /\ UNCHANGED <<sa, host, kid, task, wait, children, spi>>
                 /\ (UNCHANGED <<next, sas>>) \/ (m.body.what = "rekeyIke" /\ next' = sas + 1 /\ sas' = sas + 1)
    <3>1. CASE OnRefused(m)
      <4>1. Body("refused").what # "childCreated"
        BY DEF Body
      <4> QED
        BY <3>1, <4>1 DEF OnRefused, kidVars
    <3>2. CASE OnIkeRekey(m)
      BY <3>2 DEF OnIkeRekey, kidVars
    <3> QED
      BY <1>3, <3>1, <3>2
  <2>2. PICK n : n = Message(sa, m.id, TRUE, b)
    OBVIOUS
  <2>3. n.resp /\ n.sa = sa /\ n.id = m.id /\ n.body.what # "childCreated"
    BY <2>1, <2>2 DEF Message
  <2>4. sent' = sent \cup {n} /\ peerMessageId' = peerMessageId + 1
    BY <2>1, <2>2 DEF Respond
  <2> QED
    BY <1>1, <1>2, <2>1, <2>3, <2>4, RespondedKids
<1>4. CASE OnChildRekey(m)
  <2>0. IsNew(m) /\ m.body.what = "rekeyChild" /\ UNCHANGED <<sa, next, sas, host, kid, task, wait>>
    BY <1>4 DEF OnChildRekey
  <2> DEFINE old == ByOut(children, m.body.old)
  <2>1. CASE old = 0
    <3>1. Respond(m, Body("notFound")) /\ UNCHANGED <<children, spi>>
      BY <1>4, <2>1 DEF OnChildRekey
    <3>2. PICK n : n = Message(sa, m.id, TRUE, Body("notFound"))
      OBVIOUS
    <3>3. n.resp /\ n.sa = sa /\ n.id = m.id /\ n.body.what # "childCreated"
      BY <3>2 DEF Message, Body
    <3>4. sent' = sent \cup {n} /\ peerMessageId' = peerMessageId + 1
      BY <3>1, <3>2 DEF Respond
    <3> QED
      BY <1>1, <1>2, <2>0, <3>1, <3>3, <3>4, RespondedKids
  <2>2. CASE old # 0
    <3> DEFINE k == NewChild(spi + 1, m.body)
               rest == [children EXCEPT ![old].replaced = TRUE]
    <3>0. PICK b : b = [what |-> "childCreated", in |-> spi + 1]
      OBVIOUS
    <3>1. children' = <<k>> \o rest /\ spi' = spi + 1 /\ Respond(m, b)
      BY <1>4, <2>2, <3>0 DEF OnChildRekey
    <3>2. rest \in Seq(Kid) /\ Triples(rest) = Ours /\ children # <<>>
      <4>1. old \in DOMAIN children
        BY <1>t, <2>2, ByOutIs
      <4>2. children # <<>>
        BY <4>1
      <4> QED
        BY <1>t, <4>1, <4>2, ReplacedTypes, TriplesReplaced DEF Ours
    <3>3. k \in Kid /\ Triple(k) = c
      BY <1>1, <1>t, <2>0, GatewayOffers, NewChildTypes, NewChildTriple DEF TunnelInv
    <3> HIDE DEF k, rest
    <3>4. Ours' = {c} \cup Ours
      BY <3>1, <3>2, <3>3, TriplesInFront DEF Ours
    <3>5. PICK n : n = Message(sa, m.id, TRUE, b)
      OBVIOUS
    <3>6. n.resp /\ n.sa = sa /\ n.id = m.id /\ n.body.what = "childCreated" /\ n.body.in = spi + 1
      BY <3>0, <3>5 DEF Message
    <3>7. sent' = sent \cup {n} /\ peerMessageId' = peerMessageId + 1
      BY <3>1, <3>5 DEF Respond
    <3> HIDE DEF old
    <3> QED
      BY <1>1, <1>2, <2>0, <3>1, <3>2, <3>4, <3>6, <3>7, RespondedKids
  <2> QED
    BY <2>1, <2>2
<1> QED
  BY <1>3, <1>4

\* A DELETE takes what it names from the list, and nothing the gateway has.
LEMMA KeptOurs ==
  ASSUME TunnelInv, OutInv, KidInv, NEW m \in gwSent, m.body.what = "info", children' = Kept(children, m.body.outs)
  PROVE  /\ Ours' = {t \in Ours : t.out \notin m.body.outs}
         /\ \A c \in gwKids : c \in Ours => c \in Ours'
<1>1. children \in Seq(Kid) /\ InOrder(children, spi)
  BY DEF TunnelInv, TypeInv, KidsType, CliInv, SpiInv
<1>2. \A t, u \in Ours : t.out = u.out => t = u
  BY DEF KidInv, ListInv
<1>3. Ours' = {t \in Ours : t.out \notin m.body.outs}
  BY <1>1, <1>2, TriplesKept DEF Ours
<1>4. m.body.outs \subseteq Deleted
  BY DEF Deleted
<1> QED
  BY <1>3, <1>4 DEF OutInv

\* A DELETE that ends nothing.
LEMMA DeletedKids ==
  ASSUME TunnelInv, OutInv, KidInv, UNCHANGED gwVars, NEW m \in gwSent, IsNew(m), m.body.what = "info",
         UNCHANGED <<sa, next, sas, host, kid, task, wait, spi>>, peerMessageId' = peerMessageId + 1,
         NEW n, sent' = sent \cup {n}, n.resp, n.sa = sa, n.id = m.id, n.body.what = "deleted",
         children' = Kept(children, m.body.outs), ~EndsIke(m, children')
  PROVE  KidInv'
<1>1. /\ sa \in Sas /\ sa # NoSa /\ gwSas[sa].order = m /\ m # NoMessage /\ ~m.resp /\ IsOrder(m.body)
      /\ Unheard(sa) /\ ~Handled(sa) /\ Handled(sa)'
      /\ \A s : Unheard(s)' <=> Unheard(s) /\ s # sa
      /\ Stuck' <=> Stuck
      /\ \A x \in sent : x.resp /\ x.sa = sa => x.id # m.id
      /\ UNCHANGED <<gwSas, gwKids, gwSpi, gwAlive, gwSent>>
  BY AnswerSame
<1>2. /\ Ours' = {t \in Ours : t.out \notin m.body.outs}
      /\ \A c \in gwKids : c \in Ours => c \in Ours'
  BY KeptOurs
<1>a. (\A r : Answer(r)' <=> Answer(r)) /\ UNCHANGED NewIn
  BY DEF Answer, NewIn
<1>3. ListInv'
  BY <1>1, <1>2 DEF KidInv, ListInv
<1>4. GwHas'
  <2>1. \A x : Coming(x) => Coming(x)'
    BY <1>1, <1>a DEF Coming
  <2> QED
    BY <1>1, <1>2, <2>1 DEF KidInv, GwHas
<1>5. CliHas'
  <2>1. ASSUME NEW t \in Ours', Going(t) PROVE Going(t)'
    <3>1. PICK s \in Sas : Unheard(s) /\ gwSas[s].order.body.what = "info" /\ t.out \in gwSas[s].order.body.outs
      BY <1>1, <2>1 DEF Going
    <3>2. s # sa
      BY <1>1, <1>2, <3>1
    <3> QED
      BY <1>1, <3>1, <3>2 DEF Going
  <2> QED
    BY <1>1, <1>2, <2>1 DEF KidInv, CliHas
<1>6. CreatedInv' /\ FoundInv'
  BY <1>1, <1>2, <1>a DEF KidInv, CreatedInv, FoundInv
<1>7. SettledInv'
  BY <1>1 DEF KidInv, SettledInv
<1>8. UnsettledInv'
  BY <1>1 DEF UnsettledInv
<1>9. EmptyInv'
  <2> SUFFICES ASSUME host, sas = 1, Ours' = {} PROVE FALSE
    BY DEF EmptyInv
  <2>1. sa = 1
    BY <1>1, Sizes, Bounds DEF TunnelInv, IInv, KeyInv, SaOrder, NoSa
  <2>2. children' = <<>>
    <3>1. children \in Seq(Kid) /\ Kept(children, m.body.outs) \in Seq(Kid)
      BY KeptIs DEF TunnelInv, TypeInv, KidsType
    <3>2. children' \in Seq(Kid) /\ Triples(children') = {}
      BY <3>1 DEF Ours
    <3> QED
      BY <3>2, TriplesEmpty
  <2>3. m.body.outs = {}
    BY <1>1, <2>2 DEF EndsIke, IsOrder
  <2> QED
    BY <1>1, <1>2, <2>1, <2>3 DEF KidInv, EmptyInv
<1> QED
  BY <1>3, <1>4, <1>5, <1>6, <1>7, <1>8, <1>9 DEF KidInv

\* The rekeyed IKE SA takes over.
LEMMA SwitchedKids ==
  ASSUME TunnelInv, OutInv, KidInv, task = "watch", UNCHANGED gwVars, NEW m \in gwSent, IsNew(m), m.body.what = "info",
         next # NoSa, SwitchIke, UNCHANGED <<sas, task>>,
         NEW n, sent' = sent \cup {n}, n.resp, n.sa = sa, children' = Kept(children, m.body.outs)
  PROVE  KidInv'
<1>g. UNCHANGED <<gwSas, gwKids, gwSpi, gwSent>>
  BY GatewaySame
<1>z. /\ next \in Sas /\ next \in Nat /\ sa \in Sas /\ sa # NoSa /\ sa < next /\ next # 1
      /\ sa \in Nat /\ sas \in Nat /\ next <= sas /\ peerMessageId \in Nat
  BY Sizes DEF TunnelInv, IInv, KeyInv, SaOrder
<1>s. sa' = next /\ next' = NoSa /\ peerMessageId' = 0
  BY DEF SwitchIke
<1>1. gwSas[sa].order = m /\ gwSas[sa].id = peerMessageId + 1
  BY NewIsLast DEF TunnelInv
<1>2. /\ Ours' = {t \in Ours : t.out \notin m.body.outs}
      /\ \A c \in gwKids : c \in Ours => c \in Ours'
  BY KeptOurs
<1>3. gwSas[next].order # NoMessage => gwSas[next].id = 1
  BY <1>z DEF TunnelInv, GwInv, NextInv
<1>4. \A s : Unheard(s)' <=> Unheard(s) /\ s # sa
  BY <1>g, <1>z, <1>s, <1>3 DEF Unheard
<1>5. ~(gwSas[sa].order # NoMessage /\ Handled(sa))'
  BY <1>g, <1>s, <1>3 DEF Handled
<1>6. Stuck => Stuck'
  <2> SUFFICES ASSUME NEW s \in Sas, s < sa, gwSas[s].order # NoMessage,
                      \A x \in sent : ~(x.resp /\ x.sa = s /\ x.id = gwSas[s].order.id)
               PROVE  Stuck'
    BY DEF Stuck
  <2>0. s \in Nat
    BY Bounds
  <2>1. s < next /\ s # n.sa
    BY <1>z, <2>0
  <2>2. \A x \in sent' : ~(x.resp /\ x.sa = s /\ x.id = gwSas[s].order.id)
    BY <2>1
  <2> QED
    BY <1>g, <1>s, <2>1, <2>2 DEF Stuck
<1>7. ListInv'
  BY <1>g, <1>2, <1>4 DEF KidInv, ListInv
<1>8. GwHas'
  <2>1. gwKids \subseteq Ours
    BY DEF KidInv, GwHas, Coming
  <2> QED
    BY <1>g, <1>2, <2>1 DEF GwHas
<1>9. CliHas'
  <2>1. ASSUME NEW t \in Ours', Going(t) PROVE Going(t)'
    <3>0. ~Handled(sa)
      BY <1>1, <1>z DEF Handled
    <3>1. PICK s \in Sas : Unheard(s) /\ gwSas[s].order.body.what = "info" /\ t.out \in gwSas[s].order.body.outs
      BY <3>0, <2>1 DEF Going
    <3>2. s # sa
      BY <1>1, <1>2, <3>1
    <3> QED
      BY <1>g, <1>4, <3>1, <3>2 DEF Going
  <2> QED
    BY <1>g, <1>2, <1>6, <2>1 DEF KidInv, CliHas
<1>10. CreatedInv' /\ FoundInv' /\ SettledInv'
  BY DEF CreatedInv, FoundInv, SettledInv
<1>11. UnsettledInv'
  BY <1>5 DEF UnsettledInv
<1>12. EmptyInv'
  BY <1>z DEF EmptyInv
<1> QED
  BY <1>7, <1>8, <1>9, <1>10, <1>11, <1>12 DEF KidInv

\* The client receives a request.
LEMMA OrderKids ==
  ASSUME TunnelInv, LiveInv, OutInv, Live => KidInv, UNCHANGED gwVars, NEW m \in gwSent, OnOrder(m), Live'
  PROVE  KidInv'
<1>g. UNCHANGED gwAlive
  BY GatewaySame
<1>1. ASSUME UNCHANGED <<sa, task, wait>> PROVE Live
  BY <1>g, <1>1 DEF Live
<1>2. CASE OnRetransmission(m)
  <2>1. UNCHANGED <<sa, next, sas, peerMessageId, children, host, kid, spi, task, wait, sent>>
    BY <1>2 DEF OnRetransmission, saVars, kidVars, TunnelInv, IInv, KeyInv, LastSent
  <2>2. Live
    BY <1>1, <2>1
  <2> QED
    BY <2>1, <2>2, SameKids
<1>3. CASE OnRefused(m) \/ OnIkeRekey(m) \/ OnChildRekey(m)
  <2>1. Live
    BY <1>1, <1>3 DEF OnRefused, OnIkeRekey, OnChildRekey
  <2> QED
    BY <1>3, <2>1, RekeyKids
<1>4. CASE OnInformational(m)
  <2>1. PICK b : b = [what |-> "deleted", ins |-> {children[k].in : k \in Dropped(children, m.body.outs)}]
    OBVIOUS
  <2>2. PICK n : n = Message(sa, m.id, TRUE, b)
    OBVIOUS
  <2>3. n.resp /\ n.sa = sa /\ n.id = m.id /\ n.body.what = "deleted"
    BY <2>1, <2>2 DEF Message
  <2> DEFINE kids == Kept(children, m.body.outs)
  <2>4. ~Done
    BY DEF Done, Live, Asking
  <2>5. /\ IsNew(m) /\ m.body.what = "info" /\ sent' = sent \cup {n} /\ children' = kids
        /\ UNCHANGED <<sas, host, task, wait, kid, spi>>
        /\ \/ SwitchIke /\ next # NoSa
           \/ peerMessageId' = peerMessageId + 1 /\ UNCHANGED <<sa, next>> /\ ~EndsIke(m, kids)
    BY <1>4, <2>1, <2>2, <2>4 DEF OnInformational, kidVars
  <2>6. CASE SwitchIke /\ next # NoSa
    <3>1. task = "watch" /\ Live
      BY <2>3, <2>5, <2>6, SwitchLive
    <3> QED
      BY <2>3, <2>5, <2>6, <3>1, SwitchedKids
  <2>7. CASE peerMessageId' = peerMessageId + 1 /\ UNCHANGED <<sa, next>> /\ ~EndsIke(m, kids)
    <3>1. Live
      BY <1>1, <2>5, <2>7
    <3>2. ~EndsIke(m, children')
      BY <2>5, <2>7
    <3> HIDE DEF kids
    <3>3. children' = Kept(children, m.body.outs)
      BY <2>5 DEF kids
    <3> QED
      BY <2>3, <2>5, <2>7, <3>1, <3>2, <3>3, DeletedKids
  <2> QED
    BY <2>5, <2>6, <2>7
<1> QED
  BY <1>2, <1>3, <1>4 DEF OnOrder

-----------------------------------------------------------------------------
(* The theorems.                                                           *)

\* The steps of the session, with what the gateway has heard of a CHILD SA
\* before the client rekeys it.
LEMMA ChildStepIs ==
  ASSUME TunnelNext
  PROVE  \/ Gateway
         \/ UNCHANGED gwVars /\ \E m \in gwSent : OnReply(m) \/ OnOrder(m)
         \/ UNCHANGED gwVars /\ LocalSettled
         \/ UNCHANGED <<vars, gwVars>>
<1>1. CASE Receive
  BY <1>1 DEF Receive
<1>2. CASE ReceiveOther
  BY <1>2 DEF ReceiveOther
<1>3. CASE ClientDpd \/ ClientTimer \/ ClientStart \/ ClientStop
  BY <1>3 DEF ClientDpd, Bounded, ClientTimer, ClientStart, ClientStop, LocalSettled, gwVars
<1>4. CASE ClientRekey
  BY <1>4 DEF ClientRekey, Bounded, LocalSettled
<1> QED
  BY <1>1, <1>2, <1>3, <1>4 DEF TunnelNext

\* Rounds of EAP begin where EAP is configured.
LEMMA StepEap ==
  ASSUME EapInv, [TunnelNext]_allVars
  PROVE  EapInv'
<1>1. ASSUME UNCHANGED task PROVE EapInv'
  BY <1>1 DEF EapInv
<1>2. ASSUME task' \notin {"eap", "final"} PROVE EapInv'
  BY <1>2 DEF EapInv
<1>3. \A o, st, d, kids : Teardown(o, st, d, kids) => task' \notin {"eap", "final"}
  BY DEF Teardown, Request, Done
<1>4. \A s, i, t, b : Request(s, i, t, b) => task' = t
  BY DEF Request
<1>5. \A kids : NextChild(kids) => task' \notin {"eap", "final"}
  BY <1>3, <1>4 DEF NextChild, BringUp, CreateChild, Watch, Fail
<1>6. ASSUME NEW m \in gwSent, OnReply(m) PROVE EapInv'
  <2>1. CASE OnInitReply(m)
    BY <1>2, <1>3, <1>4, <2>1 DEF OnInitReply, InitRequest, Fail
  <2>2. CASE OnFinalReply(m)
    BY <1>2, <1>3, <1>5, <2>2 DEF OnFinalReply, Fail
  <2>3. CASE OnEapReply(m)
    BY <2>3 DEF OnEapReply, EapInv
  <2>4. CASE OnChildReply(m)
    BY <1>2, <1>3, <1>4, <1>5, <2>4 DEF OnChildReply, Fail, Watch
  <2>5. CASE OnPlainReply(m) \/ OnCloseReply(m)
    BY <1>2, <2>5 DEF OnPlainReply, OnCloseReply, Watch, Done
  <2> QED
    BY <1>6, <2>1, <2>2, <2>3, <2>4, <2>5 DEF OnReply
<1>7. ASSUME NEW m \in gwSent, OnOrder(m) PROVE EapInv'
  <2>1. UNCHANGED task \/ Done
    BY <1>7 DEF OnOrder, OnRetransmission, OnRefused, OnIkeRekey, OnChildRekey, OnInformational
  <2> QED
    BY <1>1, <1>2, <2>1 DEF Done
<1>8. ASSUME Local PROVE EapInv'
  <2>1. UNCHANGED task \/ task' \notin {"eap", "final"}
    BY <1>3, <1>4, <1>8 DEF Local, Establish, InitRequest, Fail, Retransmit, GiveUp, IoError, Cancel, StartDpd,
       StartRekey, CreateChild, Done
  <2> QED
    BY <1>1, <1>2, <2>1
<1>9. ASSUME UNCHANGED vars PROVE EapInv'
  BY <1>1, <1>9, ClientSame
<1> QED
  BY <1>6, <1>7, <1>8, <1>9, StepIs DEF allVars, Gateway

\* Every step.
LEMMA StepKids ==
  ASSUME TunnelInv, LiveInv, EapInv, ChildInv, [TunnelNext]_allVars
  PROVE  ChildInv'
<1>1. OutInv'
  BY StepOut DEF ChildInv
<1>2. OutInv /\ (Live => KidInv)
  BY DEF ChildInv
<1>3. ASSUME Live' PROVE KidInv'
  <2>1. CASE UNCHANGED <<vars, gwVars>>
    <3>1. Live
      BY <1>3, <2>1, ClientSame, GatewaySame DEF Live
    <3> QED
      BY <1>2, <2>1, <3>1, ClientSame, SameKids
  <2> QED
    BY <1>2, <1>3, <2>1, ChildStepIs, GatewayChildren, ReplyKids, OrderKids, LocalKids DEF allVars
<1> QED
  BY <1>1, <1>3 DEF ChildInv

\* The CHILD SAs the two sides have, and what each has yet to hear of: the
\* invariant the next two theorems rest on.
THEOREM ChildInvariant == TunnelSpec => [](EapInv /\ ChildInv)
<1>1. TunnelInit => EapInv /\ ChildInv
  <2> SUFFICES ASSUME TunnelInit PROVE EapInv /\ ChildInv
    OBVIOUS
  <2>1. ~Live /\ EapInv
    BY DEF TunnelInit, Init, Live, Asking, EapInv
  <2>2. OutInv
    <3>1. gwKids = {} /\ gwSent = {} /\ \A s \in Sas : gwSas[s].order = NoMessage
      BY DEF TunnelInit, GwInit, NewSa
    <3>2. Draws = {}
      BY <3>1 DEF Draws
    <3> QED
      BY <3>1, <3>2 DEF OutInv
  <2> QED
    BY <2>1, <2>2 DEF ChildInv
<1>2. TunnelInv /\ LiveInv /\ EapInv /\ ChildInv /\ [TunnelNext]_allVars => EapInv' /\ ChildInv'
  BY StepEap, StepKids
<1> QED
  BY <1>1, <1>2, TunnelInvariant, LiveInvariant, PTL DEF TunnelSpec

\* When nothing is under way, client and gateway have the same CHILD SAs,
\* whatever rekeys, deletes, retransmissions and late responses crossed.
THEOREM ChildrenSame == TunnelSpec => []ChildrenAgree
<1>1. TunnelInv /\ ChildInv => ChildrenAgree
  <2> SUFFICES ASSUME TunnelInv, ChildInv, Quiet PROVE gwKids = Ours
    BY DEF ChildrenAgree, Ours, Triples, Triple
  <2>1. task = "watch" /\ KidInv /\ \A s \in Sas : gwSas[s].order = NoMessage
    BY DEF Quiet, Live, Asking, ChildInv
  <2>2. gwKids \subseteq Ours
    BY <2>1 DEF KidInv, GwHas, Coming
  <2>3. ~Stuck
    BY <2>1 DEF Stuck
  <2>4. ASSUME NEW t, Going(t) PROVE FALSE
    <3>1. PICK s \in Sas : Unheard(s)
      BY <2>1, <2>4, Sizes DEF Going
    <3> QED
      BY <2>1, <3>1 DEF Unheard
  <2> QED
    BY <2>1, <2>2, <2>3, <2>4 DEF KidInv, CliHas
<1> QED
  BY <1>1, TunnelInvariant, ChildInvariant, PTL

\* An interface that is up has a CHILD SA to carry its traffic unless a
\* DELETE that ends the session is on its way, as long as the IKE SA was not
\* rekeyed: no rekey that crosses a DELETE leaves the list empty for good.
THEOREM UpIsCarried == TunnelSpec => []UpHasChild
<1>1. TunnelInv /\ ChildInv => UpHasChild
  <2> SUFFICES ASSUME TunnelInv, ChildInv, Quiet, host, sas = 1, children = <<>> PROVE FALSE
    BY DEF UpHasChild
  <2>1. KidInv /\ \A s \in Sas : gwSas[s].order = NoMessage
    BY DEF Quiet, Live, Asking, ChildInv
  <2>2. children \in Seq(Kid)
    BY DEF TunnelInv, TypeInv, KidsType
  <2>3. Ours = {}
    BY <2>2, TriplesEmpty DEF Ours
  <2>4. Unheard(1)
    BY <2>1, <2>3 DEF KidInv, EmptyInv
  <2> QED
    BY <2>1, <2>4, Bounds DEF Unheard
<1> QED
  BY <1>1, TunnelInvariant, ChildInvariant, PTL

=============================================================================
